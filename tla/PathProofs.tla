----------------------------- MODULE PathProofs -----------------------------
(* Theorems about Path, for any number of clients and any configurations.  *)
EXTENDS Path, FiniteSetTheorems, TLAPS

-----------------------------------------------------------------------------
(* The operators that several handlers share.                              *)

(* Whoever is admitted from the hold queue was in it. *)
LEMMA AdmittedFromHold ==
  ASSUME NEW base PROVE Admitted(base) \subseteq HoldSet
BY DEF Admitted, HoldSet

(* The queue holds readers only. *)
LEMMA HoldSetType ==
  ASSUME readersOnHold \in Seq(Readers) PROVE HoldSet \subseteq Readers
BY DEF HoldSet

(* Telling sessions to close changes nothing but states of readers. *)
LEMMA AfterCloseType ==
  ASSUME readerState \in [Readers -> ReaderStates], NEW S
  PROVE  AfterClose(S) \in [Readers -> ReaderStates]
BY DEF AfterClose, ReaderStates

(* Failing the held requests keeps the types of what it touches. *)
LEMMA FailOnHoldType ==
  ASSUME TypeOK, FailOnHold
  PROVE  /\ describesOnHold' \in SUBSET Readers
         /\ readersOnHold' \in Seq(Readers)
         /\ readerState' \in [Readers -> ReaderStates]
BY DEF TypeOK, FailOnHold, ReaderStates

(* So does serving them. *)
LEMMA ConsumeOnHoldType ==
  ASSUME TypeOK, NEW base \in SUBSET Readers, NEW closed,
         ConsumeOnHold(base, closed)
  PROVE  /\ readers' \in SUBSET Readers
         /\ describesOnHold' \in SUBSET Readers
         /\ readersOnHold' \in Seq(Readers)
         /\ readerState' \in [Readers -> ReaderStates]
<1>1. Admitted(base) \subseteq Readers
  BY AdmittedFromHold, HoldSetType DEF TypeOK
<1>2. AfterClose(closed) \in [Readers -> ReaderStates]
  BY AfterCloseType DEF TypeOK
<1> QED
  BY <1>1, <1>2 DEF ConsumeOnHold, ReaderStates

(* A stream that begins or ends keeps the types of its variables. *)
LEMMA StreamType ==
  ASSUME TypeOK, SetAvailable \/ SetNotAvailable
  PROVE  /\ available' \in BOOLEAN
         /\ readyCommands' \in 0..MaxReadyCommands
         /\ recorder' \in RecordFormats
<1>1. conf.record \in RecordFormats
  BY ConfsAssumption DEF TypeOK, Conf
<1>2. CASE SetAvailable
  BY <1>1, <1>2, BoundsAssumption DEF TypeOK, SetAvailable
<1>3. CASE SetNotAvailable
  <2>1. MaxReadyCommands \in Nat /\ readyCommands \in 0..MaxReadyCommands
    BY BoundsAssumption DEF TypeOK
  <2>2. readyCommands' \in 0..MaxReadyCommands
    BY <1>3, <2>1 DEF SetNotAvailable
  <2> QED
    BY <1>3, <2>2 DEF SetNotAvailable, RecordFormats
<1> QED
  BY <1>2, <1>3

-----------------------------------------------------------------------------
(* Type correctness.  pendingRequests is a natural number only because     *)
(* each client that is served has been counted, so the two go together.    *)

PendingInv == TypeOK /\ CallersCounted

(* The callers are finitely many. *)
LEMMA CallersFinite ==
  /\ IsFiniteSet(ReaderCallers) /\ Cardinality(ReaderCallers) \in Nat
  /\ IsFiniteSet(PublisherCallers) /\ Cardinality(PublisherCallers) \in Nat
<1>1. ReaderCallers \subseteq Readers /\ PublisherCallers \subseteq Publishers
  BY DEF ReaderCallers, PublisherCallers
<1> QED
  BY <1>1, FS_Subset, FS_CardinalityType, ClientsAssumption

(* Serving a client that has been counted does not go below zero. *)
LEMMA ServedWasCounted ==
  ASSUME PendingInv
  PROVE  /\ \A r \in Readers : readerState[r] \in {"describing", "adding"}
              => pendingRequests - 1 \in Nat
         /\ \A p \in Publishers : publisherState[p] = "adding"
              => pendingRequests - 1 \in Nat
<1>1. ReaderCallers # {} => Cardinality(ReaderCallers) > 0
  BY CallersFinite, FS_EmptySet
<1>2. PublisherCallers # {} => Cardinality(PublisherCallers) > 0
  BY CallersFinite, FS_EmptySet
<1>3. ReaderCallers # {} \/ PublisherCallers # {} => pendingRequests - 1 \in Nat
  BY <1>1, <1>2, CallersFinite DEF PendingInv, CallersCounted, TypeOK
<1> QED
  BY <1>3 DEF ReaderCallers, PublisherCallers

(* The initial states. *)
LEMMA TypeInit == Init => TypeOK
<1> SUFFICES ASSUME Init PROVE TypeOK
  OBVIOUS
<1>1. conf \in Conf
  BY ConfsAssumption DEF Init
<1>2. readerState \in [Readers -> ReaderStates]
  BY DEF Init, AllIdle, OneClientOnItsWay, ReaderStates
<1>3. publisherState \in [Publishers -> PublisherStates]
  BY DEF Init, AllIdle, OneClientOnItsWay, PublisherStates
<1>4. source \in Publishers \cup {NoOne, "handler", "redirect"}
  BY <1>1 DEF Init, Conf
<1>5. available \in BOOLEAN /\ recorder \in RecordFormats
  BY <1>1 DEF Init, Conf, RecordFormats
<1>6. readyCommands \in 0..MaxReadyCommands
  BY BoundsAssumption DEF Init
<1>7. handler \in {"none", "stopped", "starting", "ready"}
  BY DEF Init
<1>8. readersOnHold \in Seq(Readers) /\ pendingRequests \in Nat
  BY DEF Init
<1> QED
  BY <1>1, <1>2, <1>3, <1>4, <1>5, <1>6, <1>7, <1>8 DEF Init, TypeOK

(* A step never takes a variable out of its type. *)
LEMMA TypeStep ==
  ASSUME PendingInv, [Next]_vars PROVE TypeOK'
<1> USE DEF PendingInv
<1>c. \A c \in Confs : c \in Conf
  BY ConfsAssumption
<1>1. CASE StaticSourceReadyTimer
  <2>1. describesOnHold' \in SUBSET Readers /\ readersOnHold' \in Seq(Readers)
        /\ readerState' \in [Readers -> ReaderStates]
    BY <1>1, FailOnHoldType DEF StaticSourceReadyTimer
  <2> QED
    BY <1>1, <2>1 DEF TypeOK, StaticSourceReadyTimer, StaticSourceStop,
         StopCloseTimer, EndWithCheck, streamVars
<1>2. CASE StaticSourceCloseTimer
  <2>1. readers' = {} /\ readerState' \in [Readers -> ReaderStates]
    BY <1>2, AfterCloseType DEF TypeOK, StaticSourceCloseTimer, CloseReaders
  <2>2. /\ available' \in BOOLEAN /\ recorder' \in RecordFormats
        /\ readyCommands' \in 0..MaxReadyCommands
    BY <1>2, StreamType DEF StaticSourceCloseTimer
  <2> QED
    BY <1>2, <2>1, <2>2 DEF TypeOK, StaticSourceCloseTimer, StaticSourceStop,
         EndWithCheck, holdVars
<1>3. CASE PublisherReadyTimer
  <2>1. describesOnHold' \in SUBSET Readers /\ readersOnHold' \in Seq(Readers)
        /\ readerState' \in [Readers -> ReaderStates]
    BY <1>3, FailOnHoldType DEF PublisherReadyTimer
  <2> QED
    BY <1>3, <2>1 DEF TypeOK, PublisherReadyTimer, PublisherStop,
         StopCloseTimer, EndWithCheck, streamVars
<1>4. CASE PublisherCloseTimer
  BY <1>4 DEF TypeOK, PublisherCloseTimer, PublisherStop, EndNoCheck,
       clientVars, streamVars, holdVars
<1>5. ASSUME NEW ok \in BOOLEAN, SourceStaticSetReady(ok) PROVE TypeOK'
  <2>1. /\ available' \in BOOLEAN /\ recorder' \in RecordFormats
        /\ readyCommands' \in 0..MaxReadyCommands
    BY <1>5, StreamType DEF SourceStaticSetReady, TypeOK
  <2>2. CASE ok
    <3>1. /\ describesOnHold' \in SUBSET Readers
          /\ readersOnHold' \in Seq(Readers) /\ readers' \in SUBSET Readers
          /\ readerState' \in [Readers -> ReaderStates]
      BY <1>5, <2>2, ConsumeOnHoldType DEF SourceStaticSetReady, TypeOK
    <3> QED
      BY <1>5, <2>1, <2>2, <3>1 DEF TypeOK, SourceStaticSetReady, ScheduleClose,
           EndNoCheck, demandVars
  <2>3. CASE ~ok
    BY <1>5, <2>1, <2>3 DEF TypeOK, SourceStaticSetReady, EndNoCheck,
         demandVars, holdVars
  <2> QED
    BY <2>2, <2>3
<1>6. CASE SourceStaticSetNotReady
  <2>1. /\ available' \in BOOLEAN /\ recorder' \in RecordFormats
        /\ readyCommands' \in 0..MaxReadyCommands
    BY <1>6, StreamType DEF SourceStaticSetNotReady, TypeOK
  <2>2. readers' \in SUBSET Readers /\ readerState' \in [Readers -> ReaderStates]
    BY <1>6, AfterCloseType DEF TypeOK, SourceStaticSetNotReady, CloseReaders
  <2>3. /\ demand' \in {"initial", "waitingReady", "ready", "closing"}
        /\ closeTimer' \in BOOLEAN /\ panicked' \in BOOLEAN
        /\ handler' \in {"none", "stopped", "starting", "ready"}
    BY <1>6 DEF TypeOK, SourceStaticSetNotReady, StaticSourceStop,
         StopCloseTimer
  <2> QED
    BY <1>6, <2>1, <2>2, <2>3 DEF TypeOK, SourceStaticSetNotReady,
         EndWithCheck, holdVars
<1>7. ASSUME NEW r \in Readers, Describe(r) PROVE TypeOK'
  <2>1. pendingRequests' \in Nat
    BY <1>7, ServedWasCounted DEF Describe
  <2>2. /\ demand' \in {"initial", "waitingReady", "ready", "closing"}
        /\ readyTimer' \in BOOLEAN /\ panicked' \in BOOLEAN /\ command' \in BOOLEAN
        /\ handler' \in {"none", "stopped", "starting", "ready"}
    BY <1>7 DEF TypeOK, Describe, StartOnDemand, startVars
  <2>3. readerState' \in [Readers -> ReaderStates]
    BY <1>7 DEF TypeOK, Describe, ReaderStates
  <2> QED
    BY <1>7, <2>1, <2>2, <2>3 DEF TypeOK, Describe, EndWithCheck, streamVars
<1>8. ASSUME NEW r \in Readers, AddReader(r) PROVE TypeOK'
  <2>1. pendingRequests' \in Nat
    BY <1>8, ServedWasCounted DEF AddReader
  <2>2. /\ demand' \in {"initial", "waitingReady", "ready", "closing"}
        /\ readyTimer' \in BOOLEAN /\ closeTimer' \in BOOLEAN
        /\ panicked' \in BOOLEAN /\ command' \in BOOLEAN
        /\ handler' \in {"none", "stopped", "starting", "ready"}
    BY <1>8 DEF TypeOK, AddReader, AddReaderPost, StartOnDemand, startVars,
         demandVars
  <2>3. readerState' \in [Readers -> ReaderStates] /\ readers' \in SUBSET Readers
    BY <1>8 DEF TypeOK, AddReader, AddReaderPost, ReaderStates
  <2>4. readersOnHold' \in Seq(Readers)
    <3>1. readersOnHold \in Seq(Readers)
      BY DEF TypeOK
    <3>2. \/ readersOnHold' = readersOnHold
          \/ readersOnHold' = Append(readersOnHold, r)
      BY <1>8 DEF AddReader
    <3> QED
      BY <3>1, <3>2
  <2> QED
    BY <1>8, <2>1, <2>2, <2>3, <2>4 DEF TypeOK, AddReader, EndWithCheck,
         streamVars
<1>9. ASSUME NEW r \in Readers, RemoveReader(r) PROVE TypeOK'
  <2>1. readerState' \in [Readers -> ReaderStates]
    BY <1>9 DEF TypeOK, RemoveReader, ReaderStates
  <2>2. /\ demand' \in {"initial", "waitingReady", "ready", "closing"}
        /\ closeTimer' \in BOOLEAN /\ readers' \in SUBSET Readers
    BY <1>9 DEF TypeOK, RemoveReader
  <2> QED
    BY <1>9, <2>1, <2>2 DEF TypeOK, RemoveReader, EndNoCheck, streamVars,
         holdVars, startVars
<1>10. ASSUME NEW p \in Publishers, RejectPublisher(p) PROVE TypeOK'
  <2>1. pendingRequests' \in Nat
    BY <1>10, ServedWasCounted DEF RejectPublisher
  <2>2. publisherState' \in [Publishers -> PublisherStates]
    BY <1>10 DEF TypeOK, RejectPublisher, PublisherStates
  <2> QED
    BY <1>10, <2>1, <2>2 DEF TypeOK, RejectPublisher, EndWithCheck, startVars,
         streamVars, holdVars, demandVars
<1>11. ASSUME NEW p \in Publishers, NEW ok \in BOOLEAN, AddPublisher(p, ok)
       PROVE TypeOK'
  <2> DEFINE replaced == {q \in Publishers : q = source}
             dropped  == IF replaced # {} /\ ~conf.alwaysAvailable
                         THEN readers ELSE {}
             kept     == readers \ dropped
  <2>1. pendingRequests' \in Nat
    BY <1>11, ServedWasCounted DEF AddPublisher
  <2>2. /\ available' \in BOOLEAN /\ recorder' \in RecordFormats
        /\ readyCommands' \in 0..MaxReadyCommands
    <3>1. conf.record \in RecordFormats
      BY <1>c DEF TypeOK, Conf
    <3>2. CASE SetAvailable
      BY <3>2, StreamType
    <3>3. CASE ~SetAvailable
      BY <1>11, <3>1, <3>3 DEF AddPublisher, TypeOK, Conf
    <3> QED
      BY <3>2, <3>3
  <2>3. publisherState' \in [Publishers -> PublisherStates]
    BY <1>11 DEF TypeOK, AddPublisher, PublisherStates
  <2>4. CASE ok
    <3>1. ConsumeOnHold(kept, dropped) /\ source' = p /\ feeder' = p
      BY <1>11, <2>4 DEF AddPublisher
    <3>2. /\ describesOnHold' \in SUBSET Readers
          /\ readersOnHold' \in Seq(Readers) /\ readers' \in SUBSET Readers
          /\ readerState' \in [Readers -> ReaderStates]
      <4>1. kept \in SUBSET Readers
        BY DEF TypeOK
      <4> QED
        BY <3>1, <4>1, ConsumeOnHoldType
    <3>3. /\ demand' \in {"initial", "waitingReady", "ready", "closing"}
          /\ readyTimer' \in BOOLEAN /\ closeTimer' \in BOOLEAN
      BY <1>11, <2>4 DEF TypeOK, AddPublisher, ScheduleClose, demandVars
    <3> QED
      BY <1>11, <2>1, <2>2, <2>3, <3>1, <3>2, <3>3 DEF TypeOK, AddPublisher,
           EndWithCheck, startVars
  <2>5. CASE ~ok
    <3>1. /\ source' = NoOne
          /\ feeder' = IF conf.alwaysAvailable THEN "offline" ELSE NoOne
          /\ readers' = kept /\ readerState' = AfterClose(dropped)
          /\ UNCHANGED <<holdVars, demandVars>>
      BY <1>11, <2>5 DEF AddPublisher
    <3>2. readerState' \in [Readers -> ReaderStates] /\ readers' \in SUBSET Readers
      BY <3>1, AfterCloseType DEF TypeOK
    <3> QED
      BY <1>11, <2>1, <2>2, <2>3, <3>1, <3>2 DEF TypeOK, AddPublisher,
           EndWithCheck, startVars, holdVars, demandVars
  <2> QED
    BY <2>4, <2>5
<1>12. ASSUME NEW p \in Publishers, RemovePublisher(p) PROVE TypeOK'
  <2>1. /\ available' \in BOOLEAN /\ recorder' \in RecordFormats
        /\ readyCommands' \in 0..MaxReadyCommands
    BY <1>12, StreamType DEF TypeOK, RemovePublisher, ExecuteRemovePublisher,
         streamVars
  <2>2. readers' \in SUBSET Readers /\ readerState' \in [Readers -> ReaderStates]
    BY <1>12, AfterCloseType DEF TypeOK, RemovePublisher,
         ExecuteRemovePublisher, CloseReaders
  <2>3. publisherState' \in [Publishers -> PublisherStates]
    BY <1>12 DEF TypeOK, RemovePublisher, PublisherStates
  <2>4. /\ source' \in Publishers \cup {NoOne, "handler", "redirect"}
        /\ feeder' \in Publishers \cup {NoOne, "handler", "offline"}
    BY <1>12 DEF TypeOK, RemovePublisher, ExecuteRemovePublisher, streamVars
  <2> QED
    BY <1>12, <2>1, <2>2, <2>3, <2>4 DEF TypeOK, RemovePublisher, EndWithCheck,
         startVars, holdVars, demandVars
<1>13. ASSUME NEW c \in Confs, ReloadConf(c) PROVE TypeOK'
  <2>1. recorder' \in RecordFormats
    BY <1>13, <1>c DEF TypeOK, ReloadConf, RecorderAfterReload, Conf,
         RecordFormats
  <2> QED
    BY <1>13, <2>1 DEF TypeOK, ReloadConf, EndNoCheck, demandVars, holdVars,
         startVars, clientVars
<1>14. CASE Destroy
  <2>1. /\ available' \in BOOLEAN /\ recorder' \in RecordFormats
        /\ readyCommands' \in 0..MaxReadyCommands
    BY <1>14, StreamType DEF TypeOK, Destroy
  <2>2. readerState' \in [Readers -> ReaderStates]
    BY <1>14, AfterCloseType DEF TypeOK, Destroy, ReaderStates
  <2>3. publisherState' \in [Publishers -> PublisherStates]
    BY <1>14 DEF TypeOK, Destroy, PublisherStates
  <2>4. /\ handler' \in {"none", "stopped", "starting", "ready"}
        /\ panicked' \in BOOLEAN
    BY <1>14 DEF TypeOK, Destroy
  <2>5. readersOnHold' \in Seq(Readers) /\ describesOnHold' = {} /\ readers' = {}
    BY <1>14 DEF Destroy
  <2>6. feeder' = NoOne /\ ~command' /\ ~readyTimer' /\ ~closeTimer'
        /\ command' \in BOOLEAN /\ readyTimer' \in BOOLEAN
        /\ closeTimer' \in BOOLEAN /\ phase' = "destroyed"
        /\ UNCHANGED <<conf, ctx, pendingRequests, source, demand>>
    BY <1>14 DEF Destroy
  <2> QED
    BY <2>1, <2>2, <2>3, <2>4, <2>5, <2>6 DEF TypeOK
<1>15. CASE AnswerCloseIfIdle \/ DecideCloseIfIdle \/ AbandonCloseIfIdle \/ Terminate
  BY <1>15 DEF TypeOK, AnswerCloseIfIdle, DecideCloseIfIdle,
     AbandonCloseIfIdle, Terminate, streamVars, demandVars, holdVars,
     startVars, clientVars
<1>16. ASSUME NEW r \in Readers,
              ReaderGetsPath(r) \/ ReaderLeaves(r) \/ ReaderCallCancelled(r)
       PROVE TypeOK'
  BY <1>16 DEF TypeOK, ReaderGetsPath, ReaderLeaves, ReaderCallCancelled,
       OnlyReader, streamVars, demandVars, holdVars, startVars, ReaderStates
<1>17. ASSUME NEW p \in Publishers,
              \/ PublisherGetsPath(p) \/ PublisherLeaves(p)
              \/ PublisherCallCancelled(p)
       PROVE TypeOK'
  BY <1>17 DEF TypeOK, PublisherGetsPath, PublisherLeaves,
       PublisherCallCancelled, OnlyPublisher, streamVars, demandVars, holdVars,
       startVars, PublisherStates
<1>18. CASE UNCHANGED vars
  BY <1>18 DEF TypeOK, vars, streamVars, demandVars, holdVars, startVars,
       clientVars
<1> QED
  BY <1>1, <1>2, <1>3, <1>4, <1>5, <1>6, <1>7, <1>8, <1>9, <1>10, <1>11,
     <1>12, <1>13, <1>14, <1>15, <1>16, <1>17, <1>18
     DEF Next, Timers, ReaderRequest, PublisherRequest, Gone

(* The count changes together with the callers. *)
LEMMA CountKept ==
  ASSUME PendingInv, pendingRequests' = pendingRequests,
         ReaderCallers' \subseteq ReaderCallers,
         PublisherCallers' \subseteq PublisherCallers
  PROVE  CallersCounted'
BY CallersFinite, FS_Subset, FS_CardinalityType
   DEF PendingInv, TypeOK, CallersCounted

LEMMA CountServed ==
  ASSUME PendingInv, pendingRequests' = pendingRequests - 1, NEW c,
         \/ /\ c \in ReaderCallers
            /\ ReaderCallers' \subseteq ReaderCallers \ {c}
            /\ PublisherCallers' \subseteq PublisherCallers
         \/ /\ c \in PublisherCallers
            /\ PublisherCallers' \subseteq PublisherCallers \ {c}
            /\ ReaderCallers' \subseteq ReaderCallers
  PROVE  CallersCounted'
<1>1. CASE c \in ReaderCallers /\ ReaderCallers' \subseteq ReaderCallers \ {c}
           /\ PublisherCallers' \subseteq PublisherCallers
  <2>1. /\ IsFiniteSet(ReaderCallers \ {c})
        /\ Cardinality(ReaderCallers \ {c}) = Cardinality(ReaderCallers) - 1
    BY <1>1, CallersFinite, FS_RemoveElement
  <2>2. /\ Cardinality(ReaderCallers') <= Cardinality(ReaderCallers) - 1
        /\ Cardinality(ReaderCallers') \in Nat
    BY <1>1, <2>1, FS_Subset, FS_CardinalityType
  <2>3. /\ Cardinality(PublisherCallers') <= Cardinality(PublisherCallers)
        /\ Cardinality(PublisherCallers') \in Nat
    BY <1>1, CallersFinite, FS_Subset, FS_CardinalityType
  <2> QED
    BY <2>2, <2>3, CallersFinite DEF PendingInv, TypeOK, CallersCounted
<1>2. CASE c \in PublisherCallers
           /\ PublisherCallers' \subseteq PublisherCallers \ {c}
           /\ ReaderCallers' \subseteq ReaderCallers
  <2>1. /\ IsFiniteSet(PublisherCallers \ {c})
        /\ Cardinality(PublisherCallers \ {c}) = Cardinality(PublisherCallers) - 1
    BY <1>2, CallersFinite, FS_RemoveElement
  <2>2. /\ Cardinality(PublisherCallers') <= Cardinality(PublisherCallers) - 1
        /\ Cardinality(PublisherCallers') \in Nat
    BY <1>2, <2>1, FS_Subset, FS_CardinalityType
  <2>3. /\ Cardinality(ReaderCallers') <= Cardinality(ReaderCallers)
        /\ Cardinality(ReaderCallers') \in Nat
    BY <1>2, CallersFinite, FS_Subset, FS_CardinalityType
  <2> QED
    BY <2>2, <2>3, CallersFinite DEF PendingInv, TypeOK, CallersCounted
<1> QED
  BY <1>1, <1>2

LEMMA CountArrived ==
  ASSUME PendingInv, pendingRequests' = pendingRequests + 1, NEW c,
         \/ /\ ReaderCallers' \subseteq ReaderCallers \cup {c}
            /\ PublisherCallers' \subseteq PublisherCallers
         \/ /\ PublisherCallers' \subseteq PublisherCallers \cup {c}
            /\ ReaderCallers' \subseteq ReaderCallers
  PROVE  CallersCounted'
<1>1. ASSUME NEW S, IsFiniteSet(S), NEW T, T \subseteq S \cup {c}
      PROVE  Cardinality(T) <= Cardinality(S) + 1 /\ Cardinality(T) \in Nat
             /\ Cardinality(S) \in Nat
  <2>1. /\ IsFiniteSet(S \cup {c})
        /\ Cardinality(S \cup {c}) \in {Cardinality(S), Cardinality(S) + 1}
    BY <1>1, FS_AddElement
  <2>2. IsFiniteSet(T) /\ Cardinality(T) <= Cardinality(S \cup {c})
    BY <1>1, <2>1, FS_Subset
  <2>3. Cardinality(S) \in Nat /\ Cardinality(T) \in Nat
    BY <1>1, <2>2, FS_CardinalityType
  <2> QED
    BY <2>1, <2>2, <2>3
<1>2. ASSUME NEW S, IsFiniteSet(S), NEW T, T \subseteq S
      PROVE  Cardinality(T) <= Cardinality(S) /\ Cardinality(T) \in Nat
             /\ Cardinality(S) \in Nat
  BY <1>2, FS_Subset, FS_CardinalityType
<1>3. CASE /\ ReaderCallers' \subseteq ReaderCallers \cup {c}
           /\ PublisherCallers' \subseteq PublisherCallers
  <2>1. /\ Cardinality(ReaderCallers') <= Cardinality(ReaderCallers) + 1
        /\ Cardinality(ReaderCallers') \in Nat
    BY <1>1, <1>3, CallersFinite
  <2>2. /\ Cardinality(PublisherCallers') <= Cardinality(PublisherCallers)
        /\ Cardinality(PublisherCallers') \in Nat
    BY <1>2, <1>3, CallersFinite
  <2> QED
    BY <2>1, <2>2, CallersFinite DEF PendingInv, TypeOK, CallersCounted
<1>4. CASE /\ PublisherCallers' \subseteq PublisherCallers \cup {c}
           /\ ReaderCallers' \subseteq ReaderCallers
  <2>1. /\ Cardinality(PublisherCallers') <= Cardinality(PublisherCallers) + 1
        /\ Cardinality(PublisherCallers') \in Nat
    BY <1>1, <1>4, CallersFinite
  <2>2. /\ Cardinality(ReaderCallers') <= Cardinality(ReaderCallers)
        /\ Cardinality(ReaderCallers') \in Nat
    BY <1>2, <1>4, CallersFinite
  <2> QED
    BY <2>1, <2>2, CallersFinite DEF PendingInv, TypeOK, CallersCounted
<1> QED
  BY <1>3, <1>4

(* A handler that serves nobody that was counted makes no new caller. *)
LEMMA NoNewCallers ==
  ASSUME PendingInv
  PROVE  /\ \A S : readerState' = AfterClose(S) => ReaderCallers' \subseteq ReaderCallers
         /\ FailOnHold => ReaderCallers' \subseteq ReaderCallers
         /\ \A base, closed : ConsumeOnHold(base, closed)
              => ReaderCallers' \subseteq ReaderCallers
         /\ UNCHANGED readerState => ReaderCallers' = ReaderCallers
         /\ UNCHANGED publisherState => PublisherCallers' = PublisherCallers
<1>1. ASSUME NEW S, readerState' = AfterClose(S)
      PROVE  ReaderCallers' \subseteq ReaderCallers
  BY <1>1 DEF AfterClose, ReaderCallers
<1>2. ASSUME FailOnHold PROVE ReaderCallers' \subseteq ReaderCallers
  BY <1>2 DEF FailOnHold, ReaderCallers
<1>3. ASSUME NEW base, NEW closed, ConsumeOnHold(base, closed)
      PROVE  ReaderCallers' \subseteq ReaderCallers
  BY <1>3 DEF ConsumeOnHold, AfterClose, ReaderCallers
<1>4. UNCHANGED readerState => ReaderCallers' = ReaderCallers
  BY DEF ReaderCallers
<1>5. UNCHANGED publisherState => PublisherCallers' = PublisherCallers
  BY DEF PublisherCallers
<1> QED
  BY <1>1, <1>2, <1>3, <1>4, <1>5

(* Every step keeps all callers counted. *)
LEMMA CountStep ==
  ASSUME PendingInv, [Next]_vars PROVE CallersCounted'
<1>1. CASE Timers
  <2>1. /\ UNCHANGED <<pendingRequests, publisherState>>
        /\ \/ FailOnHold \/ readerState' = AfterClose(readers)
           \/ UNCHANGED readerState
    BY <1>1 DEF Timers, StaticSourceReadyTimer, StaticSourceCloseTimer,
         PublisherReadyTimer, PublisherCloseTimer, CloseReaders, clientVars
  <2> QED
    BY <2>1, NoNewCallers, CountKept
<1>2. ASSUME NEW ok \in BOOLEAN, SourceStaticSetReady(ok) PROVE CallersCounted'
  <2>1. /\ UNCHANGED <<pendingRequests, publisherState>>
        /\ ConsumeOnHold(readers, {}) \/ UNCHANGED readerState
    BY <1>2 DEF SourceStaticSetReady
  <2> QED
    BY <2>1, NoNewCallers, CountKept
<1>3. CASE SourceStaticSetNotReady
  <2>1. /\ UNCHANGED <<pendingRequests, publisherState>>
        /\ readerState' = AfterClose(readers) \/ UNCHANGED readerState
    BY <1>3 DEF SourceStaticSetNotReady, CloseReaders
  <2> QED
    BY <2>1, NoNewCallers, CountKept
<1>4. ASSUME NEW r \in Readers, Describe(r) \/ AddReader(r)
      PROVE  CallersCounted'
  <2>1. /\ r \in ReaderCallers
        /\ pendingRequests' = pendingRequests - 1
        /\ UNCHANGED publisherState
    BY <1>4 DEF Describe, AddReader, ReaderCallers
  <2>2. \E state \in {"idle", "describeHeld", "addHeld", "reading"} :
          readerState' = [readerState EXCEPT ![r] = state]
    BY <1>4 DEF Describe, AddReader, AddReaderPost
  <2>3. ReaderCallers' \subseteq ReaderCallers \ {r}
    BY <2>2 DEF ReaderCallers, PendingInv, TypeOK
  <2> QED
    BY <2>1, <2>3, NoNewCallers, CountServed
<1>5. ASSUME NEW r \in Readers,
             \/ RemoveReader(r) \/ ReaderLeaves(r) \/ ReaderCallCancelled(r)
      PROVE  CallersCounted'
  <2>1. UNCHANGED <<pendingRequests, publisherState>>
    BY <1>5 DEF RemoveReader, ReaderLeaves, ReaderCallCancelled, OnlyReader
  <2>2. \E state \in {"idle", "leaving"} :
          readerState' = [readerState EXCEPT ![r] = state]
    BY <1>5 DEF RemoveReader, ReaderLeaves, ReaderCallCancelled, OnlyReader
  <2>3. ReaderCallers' \subseteq ReaderCallers
    BY <2>2 DEF ReaderCallers, PendingInv, TypeOK
  <2> QED
    BY <2>1, <2>3, NoNewCallers, CountKept
<1>6. ASSUME NEW p \in Publishers, RejectPublisher(p) PROVE CallersCounted'
  <2>1. /\ p \in PublisherCallers
        /\ pendingRequests' = pendingRequests - 1
        /\ UNCHANGED readerState
    BY <1>6 DEF RejectPublisher, PublisherCallers
  <2>2. PublisherCallers' \subseteq PublisherCallers \ {p}
    BY <1>6 DEF RejectPublisher, PublisherCallers, PendingInv, TypeOK
  <2> QED
    BY <2>1, <2>2, NoNewCallers, CountServed
<1>7. ASSUME NEW p \in Publishers, NEW ok \in BOOLEAN, AddPublisher(p, ok)
      PROVE  CallersCounted'
  <2>1. /\ p \in PublisherCallers
        /\ pendingRequests' = pendingRequests - 1
    BY <1>7 DEF AddPublisher, PublisherCallers
  <2>2. \/ \E base, closed : ConsumeOnHold(base, closed)
        \/ \E S : readerState' = AfterClose(S)
    BY <1>7 DEF AddPublisher
  <2>3. ReaderCallers' \subseteq ReaderCallers
    BY <2>2, NoNewCallers
  <2>4. PublisherCallers' \subseteq PublisherCallers \ {p}
    BY <1>7 DEF AddPublisher, PublisherCallers
  <2> QED
    BY <2>1, <2>3, <2>4, CountServed
<1>8. ASSUME NEW p \in Publishers, RemovePublisher(p) PROVE CallersCounted'
  <2>1. /\ UNCHANGED pendingRequests
        /\ readerState' = AfterClose(readers) \/ UNCHANGED readerState
    BY <1>8 DEF RemovePublisher, ExecuteRemovePublisher, CloseReaders
  <2>2. PublisherCallers' \subseteq PublisherCallers
    BY <1>8 DEF RemovePublisher, PublisherCallers, PendingInv, TypeOK
  <2> QED
    BY <2>1, <2>2, NoNewCallers, CountKept
<1>9. ASSUME NEW p \in Publishers,
             PublisherLeaves(p) \/ PublisherCallCancelled(p)
      PROVE  CallersCounted'
  <2>1. UNCHANGED <<pendingRequests, readerState>>
    BY <1>9 DEF PublisherLeaves, PublisherCallCancelled, OnlyPublisher
  <2>2. PublisherCallers' \subseteq PublisherCallers
    BY <1>9 DEF PublisherLeaves, PublisherCallCancelled, OnlyPublisher,
         PublisherCallers, PendingInv, TypeOK
  <2> QED
    BY <2>1, <2>2, NoNewCallers, CountKept
<1>10. CASE Destroy
  <2>1. UNCHANGED pendingRequests
    BY <1>10 DEF Destroy
  <2>2. ReaderCallers' \subseteq ReaderCallers
    BY <1>10 DEF Destroy, AfterClose, ReaderCallers
  <2>3. PublisherCallers' \subseteq PublisherCallers
    BY <1>10 DEF Destroy, PublisherCallers
  <2> QED
    BY <2>1, <2>2, <2>3, CountKept
<1>11. ASSUME NEW r \in Readers, ReaderGetsPath(r) PROVE CallersCounted'
  <2>1. /\ pendingRequests' = pendingRequests + 1
        /\ UNCHANGED publisherState
    BY <1>11 DEF ReaderGetsPath, OnlyReader
  <2>2. ReaderCallers' \subseteq ReaderCallers \cup {r}
    BY <1>11 DEF ReaderGetsPath, OnlyReader, ReaderCallers, PendingInv, TypeOK
  <2> QED
    BY <2>1, <2>2, NoNewCallers, CountArrived
<1>12. ASSUME NEW p \in Publishers, PublisherGetsPath(p) PROVE CallersCounted'
  <2>1. /\ pendingRequests' = pendingRequests + 1
        /\ UNCHANGED readerState
    BY <1>12 DEF PublisherGetsPath, OnlyPublisher
  <2>2. PublisherCallers' \subseteq PublisherCallers \cup {p}
    BY <1>12 DEF PublisherGetsPath, OnlyPublisher, PublisherCallers,
         PendingInv, TypeOK
  <2> QED
    BY <2>1, <2>2, NoNewCallers, CountArrived
<1>13. ASSUME UNCHANGED <<pendingRequests, clientVars>> PROVE CallersCounted'
  BY <1>13, NoNewCallers, CountKept DEF clientVars
<1>14. ASSUME \/ \E c \in Confs : ReloadConf(c)
              \/ AnswerCloseIfIdle \/ DecideCloseIfIdle
              \/ AbandonCloseIfIdle \/ Terminate
              \/ UNCHANGED vars
       PROVE  CallersCounted'
  BY <1>13, <1>14 DEF ReloadConf, AnswerCloseIfIdle, DecideCloseIfIdle,
     AbandonCloseIfIdle, Terminate, vars
<1> QED
  BY <1>1, <1>2, <1>3, <1>4, <1>5, <1>6, <1>7, <1>8, <1>9, <1>10, <1>11,
     <1>12, <1>14 DEF Next, ReaderRequest, PublisherRequest, Gone

(* At the start the one client that may be on its way is counted. *)
LEMMA CountInit == Init => CallersCounted
<1> SUFFICES ASSUME Init PROVE CallersCounted
  OBVIOUS
<1>1. CASE pendingRequests = 0 /\ AllIdle
  <2>1. ReaderCallers = {} /\ PublisherCallers = {}
    BY <1>1 DEF AllIdle, ReaderCallers, PublisherCallers
  <2> QED
    BY <1>1, <2>1, FS_EmptySet DEF CallersCounted
<1>2. CASE pendingRequests = 1 /\ OneClientOnItsWay
  <2>1. \/ PublisherCallers = {} /\ \E r \in Readers : ReaderCallers = {r}
        \/ ReaderCallers = {} /\ \E p \in Publishers : PublisherCallers = {p}
    BY <1>2 DEF OneClientOnItsWay, ReaderCallers, PublisherCallers
  <2>2. \A c : Cardinality({c}) = 1
    BY FS_Singleton
  <2>3. Cardinality({}) = 0
    BY FS_EmptySet
  <2>4. /\ Cardinality(ReaderCallers) \in {0, 1}
        /\ Cardinality(PublisherCallers) \in {0, 1}
        /\ Cardinality(ReaderCallers) = 0 \/ Cardinality(PublisherCallers) = 0
    BY <2>1, <2>2, <2>3
  <2> QED
    BY <1>2, <2>4 DEF CallersCounted
<1> QED
  BY <1>1, <1>2 DEF Init

(* The two go together in every reachable state. *)
THEOREM PendingCorrect == Spec => []PendingInv
<1>1. Init => PendingInv
  BY TypeInit, CountInit DEF PendingInv
<1>2. PendingInv /\ [Next]_vars => PendingInv'
  BY TypeStep, CountStep DEF PendingInv
<1> QED
  BY <1>1, <1>2, PTL DEF Spec

(* Every variable keeps its type; the count never goes below zero. *)
THEOREM TypeCorrect == Spec => []TypeOK
BY PendingCorrect, PTL DEF PendingInv

(* Whoever was given the path and waits to be served is counted, so the    *)
(* manager never answers closePathIfIdle while a client is on its way.     *)
THEOREM CountCorrect == Spec => []CallersCounted
BY PendingCorrect, PTL DEF PendingInv

-----------------------------------------------------------------------------
(***************************************************************************)
(* A path and its clients agree about who reads, who publishes and who     *)
(* waits, and a path that is closed for being idle is closed under nobody. *)
(***************************************************************************)

(* Readers are attached to a stream, and an always available path has one. *)
ReadersHaveStream ==
  /\ readers # {} => available
  /\ Alive /\ conf.alwaysAvailable => available

ClientsInv ==
  /\ PendingInv
  /\ ReadersHaveStream
  /\ NobodyForgotten
  /\ ReadersAgree
  /\ PublishersAgree

-----------------------------------------------------------------------------
(* What a step does to readers: one of these eight.                        *)

Untouched == UNCHANGED <<readers, readerState, holdVars>>

SomeClosed == \E kept \in SUBSET readers :
  /\ readers' = kept
  /\ readerState' = AfterClose(readers \ kept)
  /\ UNCHANGED holdVars

HeldServed == \E kept \in SUBSET readers : ConsumeOnHold(kept, readers \ kept)

HeldRefused == FailOnHold /\ UNCHANGED readers

PutOnHold(r) ==
  /\ ctx' = ctx /\ UNCHANGED readers
  /\ \/ /\ readerState[r] = "describing"
        /\ describesOnHold' = describesOnHold \cup {r}
        /\ readerState' = [readerState EXCEPT ![r] = "describeHeld"]
        /\ UNCHANGED readersOnHold
     \/ /\ readerState[r] = "adding"
        /\ readersOnHold' = Append(readersOnHold, r)
        /\ readerState' = [readerState EXCEPT ![r] = "addHeld"]
        /\ UNCHANGED describesOnHold

Joins(r) ==
  /\ readerState[r] = "adding"
  /\ readers' = readers \cup {r}
  /\ readerState' = [readerState EXCEPT ![r] = "reading"]
  /\ UNCHANGED <<ctx, holdVars>>

Moves(r) ==
  /\ \/ /\ readerState[r] = "idle" /\ ctx = "open" /\ UNCHANGED readers
        /\ \E state \in {"describing", "adding"} :
             readerState' = [readerState EXCEPT ![r] = state]
     \/ /\ readerState[r] \in {"describing", "adding"} /\ UNCHANGED readers
        /\ readerState' = [readerState EXCEPT ![r] = "idle"]
     \/ /\ readerState[r] \in {"reading", "closed"} /\ UNCHANGED readers
        /\ readerState' = [readerState EXCEPT ![r] = "leaving"]
  /\ UNCHANGED <<ctx, holdVars>>

Parts(r) ==
  /\ readerState[r] = "leaving"
  /\ \/ readers' = readers \ {r}
     \/ ~Open /\ UNCHANGED readers
  /\ readerState' = [readerState EXCEPT ![r] = "idle"]
  /\ UNCHANGED <<ctx, holdVars>>

(* The classification is complete, the teardown of the path apart. *)
LEMMA ReaderEffects ==
  ASSUME TypeOK, [Next]_vars
  PROVE  \/ Untouched \/ SomeClosed \/ HeldServed \/ HeldRefused \/ Destroy
         \/ \E r \in Readers : PutOnHold(r) \/ Joins(r) \/ Moves(r) \/ Parts(r)
<1>r. readers \ readers = {} /\ readers \ {} = readers
      /\ readers \in SUBSET readers /\ {} \in SUBSET readers
  OBVIOUS
<1>1. CASE Timers
  <2>1. CASE StaticSourceReadyTimer \/ PublisherReadyTimer
    BY <2>1 DEF StaticSourceReadyTimer, PublisherReadyTimer, HeldRefused
  <2>2. CASE StaticSourceCloseTimer
    BY <1>r, <2>2 DEF StaticSourceCloseTimer, CloseReaders, SomeClosed
  <2>3. CASE PublisherCloseTimer
    BY <2>3 DEF PublisherCloseTimer, clientVars, Untouched
  <2> QED
    BY <1>1, <2>1, <2>2, <2>3 DEF Timers
<1>2. ASSUME NEW ok \in BOOLEAN, SourceStaticSetReady(ok)
      PROVE  Untouched \/ HeldServed
  BY <1>r, <1>2 DEF SourceStaticSetReady, HeldServed, Untouched
<1>3. CASE SourceStaticSetNotReady
  BY <1>r, <1>3 DEF SourceStaticSetNotReady, CloseReaders, SomeClosed, Untouched
<1>4. ASSUME NEW r \in Readers, Describe(r) PROVE PutOnHold(r) \/ Moves(r)
  BY <1>4 DEF Describe, PutOnHold, Moves, holdVars
<1>5. ASSUME NEW r \in Readers, AddReader(r)
      PROVE  PutOnHold(r) \/ Joins(r) \/ Moves(r)
  BY <1>5 DEF AddReader, AddReaderPost, PutOnHold, Joins, Moves, holdVars
<1>6. ASSUME NEW r \in Readers,
             \/ RemoveReader(r) \/ ReaderGetsPath(r)
             \/ ReaderLeaves(r) \/ ReaderCallCancelled(r)
      PROVE  Moves(r) \/ Parts(r)
  <2>1. CASE RemoveReader(r)
    <3>1. /\ readerState[r] = "leaving"
          /\ readers' = readers \ {r}
          /\ readerState' = [readerState EXCEPT ![r] = "idle"]
          /\ UNCHANGED <<ctx, holdVars>>
      BY <2>1 DEF RemoveReader
    <3> QED
      BY <3>1 DEF Parts
  <2>2. CASE ReaderGetsPath(r)
    BY <2>2 DEF ReaderGetsPath, OnlyReader, Moves
  <2>3. CASE ReaderLeaves(r)
    BY <2>3 DEF ReaderLeaves, OnlyReader, Moves
  <2>4. CASE ReaderCallCancelled(r)
    <3>1. /\ ~Open /\ readerState' = [readerState EXCEPT ![r] = "idle"]
          /\ UNCHANGED <<ctx, readers, holdVars>>
          /\ readerState[r] \in {"describing", "adding", "leaving"}
      BY <2>4 DEF ReaderCallCancelled, OnlyReader
    <3>2. CASE readerState[r] = "leaving"
      BY <3>1, <3>2 DEF Parts
    <3>3. CASE readerState[r] \in {"describing", "adding"}
      BY <3>1, <3>3 DEF Moves
    <3> QED
      BY <3>1, <3>2, <3>3
  <2> QED
    BY <1>6, <2>1, <2>2, <2>3, <2>4
<1>7. ASSUME NEW p \in Publishers, NEW ok \in BOOLEAN, AddPublisher(p, ok)
      PROVE  HeldServed \/ SomeClosed
  <2> DEFINE dropped == IF {q \in Publishers : q = source} # {}
                           /\ ~conf.alwaysAvailable THEN readers ELSE {}
             kept == readers \ dropped
  <2>1. kept \in SUBSET readers /\ readers \ kept = dropped
    OBVIOUS
  <2>2. \/ ConsumeOnHold(kept, dropped)
        \/ /\ readers' = kept /\ readerState' = AfterClose(dropped)
           /\ UNCHANGED holdVars
    BY <1>7 DEF AddPublisher
  <2> QED
    BY <2>1, <2>2 DEF HeldServed, SomeClosed
<1>8. ASSUME NEW p \in Publishers, RemovePublisher(p)
      PROVE  SomeClosed \/ Untouched
  BY <1>r, <1>8 DEF RemovePublisher, ExecuteRemovePublisher, CloseReaders,
       SomeClosed, Untouched
<1>9. ASSUME \/ \E p \in Publishers :
                  \/ RejectPublisher(p) \/ PublisherGetsPath(p)
                  \/ PublisherLeaves(p) \/ PublisherCallCancelled(p)
             \/ \E c \in Confs : ReloadConf(c)
             \/ AnswerCloseIfIdle \/ DecideCloseIfIdle
             \/ AbandonCloseIfIdle \/ Terminate
             \/ UNCHANGED vars
      PROVE  Untouched
  BY <1>9 DEF RejectPublisher, PublisherGetsPath, PublisherLeaves,
     PublisherCallCancelled, OnlyPublisher, ReloadConf, AnswerCloseIfIdle,
     DecideCloseIfIdle, AbandonCloseIfIdle, Terminate, Untouched, clientVars,
     vars
<1> QED
  BY <1>1, <1>2, <1>3, <1>4, <1>5, <1>6, <1>7, <1>8, <1>9
     DEF Next, ReaderRequest, PublisherRequest, Gone

-----------------------------------------------------------------------------
(* Holding: the lists hold exactly the clients that wait, each once.       *)
LEMMA HoldStep ==
  ASSUME ClientsInv, [Next]_vars PROVE NobodyForgotten'
<1> USE DEF ClientsInv, PendingInv
<1>t. TypeOK
  OBVIOUS
<1>1. CASE Untouched
  BY <1>1 DEF Untouched, NobodyForgotten, HoldSet, holdVars
<1>2. CASE SomeClosed
  <2>1. \A r \in Readers : readerState[r] \in {"addHeld", "describeHeld"}
                            \/ readerState'[r] \in {"addHeld", "describeHeld"}
          => readerState'[r] = readerState[r]
    BY <1>2 DEF SomeClosed, AfterClose
  <2>2. UNCHANGED holdVars
    BY <1>2 DEF SomeClosed
  <2> QED
    BY <2>1, <2>2 DEF NobodyForgotten, HoldSet, holdVars
<1>3. CASE HeldServed
  <2>1. describesOnHold' = {} /\ readersOnHold' = <<>>
    BY <1>3 DEF HeldServed, ConsumeOnHold
  <2>2. \A r \in Readers : readerState'[r] \notin {"addHeld", "describeHeld"}
    BY <1>3 DEF HeldServed, ConsumeOnHold, NobodyForgotten, AfterClose
  <2> QED
    BY <2>1, <2>2 DEF NobodyForgotten, HoldSet
<1>4. CASE HeldRefused \/ Destroy
  <2>1. describesOnHold' = {} /\ readersOnHold' = <<>>
    BY <1>4 DEF HeldRefused, FailOnHold, Destroy
  <2>2. \A r \in Readers : readerState'[r] \notin {"addHeld", "describeHeld"}
    BY <1>4 DEF HeldRefused, FailOnHold, Destroy, NobodyForgotten, AfterClose
  <2> QED
    BY <2>1, <2>2 DEF NobodyForgotten, HoldSet
<1>5. ASSUME NEW r \in Readers, PutOnHold(r) PROVE NobodyForgotten'
  <2>1. CASE readerState[r] = "describing"
    <3>1. /\ describesOnHold' = describesOnHold \cup {r}
          /\ readerState' = [readerState EXCEPT ![r] = "describeHeld"]
          /\ UNCHANGED readersOnHold
      BY <1>5, <2>1 DEF PutOnHold
    <3> QED
      BY <1>t, <2>1, <3>1 DEF NobodyForgotten, HoldSet, TypeOK
  <2>2. CASE readerState[r] = "adding"
    <3>1. /\ readersOnHold' = Append(readersOnHold, r)
          /\ readerState' = [readerState EXCEPT ![r] = "addHeld"]
          /\ UNCHANGED describesOnHold
      BY <1>5, <2>2 DEF PutOnHold
    <3>2. r \notin HoldSet
      BY <2>2 DEF NobodyForgotten
    <3>3. /\ Len(readersOnHold) \in Nat
          /\ Len(readersOnHold') = Len(readersOnHold) + 1
          /\ readersOnHold'[Len(readersOnHold) + 1] = r
          /\ \A i \in 1..Len(readersOnHold) :
               readersOnHold'[i] = readersOnHold[i] /\ readersOnHold[i] # r
      BY <1>t, <3>1, <3>2 DEF TypeOK, HoldSet
    <3>4. 1..Len(readersOnHold') = 1..Len(readersOnHold) \cup {Len(readersOnHold) + 1}
      BY <3>3
    <3>5. HoldSet' = HoldSet \cup {r}
      BY <3>3, <3>4 DEF HoldSet
    <3>6. \A i, j \in 1..Len(readersOnHold') :
            readersOnHold'[i] = readersOnHold'[j] => i = j
      BY <3>3, <3>4 DEF NobodyForgotten
    <3> QED
      BY <1>t, <2>2, <3>1, <3>5, <3>6 DEF NobodyForgotten, TypeOK
  <2> QED
    BY <1>5, <2>1, <2>2 DEF PutOnHold
<1>6. ASSUME NEW r \in Readers, Joins(r) \/ Moves(r) \/ Parts(r)
      PROVE  NobodyForgotten'
  <2>1. \E state : /\ readerState' = [readerState EXCEPT ![r] = state]
                   /\ state \notin {"addHeld", "describeHeld"}
                   /\ readerState[r] \notin {"addHeld", "describeHeld"}
    BY <1>6 DEF Joins, Moves, Parts
  <2>2. UNCHANGED holdVars
    BY <1>6 DEF Joins, Moves, Parts
  <2> QED
    BY <1>t, <2>1, <2>2 DEF NobodyForgotten, HoldSet, TypeOK, holdVars
<1> QED
  BY <1>t, <1>1, <1>2, <1>3, <1>4, <1>5, <1>6, ReaderEffects

-----------------------------------------------------------------------------
(* Reading: the path and the sessions agree. *)
LEMMA ReadStep ==
  ASSUME ClientsInv, [Next]_vars PROVE ReadersAgree'
<1> USE DEF ClientsInv, PendingInv
<1>t. TypeOK
  OBVIOUS
<1>o. Open' => Open
  BY DEF Next, Open, vars, Timers, StaticSourceReadyTimer,
     StaticSourceCloseTimer, PublisherReadyTimer, PublisherCloseTimer,
     SourceStaticSetReady, SourceStaticSetNotReady, ReaderRequest, Describe,
     AddReader, RemoveReader, ReaderGetsPath, ReaderLeaves,
     ReaderCallCancelled, OnlyReader, PublisherRequest, RejectPublisher,
     AddPublisher, RemovePublisher, PublisherGetsPath, PublisherLeaves,
     PublisherCallCancelled, OnlyPublisher, ReloadConf, AnswerCloseIfIdle,
     DecideCloseIfIdle, AbandonCloseIfIdle, Terminate, Destroy, Gone
<1>1. CASE Untouched
  BY <1>o, <1>1 DEF Untouched, ReadersAgree
<1>2. CASE SomeClosed
  BY <1>t, <1>o, <1>2 DEF SomeClosed, AfterClose, ReadersAgree, TypeOK
<1>3. CASE HeldServed
  <2>1. PICK kept \in SUBSET readers : ConsumeOnHold(kept, readers \ kept)
    BY <1>3 DEF HeldServed
  <2>2. Admitted(kept) \subseteq HoldSet
    BY AdmittedFromHold
  <2>3. \A r \in Readers : readerState'[r] = "reading" => r \in readers'
    BY <2>1 DEF ConsumeOnHold, AfterClose, ReadersAgree
  <2>4. ASSUME Open, NEW r \in readers'
        PROVE  readerState'[r] \in {"reading", "leaving"}
    <3>1. CASE r \in Admitted(kept)
      BY <1>t, <2>1, <2>2, <3>1, HoldSetType DEF ConsumeOnHold, TypeOK
    <3>2. CASE r \notin Admitted(kept)
      <4>1. r \in kept /\ readerState[r] \in {"reading", "leaving"}
            /\ r \in Readers
        BY <1>t, <2>1, <2>4, <3>2 DEF ConsumeOnHold, ReadersAgree, TypeOK
      <4>2. r \notin HoldSet \cup describesOnHold
        BY <4>1 DEF NobodyForgotten
      <4> QED
        BY <2>1, <3>2, <4>1, <4>2 DEF ConsumeOnHold, AfterClose
    <3> QED
      BY <3>1, <3>2
  <2> QED
    BY <1>o, <2>3, <2>4 DEF ReadersAgree
<1>4. CASE HeldRefused
  <2>1. \A r \in Readers : readerState[r] \in {"reading", "leaving"}
                          \/ readerState'[r] = "reading"
          => readerState'[r] = readerState[r]
    BY <1>4 DEF HeldRefused, FailOnHold, NobodyForgotten
  <2> QED
    BY <1>t, <1>o, <1>4, <2>1 DEF HeldRefused, ReadersAgree, TypeOK
<1>5. CASE Destroy
  <2>1. ~Open' /\ readers' = {}
    BY <1>5 DEF Destroy, Open
  <2>2. \A r \in Readers : readerState'[r] # "reading"
    BY <1>5 DEF Destroy, AfterClose, ReadersAgree, ReadersHaveStream
  <2> QED
    BY <2>1, <2>2 DEF ReadersAgree
<1>6. ASSUME NEW r \in Readers, PutOnHold(r) PROVE ReadersAgree'
  BY <1>t, <1>o, <1>6 DEF PutOnHold, ReadersAgree, TypeOK
<1>7. ASSUME NEW r \in Readers, Joins(r) PROVE ReadersAgree'
  BY <1>t, <1>o, <1>7 DEF Joins, ReadersAgree, TypeOK
<1>8. ASSUME NEW r \in Readers, Moves(r) PROVE ReadersAgree'
  BY <1>t, <1>o, <1>8 DEF Moves, ReadersAgree, TypeOK
<1>9. ASSUME NEW r \in Readers, Parts(r) PROVE ReadersAgree'
  BY <1>t, <1>o, <1>9 DEF Parts, ReadersAgree, TypeOK
<1> QED
  BY <1>t, <1>1, <1>2, <1>3, <1>4, <1>5, <1>6, <1>7, <1>8, <1>9, ReaderEffects

-----------------------------------------------------------------------------
(* Streams: nobody is attached to a stream that is not there. *)
LEMMA StreamStep ==
  ASSUME ClientsInv, [Next]_vars PROVE ReadersHaveStream'
<1> USE DEF ClientsInv, PendingInv
<1>1. CASE StaticSourceReadyTimer \/ PublisherReadyTimer \/ PublisherCloseTimer
  BY <1>1 DEF StaticSourceReadyTimer, PublisherReadyTimer, PublisherCloseTimer,
       EndWithCheck, EndNoCheck, streamVars, ReadersHaveStream, Alive
<1>2. CASE StaticSourceCloseTimer
  <2>1. ~conf.alwaysAvailable
    BY <1>2, ConfsAssumption DEF StaticSourceCloseTimer,
       HasOnDemandStaticSource, TypeOK, ValidConf
  <2> QED
    BY <1>2, <2>1 DEF StaticSourceCloseTimer, CloseReaders, ReadersHaveStream
<1>3. ASSUME NEW ok \in BOOLEAN, SourceStaticSetReady(ok)
      PROVE  ReadersHaveStream'
  <2>1. available'
    BY <1>3 DEF SourceStaticSetReady, SetAvailable, ReadersHaveStream, Alive
  <2> QED
    BY <2>1 DEF ReadersHaveStream
<1>4. CASE SourceStaticSetNotReady
  BY <1>4 DEF SourceStaticSetNotReady, CloseReaders, ReadersHaveStream, Alive
<1>5. ASSUME NEW r \in Readers, ReaderRequest(r) PROVE ReadersHaveStream'
  <2>1. UNCHANGED <<conf, available>> /\ phase = "running"
    BY <1>5 DEF ReaderRequest, Describe, AddReader, RemoveReader, streamVars
  <2>2. readers' # {} => readers # {} \/ available
    BY <1>5 DEF ReaderRequest, Describe, AddReader, AddReaderPost, RemoveReader
  <2> QED
    BY <2>1, <2>2 DEF ReadersHaveStream, Alive
<1>6. ASSUME NEW p \in Publishers, NEW ok \in BOOLEAN, AddPublisher(p, ok)
      PROVE  ReadersHaveStream'
  <2>1. available'
    BY <1>6 DEF AddPublisher, SetAvailable, ReadersHaveStream, Alive
  <2> QED
    BY <2>1 DEF ReadersHaveStream
<1>7. ASSUME NEW p \in Publishers, RemovePublisher(p) PROVE ReadersHaveStream'
  BY <1>7 DEF RemovePublisher, ExecuteRemovePublisher, CloseReaders, streamVars,
       ReadersHaveStream, Alive
<1>8. ASSUME NEW c \in Confs, ReloadConf(c) PROVE ReadersHaveStream'
  <2>1. conf'.alwaysAvailable = conf.alwaysAvailable
    BY <1>8, ConfsAssumption DEF ReloadConf, HotReload, TypeOK, Conf
  <2> QED
    BY <1>8, <2>1 DEF ReloadConf, ReadersHaveStream, Alive
<1>9. CASE Destroy
  BY <1>9 DEF Destroy, ReadersHaveStream, Alive
<1>10. ASSUME UNCHANGED <<conf, readers, available>>,
              Alive' => Alive
       PROVE  ReadersHaveStream'
  BY <1>10 DEF ReadersHaveStream
<1>11. ASSUME \/ \E r \in Readers : \/ ReaderGetsPath(r) \/ ReaderLeaves(r)
                                   \/ ReaderCallCancelled(r)
              \/ \E p \in Publishers :
                   \/ RejectPublisher(p) \/ PublisherGetsPath(p)
                   \/ PublisherLeaves(p) \/ PublisherCallCancelled(p)
              \/ AnswerCloseIfIdle \/ DecideCloseIfIdle
              \/ AbandonCloseIfIdle \/ Terminate
              \/ UNCHANGED vars
       PROVE  UNCHANGED <<conf, readers, available>> /\ (Alive' => Alive)
  BY <1>11 DEF ReaderGetsPath, ReaderLeaves, ReaderCallCancelled, OnlyReader,
     RejectPublisher, PublisherGetsPath, PublisherLeaves,
     PublisherCallCancelled, OnlyPublisher, AnswerCloseIfIdle,
     DecideCloseIfIdle, AbandonCloseIfIdle, Terminate, EndWithCheck, Alive,
     streamVars, vars
<1> QED
  BY <1>1, <1>2, <1>3, <1>4, <1>5, <1>6, <1>7, <1>8, <1>9, <1>10, <1>11
     DEF Next, Timers, PublisherRequest, Gone

-----------------------------------------------------------------------------
(* Publishing: whoever believes it publishes is the source. *)
LEMMA PublishStep ==
  ASSUME ClientsInv, [Next]_vars PROVE PublishersAgree'
<1> USE DEF ClientsInv, PendingInv
<1>1. ASSUME NEW p \in Publishers, RejectPublisher(p) PROVE PublishersAgree'
  BY <1>1 DEF RejectPublisher, PublishersAgree, TypeOK
<1>2. ASSUME NEW p \in Publishers, NEW ok \in BOOLEAN, AddPublisher(p, ok)
      PROVE  PublishersAgree'
  BY <1>2 DEF AddPublisher, PublishersAgree
<1>3. ASSUME NEW p \in Publishers, RemovePublisher(p) PROVE PublishersAgree'
  BY <1>3 DEF RemovePublisher, ExecuteRemovePublisher, PublishersAgree, TypeOK
<1>4. ASSUME NEW p \in Publishers,
             \/ PublisherGetsPath(p) \/ PublisherLeaves(p)
             \/ PublisherCallCancelled(p)
      PROVE  PublishersAgree'
  BY <1>4 DEF PublisherGetsPath, PublisherLeaves, PublisherCallCancelled,
       OnlyPublisher, PublishersAgree, TypeOK
<1>5. CASE Destroy
  BY <1>5 DEF Destroy, PublishersAgree
<1>6. ASSUME \/ Timers \/ \E ok \in BOOLEAN : SourceStaticSetReady(ok)
             \/ SourceStaticSetNotReady \/ \E c \in Confs : ReloadConf(c)
             \/ \E r \in Readers :
                  \/ ReaderRequest(r) \/ ReaderGetsPath(r) \/ ReaderLeaves(r)
                  \/ ReaderCallCancelled(r)
             \/ AnswerCloseIfIdle \/ DecideCloseIfIdle
             \/ AbandonCloseIfIdle \/ Terminate
             \/ UNCHANGED vars
      PROVE  UNCHANGED <<source, publisherState>>
  BY <1>6 DEF Timers, StaticSourceReadyTimer, StaticSourceCloseTimer,
     PublisherReadyTimer, PublisherCloseTimer, SourceStaticSetReady,
     SourceStaticSetNotReady, ReaderRequest, Describe, AddReader,
     RemoveReader, ReaderGetsPath, ReaderLeaves, ReaderCallCancelled,
     OnlyReader, ReloadConf, AnswerCloseIfIdle, DecideCloseIfIdle,
     AbandonCloseIfIdle, Terminate, clientVars, vars
<1>7. UNCHANGED <<source, publisherState>> => PublishersAgree'
  BY DEF PublishersAgree
<1> QED
  BY <1>1, <1>2, <1>3, <1>4, <1>5, <1>6, <1>7 DEF Next, PublisherRequest, Gone

-----------------------------------------------------------------------------
LEMMA ClientsInit == Init => ClientsInv
<1> SUFFICES ASSUME Init PROVE ClientsInv
  OBVIOUS
<1>1. PendingInv
  BY TypeInit, CountInit DEF PendingInv
<1>2. ReadersHaveStream
  BY DEF Init, ReadersHaveStream
<1>3. \A r \in Readers : readerState[r] \in {"idle", "describing", "adding"}
  BY DEF Init, AllIdle, OneClientOnItsWay
<1>4. \A p \in Publishers : publisherState[p] \in {"idle", "adding"}
  BY DEF Init, AllIdle, OneClientOnItsWay
<1>5. HoldSet = {} /\ describesOnHold = {} /\ readers = {} /\ Len(readersOnHold) = 0
  BY DEF Init, HoldSet
<1>6. NobodyForgotten /\ ReadersAgree
  BY <1>3, <1>5 DEF NobodyForgotten, ReadersAgree
<1>7. PublishersAgree
  BY <1>4 DEF PublishersAgree
<1> QED
  BY <1>1, <1>2, <1>6, <1>7 DEF ClientsInv

(* The inductive invariant of the clients, and with it what it consists of: *)
(* the path never loses, doubles or makes up a client.                      *)
THEOREM ClientsCorrect == Spec => []ClientsInv
<1>1. Init => ClientsInv
  BY ClientsInit
<1>2. ClientsInv /\ [Next]_vars => ClientsInv'
  <2> SUFFICES ASSUME ClientsInv, [Next]_vars PROVE ClientsInv'
    OBVIOUS
  <2>1. PendingInv'
    BY TypeStep, CountStep DEF ClientsInv, PendingInv
  <2> QED
    BY <2>1, HoldStep, ReadStep, StreamStep, PublishStep
       DEF ClientsInv
<1> QED
  BY <1>1, <1>2, PTL DEF Spec

(* path.go, the hold lists: a client that waits for an answer is on exactly *)
(* one list, once, and only those clients are.                              *)
THEOREM HoldCorrect == Spec => []NobodyForgotten
BY ClientsCorrect, PTL DEF ClientsInv

(* path.go, pa.readers: the path and the sessions agree on who reads.       *)
THEOREM ReadCorrect == Spec => []ReadersAgree
BY ClientsCorrect, PTL DEF ClientsInv

(* path.go, doAddPublisher and doRemovePublisher: at most one client holds  *)
(* itself for the publisher, and the path holds it for its source, even     *)
(* when it took over from another one whose removal arrives late.           *)
THEOREM PublishCorrect == Spec => []PublishersAgree
BY ClientsCorrect, PTL DEF ClientsInv

-----------------------------------------------------------------------------
(* Closing idle paths.  While the path waits for the manager nothing that  *)
(* shouldClose looks at changes.                                           *)
AskingIsIdle == phase = "asking" => ShouldClose

(* From then on, and once it is closed, it has neither source nor readers: *)
(* a stream cannot begin without the manager.                              *)
StaysUnused ==
  ctx \in {"deciding", "idle"} =>
    source = NoOne /\ readers = {} /\ ~conf.alwaysAvailable

(* An ordinary path has a stream only while it has a source. *)
StreamHasSource == available /\ ~conf.alwaysAvailable => source # NoOne

SourceIsStatic ==
  /\ conf.source = "static" => source = "handler"
  /\ handler # "none" => conf.source = "static"

IdleInv ==
  /\ ClientsInv
  /\ AskingIsIdle /\ StaysUnused /\ StreamHasSource /\ SourceIsStatic
  /\ IdleCloseHarmsNobody

LEMMA AskingStep ==
  ASSUME IdleInv, [Next]_vars PROVE AskingIsIdle'
<1> SUFFICES ASSUME phase' = "asking" PROVE ShouldClose'
  BY DEF AskingIsIdle
<1>1. ASSUME phase = "asking",
             UNCHANGED <<conf, source, readers, holdVars>>
      PROVE  ShouldClose'
  BY <1>1 DEF IdleInv, AskingIsIdle, ShouldClose, holdVars
<1>2. ASSUME \/ \E r \in Readers : \/ ReaderGetsPath(r) \/ ReaderLeaves(r)
                                  \/ ReaderCallCancelled(r)
             \/ \E p \in Publishers :
                  \/ PublisherGetsPath(p) \/ PublisherLeaves(p)
                  \/ PublisherCallCancelled(p)
             \/ DecideCloseIfIdle \/ Terminate \/ UNCHANGED vars
      PROVE  phase = "asking" /\ UNCHANGED <<conf, source, readers, holdVars>>
  BY <1>2 DEF ReaderGetsPath, ReaderLeaves, ReaderCallCancelled, OnlyReader,
       PublisherGetsPath, PublisherLeaves, PublisherCallCancelled,
       OnlyPublisher, DecideCloseIfIdle, Terminate, vars
<1>3. ASSUME EndWithCheck PROVE ShouldClose'
  BY <1>3 DEF EndWithCheck
<1>4. ASSUME \/ Timers \/ \E ok \in BOOLEAN : SourceStaticSetReady(ok)
             \/ SourceStaticSetNotReady \/ \E c \in Confs : ReloadConf(c)
             \/ \E r \in Readers : ReaderRequest(r)
             \/ \E p \in Publishers : PublisherRequest(p)
             \/ AnswerCloseIfIdle \/ AbandonCloseIfIdle \/ Destroy
      PROVE  EndWithCheck
  BY <1>4 DEF Timers, StaticSourceReadyTimer, StaticSourceCloseTimer,
       PublisherReadyTimer, PublisherCloseTimer, SourceStaticSetReady,
       SourceStaticSetNotReady, ReaderRequest, Describe, AddReader,
       RemoveReader, PublisherRequest, RejectPublisher, AddPublisher,
       RemovePublisher, ReloadConf, EndNoCheck, AnswerCloseIfIdle,
       AbandonCloseIfIdle, Destroy
<1> QED
  BY <1>1, <1>2, <1>3, <1>4 DEF Next, Gone

(* Where a stream begins, there is a source. *)
LEMMA SourceStep ==
  ASSUME IdleInv, DecoderErrors = FALSE, [Next]_vars
  PROVE  StreamHasSource' /\ SourceIsStatic'
<1> USE DEF IdleInv
<1>t. TypeOK
  BY DEF ClientsInv, PendingInv
<1>1. CASE Timers
  <2>1. CASE StaticSourceReadyTimer
    BY <2>1 DEF StaticSourceReadyTimer, StaticSourceStop, streamVars,
         StreamHasSource, SourceIsStatic, HasOnDemandStaticSource,
         HasStaticSource
  <2>2. CASE StaticSourceCloseTimer
    BY <2>2 DEF StaticSourceCloseTimer, SetNotAvailable, StaticSourceStop,
         StreamHasSource, SourceIsStatic, HasOnDemandStaticSource,
         HasStaticSource
  <2>3. CASE PublisherReadyTimer \/ PublisherCloseTimer
    BY <2>3 DEF PublisherReadyTimer, PublisherCloseTimer, streamVars,
         StreamHasSource, SourceIsStatic
  <2> QED
    BY <1>1, <2>1, <2>2, <2>3 DEF Timers
<1>2. ASSUME NEW ok \in BOOLEAN, SourceStaticSetReady(ok)
      PROVE  StreamHasSource' /\ SourceIsStatic'
  <2>1. conf.source = "static" /\ source = "handler" /\ UNCHANGED <<conf, source>>
    BY <1>2 DEF SourceStaticSetReady, SourceIsStatic
  <2> QED
    BY <2>1 DEF StreamHasSource, SourceIsStatic, NoOne
<1>3. CASE SourceStaticSetNotReady
  <2>1. conf.source = "static" /\ source = "handler" /\ UNCHANGED <<conf, source>>
    BY <1>3 DEF SourceStaticSetNotReady, SourceIsStatic
  <2> QED
    BY <2>1 DEF StreamHasSource, SourceIsStatic, NoOne
<1>4. ASSUME NEW r \in Readers, ReaderRequest(r)
      PROVE  StreamHasSource' /\ SourceIsStatic'
  <2>1. UNCHANGED <<conf, source, available>>
    BY <1>4 DEF ReaderRequest, Describe, AddReader, RemoveReader, streamVars
  <2>2. handler' = handler \/ HasOnDemandStaticSource
    BY <1>4 DEF ReaderRequest, Describe, AddReader, RemoveReader,
         StartOnDemand, startVars
  <2> QED
    BY <2>1, <2>2 DEF StreamHasSource, SourceIsStatic, HasOnDemandStaticSource,
         HasStaticSource
<1>5. ASSUME NEW p \in Publishers, NEW ok \in BOOLEAN, AddPublisher(p, ok)
      PROVE  StreamHasSource' /\ SourceIsStatic'
  <2>1. /\ conf.source = "publisher" /\ UNCHANGED <<conf, handler>>
        /\ IF ok THEN source' = p ELSE conf.alwaysAvailable
    BY <1>5 DEF AddPublisher, SubStreamMayFail, startVars
  <2>2. p # NoOne
    BY ClientsAssumption DEF NoOne
  <2> QED
    BY <2>1, <2>2 DEF StreamHasSource, SourceIsStatic
<1>6. ASSUME NEW p \in Publishers, RemovePublisher(p)
      PROVE  StreamHasSource' /\ SourceIsStatic'
  <2>1. p # "handler"
    BY ClientsAssumption
  <2>2. CASE source = p
    BY <1>6, <2>1, <2>2 DEF RemovePublisher, ExecuteRemovePublisher,
         SetNotAvailable, startVars, StreamHasSource, SourceIsStatic
  <2>3. CASE source # p
    BY <1>6, <2>3 DEF RemovePublisher, startVars, streamVars,
         StreamHasSource, SourceIsStatic
  <2> QED
    BY <2>2, <2>3
<1>7. ASSUME NEW c \in Confs, ReloadConf(c)
      PROVE  StreamHasSource' /\ SourceIsStatic'
  <2>1. /\ conf'.source = conf.source
        /\ conf'.alwaysAvailable = conf.alwaysAvailable
    BY <1>t, <1>7, ConfsAssumption DEF ReloadConf, HotReload, TypeOK, Conf
  <2> QED
    BY <1>7, <2>1 DEF ReloadConf, startVars, StreamHasSource, SourceIsStatic
<1>8. CASE Destroy
  BY <1>8 DEF Destroy, SetNotAvailable, HandlerToStop, HasStaticSource,
       StreamHasSource, SourceIsStatic
<1>9. ASSUME \/ \E r \in Readers : \/ ReaderGetsPath(r) \/ ReaderLeaves(r)
                                  \/ ReaderCallCancelled(r)
             \/ \E p \in Publishers :
                  \/ RejectPublisher(p) \/ PublisherGetsPath(p)
                  \/ PublisherLeaves(p) \/ PublisherCallCancelled(p)
             \/ AnswerCloseIfIdle \/ DecideCloseIfIdle \/ AbandonCloseIfIdle
             \/ Terminate \/ UNCHANGED vars
      PROVE  UNCHANGED <<conf, source, available, handler>>
  BY <1>9 DEF ReaderGetsPath, ReaderLeaves, ReaderCallCancelled, OnlyReader,
       RejectPublisher, PublisherGetsPath, PublisherLeaves,
       PublisherCallCancelled, OnlyPublisher, AnswerCloseIfIdle,
       DecideCloseIfIdle, AbandonCloseIfIdle, Terminate, streamVars, startVars,
       vars
<1>10. UNCHANGED <<conf, source, available, handler>>
         => StreamHasSource' /\ SourceIsStatic'
  BY DEF StreamHasSource, SourceIsStatic
<1> QED
  BY <1>1, <1>2, <1>3, <1>4, <1>5, <1>6, <1>7, <1>8, <1>9, <1>10
     DEF Next, PublisherRequest, Gone

(* What a step can do to a path the manager is deciding on, or has closed. *)
LEMMA UnusedStep ==
  ASSUME IdleInv, [Next]_vars PROVE StaysUnused'
<1> USE DEF IdleInv
<1>t. TypeOK
  BY DEF ClientsInv, PendingInv
<1> SUFFICES ASSUME ctx' \in {"deciding", "idle"}
             PROVE  source' = NoOne /\ readers' = {} /\ ~conf'.alwaysAvailable
  BY DEF StaysUnused
<1>1. CASE AnswerCloseIfIdle
  <2>1. ShouldClose
    BY <1>1 DEF AnswerCloseIfIdle, AskingIsIdle
  <2> QED
    BY <1>1, <1>t, <2>1, ConfsAssumption DEF AnswerCloseIfIdle, ShouldClose,
       TypeOK, ValidConf
<1>2. ASSUME ~AnswerCloseIfIdle PROVE ctx \in {"deciding", "idle"}
  BY <1>2 DEF Next, vars, Timers, StaticSourceReadyTimer,
     StaticSourceCloseTimer, PublisherReadyTimer, PublisherCloseTimer,
     SourceStaticSetReady, SourceStaticSetNotReady, ReaderRequest, Describe,
     AddReader, RemoveReader, ReaderGetsPath, ReaderLeaves,
     ReaderCallCancelled, OnlyReader, PublisherRequest, RejectPublisher,
     AddPublisher, RemovePublisher, PublisherGetsPath, PublisherLeaves,
     PublisherCallCancelled, OnlyPublisher, ReloadConf, DecideCloseIfIdle,
     AbandonCloseIfIdle, Terminate, Destroy, Gone
<1>3. ASSUME ctx \in {"deciding", "idle"}
      PROVE  source' = NoOne /\ readers' = {} /\ ~conf'.alwaysAvailable
  <2>1. source = NoOne /\ readers = {} /\ ~conf.alwaysAvailable /\ ~available
    BY <1>3 DEF StaysUnused, StreamHasSource
  <2>2. conf'.alwaysAvailable = conf.alwaysAvailable
    <3>1. ASSUME NEW c \in Confs, ReloadConf(c)
          PROVE  conf'.alwaysAvailable = conf.alwaysAvailable
      BY <1>t, <3>1, ConfsAssumption DEF ReloadConf, HotReload, TypeOK, Conf
    <3>2. UNCHANGED conf \/ \E c \in Confs : ReloadConf(c)
      BY DEF Next, vars, Timers, StaticSourceReadyTimer,
         StaticSourceCloseTimer, PublisherReadyTimer, PublisherCloseTimer,
         SourceStaticSetReady, SourceStaticSetNotReady, ReaderRequest,
         Describe, AddReader, RemoveReader, ReaderGetsPath, ReaderLeaves,
         ReaderCallCancelled, OnlyReader, PublisherRequest, RejectPublisher,
         AddPublisher, RemovePublisher, PublisherGetsPath, PublisherLeaves,
         PublisherCallCancelled, OnlyPublisher, AnswerCloseIfIdle,
         DecideCloseIfIdle, AbandonCloseIfIdle, Terminate, Destroy, Gone
    <3> QED
      BY <3>1, <3>2
  <2>3. ASSUME NEW ok \in BOOLEAN, SourceStaticSetReady(ok) PROVE FALSE
    BY <2>1, <2>3 DEF SourceStaticSetReady, SourceIsStatic, NoOne
  <2>4. ASSUME NEW p \in Publishers, NEW ok \in BOOLEAN, AddPublisher(p, ok)
        PROVE  FALSE
    <3>1. ManagerIsTold
      BY <2>1, <2>4 DEF AddPublisher, SetAvailable
    <3>2. ctx = "idle" /\ publisherState[p] = "adding"
      BY <1>3, <2>4, <3>1 DEF AddPublisher, ManagerIsTold
    <3> QED
      BY <3>2 DEF IdleCloseHarmsNobody
  <2>5. ASSUME NEW p \in Publishers, RemovePublisher(p)
        PROVE  source' = NoOne /\ readers' = {}
    BY <2>1, <2>5 DEF RemovePublisher, ExecuteRemovePublisher, CloseReaders
  <2>6. ASSUME NEW r \in Readers, ReaderRequest(r)
        PROVE  source' = NoOne /\ readers' = {}
    BY <2>1, <2>6 DEF ReaderRequest, Describe, AddReader, RemoveReader
  <2>7. CASE Timers
    BY <2>1, <2>7 DEF Timers, StaticSourceReadyTimer, StaticSourceCloseTimer,
       PublisherReadyTimer, PublisherCloseTimer, CloseReaders
  <2>8. CASE SourceStaticSetNotReady
    BY <2>1, <2>8 DEF SourceStaticSetNotReady, CloseReaders
  <2>9. CASE Destroy
    BY <2>1, <2>9 DEF Destroy
  <2>10. ASSUME \/ \E r \in Readers : \/ ReaderGetsPath(r) \/ ReaderLeaves(r)
                                     \/ ReaderCallCancelled(r)
                \/ \E p \in Publishers :
                     \/ RejectPublisher(p) \/ PublisherGetsPath(p)
                     \/ PublisherLeaves(p) \/ PublisherCallCancelled(p)
                \/ \E c \in Confs : ReloadConf(c)
                \/ AnswerCloseIfIdle \/ DecideCloseIfIdle
                \/ AbandonCloseIfIdle \/ Terminate \/ UNCHANGED vars
         PROVE  UNCHANGED <<source, readers>>
    BY <2>10 DEF ReaderGetsPath, ReaderLeaves, ReaderCallCancelled, OnlyReader,
       RejectPublisher, PublisherGetsPath, PublisherLeaves,
       PublisherCallCancelled, OnlyPublisher, ReloadConf, AnswerCloseIfIdle,
       DecideCloseIfIdle, AbandonCloseIfIdle, Terminate, vars
  <2> QED
    BY <2>1, <2>2, <2>3, <2>4, <2>5, <2>6, <2>7, <2>8, <2>9, <2>10
       DEF Next, PublisherRequest, Gone
<1> QED
  BY <1>1, <1>2, <1>3

LEMMA IdleStep ==
  ASSUME IdleInv, DecoderErrors = FALSE, [Next]_vars
  PROVE  IdleCloseHarmsNobody'
<1> USE DEF IdleInv
<1>t. TypeOK
  BY DEF ClientsInv, PendingInv
<1> SUFFICES ASSUME ctx' = "idle" PROVE IdleCloseHarmsNobody'
  BY DEF IdleCloseHarmsNobody
<1>a. ReadersAgree' /\ PublishersAgree'
  BY ReadStep, PublishStep
<1>u. source' = NoOne /\ readers' = {}
  BY UnusedStep DEF StaysUnused
<1>p. \A p \in Publishers : publisherState'[p] # "publishing"
  BY <1>a, <1>u, ClientsAssumption DEF PublishersAgree, NoOne
<1>r. \A r \in Readers : readerState'[r] # "reading"
  BY <1>a, <1>u DEF ReadersAgree
<1>1. CASE DecideCloseIfIdle
  <2>1. /\ ctx = "deciding" /\ pendingRequests = 0
        /\ UNCHANGED <<readerState, publisherState>>
    BY <1>1 DEF DecideCloseIfIdle, clientVars
  <2>2. \A r \in Readers :
          readerState[r] \notin {"reading", "describing", "adding"}
    <3>1. ReaderCallers = {}
      <4>1. Cardinality(ReaderCallers) = 0
        BY <2>1, CallersFinite DEF ClientsInv, PendingInv, CallersCounted
      <4> QED
        BY <4>1, CallersFinite, FS_EmptySet
    <3> QED
      BY <2>1, <3>1, <1>r DEF ReaderCallers
  <2>3. \A p \in Publishers : publisherState[p] \notin {"publishing", "adding"}
    <3>1. PublisherCallers = {}
      <4>1. Cardinality(PublisherCallers) = 0
        BY <2>1, CallersFinite DEF ClientsInv, PendingInv, CallersCounted
      <4> QED
        BY <4>1, CallersFinite, FS_EmptySet
    <3> QED
      BY <2>1, <3>1, <1>p DEF PublisherCallers
  <2> QED
    BY <2>1, <2>2, <2>3 DEF IdleCloseHarmsNobody
<1>2. ASSUME ~DecideCloseIfIdle PROVE ctx = "idle"
  BY <1>2 DEF Next, vars, Timers, StaticSourceReadyTimer,
     StaticSourceCloseTimer, PublisherReadyTimer, PublisherCloseTimer,
     SourceStaticSetReady, SourceStaticSetNotReady, ReaderRequest, Describe,
     AddReader, RemoveReader, ReaderGetsPath, ReaderLeaves,
     ReaderCallCancelled, OnlyReader, PublisherRequest, RejectPublisher,
     AddPublisher, RemovePublisher, PublisherGetsPath, PublisherLeaves,
     PublisherCallCancelled, OnlyPublisher, ReloadConf, AnswerCloseIfIdle,
     AbandonCloseIfIdle, Terminate, Destroy, Gone
<1>3. CASE ctx = "idle"
  <2>1. /\ \A r \in Readers : readerState[r] \notin {"describing", "adding"}
        /\ \A p \in Publishers : publisherState[p] # "adding"
    BY <1>3 DEF IdleCloseHarmsNobody
  <2>2. \A r \in Readers : readerState'[r] \notin {"describing", "adding"}
    <3>1. CASE Untouched \/ SomeClosed \/ HeldRefused \/ Destroy
      BY <2>1, <3>1 DEF Untouched, SomeClosed, HeldRefused, FailOnHold,
           Destroy, AfterClose
    <3>2. CASE HeldServed
      BY <2>1, <3>2 DEF HeldServed, ConsumeOnHold, AfterClose
    <3>3. ASSUME NEW r \in Readers,
                 PutOnHold(r) \/ Joins(r) \/ Moves(r) \/ Parts(r)
          PROVE  \E state \in {"idle", "leaving"} :
                   readerState' = [readerState EXCEPT ![r] = state]
      <4>1. ~PutOnHold(r) /\ ~Joins(r)
        BY <2>1 DEF PutOnHold, Joins
      <4>2. CASE Moves(r)
        BY <1>3, <2>1, <4>2 DEF Moves
      <4>3. CASE Parts(r)
        BY <4>3 DEF Parts
      <4> QED
        BY <3>3, <4>1, <4>2, <4>3
    <3>4. ASSUME NEW r \in Readers, NEW state \in {"idle", "leaving"},
                 readerState' = [readerState EXCEPT ![r] = state]
          PROVE  \A q \in Readers : readerState'[q] \notin {"describing", "adding"}
      BY <1>t, <2>1, <3>4 DEF TypeOK
    <3> QED
      BY <1>t, <3>1, <3>2, <3>3, <3>4, ReaderEffects
  <2>3. \A p \in Publishers : publisherState'[p] # "adding"
    <3>1. ASSUME NEW p \in Publishers,
                 \/ PublisherRequest(p) \/ PublisherGetsPath(p)
                 \/ PublisherLeaves(p) \/ PublisherCallCancelled(p)
          PROVE  \E state \in {"idle", "leaving"} :
                   publisherState' = [publisherState EXCEPT ![p] = state]
      BY <1>3, <2>1, <3>1 DEF PublisherRequest, RejectPublisher, AddPublisher,
           RemovePublisher, PublisherGetsPath, PublisherLeaves,
           PublisherCallCancelled, OnlyPublisher
    <3>2. ASSUME NEW p \in Publishers, NEW state \in {"idle", "leaving"},
                 publisherState' = [publisherState EXCEPT ![p] = state]
          PROVE  \A q \in Publishers : publisherState'[q] # "adding"
      BY <1>t, <2>1, <3>2 DEF TypeOK
    <3>3. ASSUME Destroy
          PROVE  \A q \in Publishers : publisherState'[q] # "adding"
      BY <2>1, <3>3 DEF Destroy
    <3>4. ASSUME \/ Timers \/ \E ok \in BOOLEAN : SourceStaticSetReady(ok)
                 \/ SourceStaticSetNotReady \/ \E c \in Confs : ReloadConf(c)
                 \/ \E r \in Readers :
                      \/ ReaderRequest(r) \/ ReaderGetsPath(r)
                      \/ ReaderLeaves(r) \/ ReaderCallCancelled(r)
                 \/ AnswerCloseIfIdle \/ DecideCloseIfIdle
                 \/ AbandonCloseIfIdle \/ Terminate \/ UNCHANGED vars
          PROVE  UNCHANGED publisherState
      BY <3>4 DEF Timers, StaticSourceReadyTimer, StaticSourceCloseTimer,
           PublisherReadyTimer, PublisherCloseTimer, SourceStaticSetReady,
           SourceStaticSetNotReady, ReaderRequest, Describe, AddReader,
           RemoveReader, ReaderGetsPath, ReaderLeaves, ReaderCallCancelled,
           OnlyReader, ReloadConf, AnswerCloseIfIdle, DecideCloseIfIdle,
           AbandonCloseIfIdle, Terminate, clientVars, vars
    <3> QED
      BY <2>1, <3>1, <3>2, <3>3, <3>4 DEF Next, Gone
  <2> QED
    BY <1>p, <1>r, <2>2, <2>3 DEF IdleCloseHarmsNobody
<1> QED
  BY <1>1, <1>2, <1>3

LEMMA IdleInit ==
  ASSUME Init PROVE IdleInv
<1>1. ClientsInv
  BY ClientsInit
<1>2. AskingIsIdle /\ StaysUnused /\ IdleCloseHarmsNobody
  BY DEF Init, AskingIsIdle, StaysUnused, IdleCloseHarmsNobody
<1>3. StreamHasSource
  BY DEF Init, StreamHasSource
<1>4. conf.source \in {"static", "redirect", "publisher"}
  BY <1>1, ConfsAssumption DEF ClientsInv, PendingInv, TypeOK, Conf
<1>5. conf.source = "static" => source = "handler"
  BY DEF Init
<1>6. handler # "none" => conf.source = "static"
  <2> SUFFICES ASSUME conf.source # "static" PROVE handler = "none"
    OBVIOUS
  <2>1. ~HasStaticSource
    BY DEF HasStaticSource
  <2>2. ~HasOnDemandStaticSource
    BY <2>1 DEF HasOnDemandStaticSource
  <2> QED
    BY <2>1, <2>2 DEF Init
<1>7. SourceIsStatic
  BY <1>5, <1>6 DEF SourceIsStatic
<1> QED
  BY <1>1, <1>2, <1>3, <1>7 DEF IdleInv

LEMMA IdleInvStep ==
  ASSUME IdleInv, DecoderErrors = FALSE, [Next]_vars PROVE IdleInv'
<1>1. PendingInv'
  BY TypeStep, CountStep DEF IdleInv, ClientsInv, PendingInv
<1>2. ClientsInv'
  BY <1>1, HoldStep, ReadStep, StreamStep, PublishStep DEF IdleInv, ClientsInv
<1> QED
  BY <1>2, AskingStep, UnusedStep, SourceStep, IdleStep DEF IdleInv

(* path.go and path_manager.go, closePathIfIdle: the manager, who trusts    *)
(* a counter that may have changed since the path asked, never closes it    *)
(* under a client that reads, publishes or was just given it, as long as no *)
(* stream is left behind by a publisher that was refused.                   *)
THEOREM IdleCloseCorrect ==
  ASSUME DecoderErrors = FALSE
  PROVE  Spec => []IdleCloseHarmsNobody
<1>1. IdleInv => IdleCloseHarmsNobody
  BY DEF IdleInv
<1> QED
  BY <1>1, IdleInit, IdleInvStep, PTL DEF Spec

(* path.go and path_manager.go: the path and its clients agree on who asks, *)
(* waits, reads and publishes, and it is not closed under any of them.      *)
THEOREM AgreeCorrect ==
  ASSUME DecoderErrors = FALSE
  PROVE  Spec => []ClientsAgree
<1>1. Spec => []IdleCloseHarmsNobody
  BY IdleCloseCorrect
<1> QED
  BY <1>1, CountCorrect, HoldCorrect, ReadCorrect, PublishCorrect, PTL
     DEF ClientsAgree

-----------------------------------------------------------------------------
(***************************************************************************)
(* The demand, the stream and the end of a path: what was started on       *)
(* demand, its timers, what feeds the stream and what accompanies it.      *)
(***************************************************************************)
(* The inductive invariant.                                                *)

(* The demand, the timers and what was started on demand; only on-demand   *)
(* paths have a demand.                                                    *)
DemandInv ==
  /\ ~panicked
  /\ ~OnDemandPath => demand = "initial"
  /\ handler # "none" <=> HasStaticSource
  /\ Alive =>
       /\ readyTimer <=> demand = "waitingReady"
       /\ closeTimer <=> demand = "closing"
       /\ closeTimer => readers = {}
       /\ HasStaticSource /\ ~conf.onDemand => handler # "stopped"
       /\ HasOnDemandStaticSource =>
            /\ handler = "stopped" <=> demand = "initial"
            /\ handler = "starting" <=> demand = "waitingReady"
            /\ handler = "ready" <=> demand \in {"ready", "closing"}
       /\ HasOnDemandPublisher => (command <=> demand # "initial")

(* Who can be the source, what feeds the stream and what accompanies it.   *)
FeedInv ==
  /\ conf.source = "publisher" <=> source \in Publishers \cup {NoOne}
  /\ feeder \in Publishers => source = feeder
  /\ feeder = "offline" => conf.alwaysAvailable
  /\ Alive =>
       /\ available <=> feeder # NoOne
       /\ source \in Publishers => feeder = source
       /\ feeder = "handler" <=> handler = "ready"
       /\ recorder = IF available THEN conf.record ELSE "off"
       /\ readyCommands = IF available THEN 1 ELSE 0

(* A path ends only when it has been closed. *)
EndedIsClosed == phase = "destroyed" => ~Open

(* Nobody who reads asks for anything else: one who leaves a closed path   *)
(* may stay in its map, but is given no path any more.                     *)
ReadersAskNothing ==
  \A r \in readers : readerState[r] \in {"reading", "leaving", "closed", "idle"}

StreamInv ==
  /\ IdleInv /\ DemandInv /\ FeedInv
  /\ EndedIsClosed /\ NothingSurvives /\ ReadersAskNothing

-----------------------------------------------------------------------------
(* What the steps have in common.                                          *)

(* What a hot reload leaves alone. *)
LEMMA ReloadKeeps ==
  ASSUME TypeOK, NEW c \in Confs, ReloadConf(c)
  PROVE  /\ conf'.source = conf.source /\ conf'.onDemand = conf.onDemand
         /\ conf'.alwaysAvailable = conf.alwaysAvailable
         /\ conf' = c /\ c \in Conf
         /\ UNCHANGED <<source, available, feeder, readyCommands, readers,
                        demandVars, startVars>>
         /\ phase = "running" /\ phase' = "running"
BY ConfsAssumption DEF ReloadConf, HotReload, TypeOK, Conf, EndNoCheck

(* The steps that are about clients and the manager only. *)
ClientStep ==
  \/ \E r \in Readers : \/ ReaderGetsPath(r) \/ ReaderLeaves(r)
                        \/ ReaderCallCancelled(r)
  \/ \E p \in Publishers : \/ RejectPublisher(p) \/ PublisherGetsPath(p)
                           \/ PublisherLeaves(p) \/ PublisherCallCancelled(p)
  \/ AnswerCloseIfIdle \/ DecideCloseIfIdle \/ AbandonCloseIfIdle
  \/ Terminate \/ UNCHANGED vars

LEMMA ClientStepKeeps ==
  ASSUME ClientStep
  PROVE  /\ UNCHANGED <<conf, source, readers, streamVars, demandVars, startVars>>
         /\ Alive' = Alive
<1>1. UNCHANGED <<conf, source, readers, streamVars, demandVars, startVars>>
  BY DEF ClientStep, ReaderGetsPath, ReaderLeaves, ReaderCallCancelled,
     OnlyReader, RejectPublisher, PublisherGetsPath, PublisherLeaves,
     PublisherCallCancelled, OnlyPublisher, AnswerCloseIfIdle,
     DecideCloseIfIdle, AbandonCloseIfIdle, Terminate, vars
<1>2. Alive' = Alive
  BY DEF ClientStep, ReaderGetsPath, ReaderLeaves, ReaderCallCancelled,
     OnlyReader, RejectPublisher, PublisherGetsPath, PublisherLeaves,
     PublisherCallCancelled, OnlyPublisher, AnswerCloseIfIdle,
     DecideCloseIfIdle, AbandonCloseIfIdle, Terminate, vars, Alive, EndWithCheck
<1> QED
  BY <1>1, <1>2

(* Every step, by what it is about. *)
LEMMA StepKinds ==
  ASSUME [Next]_vars
  PROVE  \/ StaticSourceReadyTimer \/ StaticSourceCloseTimer
         \/ PublisherReadyTimer \/ PublisherCloseTimer
         \/ \E ok \in BOOLEAN : SourceStaticSetReady(ok)
         \/ SourceStaticSetNotReady
         \/ \E r \in Readers : Describe(r) \/ AddReader(r) \/ RemoveReader(r)
         \/ \E p \in Publishers : \/ \E ok \in BOOLEAN : AddPublisher(p, ok)
                                  \/ RemovePublisher(p)
         \/ \E c \in Confs : ReloadConf(c)
         \/ Destroy \/ ClientStep
BY DEF Next, Timers, ReaderRequest, PublisherRequest, Gone, ClientStep

(* What the kinds of source and the values of a configuration can be. *)
LEMMA ConfKinds ==
  ASSUME TypeOK
  PROVE  /\ conf.source \in {"publisher", "static", "redirect"}
         /\ conf.onDemand \in BOOLEAN /\ conf.alwaysAvailable \in BOOLEAN
         /\ conf.regexp \in BOOLEAN /\ conf.record \in RecordFormats
         /\ conf.alwaysAvailable => ~conf.onDemand /\ ~conf.regexp
         /\ OnDemandPath => ~conf.alwaysAvailable
BY ConfsAssumption DEF TypeOK, Conf, ValidConf, OnDemandPath,
   HasOnDemandStaticSource, HasOnDemandPublisher

(* A source that is starting has no stream on an ordinary path. *)
LEMMA StartingHasNoStream ==
  ASSUME StreamInv, Alive
  PROVE  /\ handler = "starting" /\ ~conf.alwaysAvailable => ~available
         /\ conf.source = "publisher" /\ source = NoOne /\ ~conf.alwaysAvailable
              => ~available
<1>t. TypeOK
  BY DEF StreamInv, IdleInv, ClientsInv, PendingInv
<1>1. NoOne \notin Publishers /\ "handler" \notin Publishers
  BY ClientsAssumption DEF NoOne
<1>2. handler = "starting" => conf.source = "static"
  BY DEF StreamInv, DemandInv, HasStaticSource
<1>3. feeder \in Publishers => source = feeder
  BY DEF StreamInv, FeedInv
<1>4. conf.source = "static" => feeder \notin Publishers
  BY <1>1, <1>3 DEF StreamInv, FeedInv
<1> QED
  BY <1>t, <1>1, <1>2, <1>3, <1>4
     DEF StreamInv, IdleInv, StreamHasSource, FeedInv,
         ReadersHaveFedStream, TypeOK

-----------------------------------------------------------------------------
(* The demand.                                                             *)

LEMMA DemandStep ==
  ASSUME StreamInv, DecoderErrors = FALSE, [Next]_vars PROVE DemandInv'
<1>t. TypeOK /\ DemandInv
  BY DEF StreamInv, IdleInv, ClientsInv, PendingInv
<1>i. /\ demand \in {"initial", "waitingReady", "ready", "closing"}
      /\ handler \in {"none", "stopped", "starting", "ready"}
      /\ readyTimer \in BOOLEAN /\ closeTimer \in BOOLEAN
      /\ command \in BOOLEAN /\ panicked \in BOOLEAN
  BY <1>t DEF TypeOK
<1>u. ASSUME UNCHANGED <<conf, demandVars, startVars, readers>>, Alive' => Alive
      PROVE  DemandInv'
  BY <1>t, <1>u DEF demandVars, startVars, DemandInv, OnDemandPath,
     HasOnDemandPublisher, HasOnDemandStaticSource, HasStaticSource
<1> USE DEF DemandInv, HasOnDemandPublisher, HasOnDemandStaticSource,
            HasStaticSource, OnDemandPath
<1>1. CASE StaticSourceReadyTimer
  <2>1. /\ Alive /\ HasOnDemandStaticSource /\ readyTimer /\ ~readyTimer'
        /\ demand' = "initial" /\ handler' = "stopped"
        /\ panicked' = (panicked \/ handler = "stopped")
        /\ closeTimer' = (closeTimer /\ demand # "closing")
        /\ UNCHANGED <<conf, command, readers>>
    BY <1>1 DEF StaticSourceReadyTimer, StaticSourceStop, StopCloseTimer, Alive
  <2> QED
    BY <1>t, <1>i, <2>1
<1>2. CASE StaticSourceCloseTimer
  <2>1. /\ Alive /\ HasOnDemandStaticSource /\ closeTimer /\ ~closeTimer'
        /\ demand' = "initial" /\ handler' = "stopped"
        /\ panicked' = (panicked \/ handler = "stopped")
        /\ UNCHANGED <<conf, command, readyTimer>>
    BY <1>2 DEF StaticSourceCloseTimer, StaticSourceStop, Alive
  <2> QED
    BY <1>t, <1>i, <2>1
<1>3. CASE PublisherReadyTimer
  <2>1. /\ Alive /\ HasOnDemandPublisher /\ readyTimer /\ ~readyTimer'
        /\ demand' = "initial" /\ ~command'
        /\ panicked' = (panicked \/ ~command)
        /\ closeTimer' = (closeTimer /\ demand # "closing")
        /\ UNCHANGED <<conf, handler, readers>>
    BY <1>3 DEF PublisherReadyTimer, PublisherStop, StopCloseTimer, Alive
  <2> QED
    BY <1>t, <1>i, <2>1
<1>4. CASE PublisherCloseTimer
  <2>1. /\ Alive /\ HasOnDemandPublisher /\ closeTimer /\ ~closeTimer'
        /\ demand' = "initial" /\ ~command'
        /\ panicked' = (panicked \/ ~command)
        /\ UNCHANGED <<conf, handler, readers, readyTimer>>
    BY <1>4 DEF PublisherCloseTimer, PublisherStop, Alive
  <2> QED
    BY <1>t, <1>i, <2>1
<1>5. ASSUME NEW ok \in BOOLEAN, SourceStaticSetReady(ok) PROVE DemandInv'
  <2>1. Alive /\ handler = "starting" /\ UNCHANGED <<conf, command, panicked>>
    BY <1>5 DEF SourceStaticSetReady, Alive
  <2>2. CASE ok /\ conf.onDemand
    <3>1. readers = {}
      BY <1>t, <2>1, <2>2, StartingHasNoStream, ConfKinds
         DEF StreamInv, IdleInv, ClientsInv, ReadersHaveStream
    <3>2. /\ handler' = "ready"
          /\ HasOnDemandStaticSource
      BY <1>t, <1>5, <2>1, <2>2 DEF SourceStaticSetReady
    <3>3. ScheduleClose(Admitted(readers)) /\ readers' = readers \cup Admitted(readers)
      BY <1>5, <2>2, <3>2 DEF SourceStaticSetReady, ConsumeOnHold
    <3> QED
      BY <1>t, <1>i, <2>1, <3>1, <3>2, <3>3 DEF ScheduleClose
  <2>3. CASE ok /\ ~conf.onDemand
    <3>1. handler' = "ready" /\ UNCHANGED demandVars
      BY <1>5, <2>3 DEF SourceStaticSetReady
    <3> QED
      BY <1>t, <1>i, <2>1, <2>3, <3>1 DEF demandVars
  <2>4. CASE ~ok
    BY <1>5, <1>u, <2>1, <2>4 DEF SourceStaticSetReady, startVars
  <2> QED
    BY <2>2, <2>3, <2>4, <1>t, ConfKinds
<1>6. CASE SourceStaticSetNotReady
  <2>1. /\ Alive /\ handler = "ready" /\ UNCHANGED <<conf, readyTimer, command>>
        /\ readers' = readers \/ readers' = {}
    BY <1>6 DEF SourceStaticSetNotReady, CloseReaders, Alive
  <2>2. CASE HasOnDemandStaticSource /\ demand # "initial"
    <3>1. /\ demand' = "initial" /\ handler' = "stopped"
          /\ panicked' = (panicked \/ handler = "stopped")
          /\ closeTimer' = (closeTimer /\ demand # "closing")
      BY <1>6, <2>2 DEF SourceStaticSetNotReady, StaticSourceStop, StopCloseTimer
    <3> QED
      BY <1>t, <1>i, <2>1, <2>2, <3>1
  <2>3. CASE ~(HasOnDemandStaticSource /\ demand # "initial")
    <3>1. handler' = "starting" /\ UNCHANGED <<demand, closeTimer, panicked>>
      BY <1>6, <2>3 DEF SourceStaticSetNotReady
    <3> QED
      BY <1>t, <1>i, <2>1, <2>3, <3>1
  <2> QED
    BY <2>2, <2>3
<1>s. ASSUME Alive, StartOnDemand, OnDemandPath, ~available,
             UNCHANGED <<conf, readers, closeTimer>>
      PROVE  DemandInv'
  <2>1. CASE demand # "initial"
    <3>1. UNCHANGED <<demand, readyTimer, startVars>>
      BY <1>s, <2>1 DEF StartOnDemand
    <3> QED
      BY <1>s, <1>u, <3>1 DEF demandVars
  <2>2. CASE demand = "initial"
    <3>1. /\ demand' = "waitingReady" /\ readyTimer'
          /\ IF HasOnDemandStaticSource
             THEN /\ handler' = "starting"
                  /\ panicked' = (panicked \/ handler # "stopped")
                  /\ UNCHANGED command
             ELSE command' /\ UNCHANGED <<handler, panicked>>
      BY <1>s, <2>2 DEF StartOnDemand
    <3> QED
      BY <1>t, <1>i, <1>s, <2>2, <3>1
  <2> QED
    BY <2>1, <2>2
<1>7. ASSUME NEW r \in Readers, Describe(r) PROVE DemandInv'
  <2>1. Alive /\ UNCHANGED <<conf, readers, closeTimer>>
    BY <1>7 DEF Describe, Alive
  <2>2. CASE source # "redirect" /\ ~available /\ OnDemandPath
    BY <1>7, <1>s, <2>1, <2>2 DEF Describe
  <2>3. CASE ~(source # "redirect" /\ ~available /\ OnDemandPath)
    BY <1>7, <1>u, <2>1, <2>3 DEF Describe, demandVars
  <2> QED
    BY <2>2, <2>3
<1>8. ASSUME NEW r \in Readers, AddReader(r) PROVE DemandInv'
  <2>1. Alive /\ UNCHANGED conf
    BY <1>8 DEF AddReader, Alive
  <2>2. CASE available /\ AddReaderPost(r) /\ UNCHANGED <<readyTimer, startVars>>
    <3>1. CASE UNCHANGED <<readers, demand, closeTimer>>
      BY <1>u, <2>1, <2>2, <3>1 DEF demandVars
    <3>2. CASE OnDemandPath /\ demand = "closing" /\ demand' = "ready"
               /\ ~closeTimer'
      BY <1>t, <1>i, <2>1, <2>2, <3>2 DEF startVars
    <3>3. CASE ~(OnDemandPath /\ demand = "closing")
               /\ UNCHANGED <<demand, closeTimer>>
      BY <1>t, <1>i, <2>1, <2>2, <3>3 DEF startVars
    <3> QED
      BY <2>2, <3>1, <3>2, <3>3 DEF AddReaderPost
  <2>3. CASE ~available /\ OnDemandPath /\ StartOnDemand
             /\ UNCHANGED <<readers, closeTimer>>
    BY <1>s, <2>1, <2>3
  <2>4. CASE UNCHANGED <<readers, demandVars, startVars>>
    BY <1>u, <2>1, <2>4
  <2> QED
    BY <1>8, <2>2, <2>3, <2>4 DEF AddReader
<1>9. ASSUME NEW r \in Readers, RemoveReader(r) PROVE DemandInv'
  <2>1. /\ Alive /\ UNCHANGED <<conf, readyTimer, startVars>>
        /\ readers' = readers \ {r}
    BY <1>9 DEF RemoveReader, Alive
  <2>2. CASE readers' = {} /\ OnDemandPath /\ demand = "ready"
    <3>1. demand' = "closing" /\ closeTimer'
      BY <1>9, <2>2 DEF RemoveReader
    <3> QED
      BY <1>t, <1>i, <2>1, <2>2, <3>1 DEF startVars
  <2>3. CASE ~(readers' = {} /\ OnDemandPath /\ demand = "ready")
    <3>1. UNCHANGED <<demand, closeTimer>>
      BY <1>9, <2>3 DEF RemoveReader
    <3> QED
      BY <1>t, <1>i, <2>1, <3>1 DEF startVars
  <2> QED
    BY <2>2, <2>3
<1>10. ASSUME NEW p \in Publishers, NEW ok \in BOOLEAN, AddPublisher(p, ok)
       PROVE  DemandInv'
  <2> DEFINE replaced == {q \in Publishers : q = source}
             dropped  == IF replaced # {} /\ ~conf.alwaysAvailable
                         THEN readers ELSE {}
             kept     == readers \ dropped
  <2>1. /\ Alive /\ conf.source = "publisher" /\ UNCHANGED <<conf, startVars>>
        /\ ok \/ conf.alwaysAvailable
    BY <1>10 DEF AddPublisher, Alive, SubStreamMayFail
  <2>2. CASE conf.onDemand
    <3>1. ok /\ ~conf.alwaysAvailable
      BY <1>t, <2>1, <2>2, ConfKinds
    <3>2. kept = {}
      <4>1. CASE replaced # {}
        BY <3>1, <4>1
      <4>2. CASE replaced = {}
        <5>1. source = NoOne
          BY <2>1, <4>2 DEF StreamInv, FeedInv
        <5>2. readers = {}
          BY <2>1, <3>1, <5>1, StartingHasNoStream
             DEF StreamInv, IdleInv, ClientsInv, ReadersHaveStream
        <5> QED
          BY <5>2
      <4> QED
        BY <4>1, <4>2
    <3>3. readers' = kept \cup Admitted(kept)
      BY <1>10, <3>1 DEF AddPublisher, ConsumeOnHold
    <3>4. CASE demand # "initial"
      <4>1. ScheduleClose(Admitted(kept))
        BY <1>10, <2>1, <2>2, <3>1, <3>4 DEF AddPublisher
      <4> QED
        BY <1>t, <1>i, <2>1, <2>2, <3>2, <3>3, <3>4, <4>1
           DEF ScheduleClose, startVars
    <3>5. CASE demand = "initial"
      <4>1. UNCHANGED demandVars
        BY <1>10, <3>1, <3>5 DEF AddPublisher
      <4> QED
        BY <1>t, <1>i, <2>1, <2>2, <3>5, <4>1
           DEF startVars, demandVars
    <3> QED
      BY <3>4, <3>5
  <2>3. CASE ~conf.onDemand
    <3>1. demand = "initial"
      BY <1>t, <2>3
    <3>2. UNCHANGED demandVars
      BY <1>10, <2>3 DEF AddPublisher
    <3> QED
      BY <1>t, <1>i, <2>1, <2>3, <3>1, <3>2
         DEF demandVars, startVars
  <2> QED
    BY <2>2, <2>3
<1>11. ASSUME NEW p \in Publishers, RemovePublisher(p) PROVE DemandInv'
  <2>1. /\ Alive /\ UNCHANGED <<conf, demandVars, startVars>>
        /\ readers' = readers \/ readers' = {}
    BY <1>11 DEF RemovePublisher, ExecuteRemovePublisher, CloseReaders, Alive
  <2> QED
    BY <1>t, <1>i, <2>1 DEF demandVars, startVars
<1>12. ASSUME NEW c \in Confs, ReloadConf(c) PROVE DemandInv'
  <2>1. /\ conf'.source = conf.source /\ conf'.onDemand = conf.onDemand
        /\ UNCHANGED <<readers, demandVars, startVars>> /\ Alive
    BY <1>12, <1>t, ReloadKeeps DEF Alive
  <2> QED
    BY <1>t, <2>1 DEF demandVars, startVars
<1>13. CASE Destroy
  <2>1. /\ Alive /\ ~Alive' /\ UNCHANGED <<conf, demand>>
        /\ handler' = IF HandlerToStop THEN "stopped" ELSE handler
        /\ panicked' = (panicked \/ (HandlerToStop /\ handler = "stopped"))
    BY <1>13 DEF Destroy, Alive
  <2> QED
    BY <1>t, <1>i, <2>1 DEF HandlerToStop
<1>14. CASE ClientStep
  BY <1>14, <1>u, ClientStepKeeps
<1> QED
  BY <1>1, <1>2, <1>3, <1>4, <1>5, <1>6, <1>7, <1>8, <1>9, <1>10, <1>11,
     <1>12, <1>13, <1>14, StepKinds

-----------------------------------------------------------------------------
(* The stream, what feeds it and what accompanies it.                      *)
LEMMA FeedStep ==
  ASSUME StreamInv, DecoderErrors = FALSE, [Next]_vars PROVE FeedInv'
<1>t. TypeOK /\ FeedInv /\ DemandInv
  BY DEF StreamInv, IdleInv, ClientsInv, PendingInv
<1>c. /\ NoOne \notin Publishers /\ "handler" \notin Publishers
      /\ "redirect" \notin Publishers /\ "offline" \notin Publishers
      /\ NoOne \notin {"handler", "redirect", "offline"}
  BY ClientsAssumption DEF NoOne
<1>i. /\ handler = "ready" => conf.source = "static"
      /\ handler = "starting" => conf.source = "static"
      /\ handler \in {"none", "stopped", "starting", "ready"}
      /\ conf.source \in {"publisher", "static", "redirect"}
      /\ conf.source = "static" => feeder \notin Publishers
      /\ Alive /\ conf.alwaysAvailable => available
  BY <1>t, <1>c, ConfKinds DEF DemandInv, HasStaticSource, FeedInv, TypeOK,
     StreamInv, IdleInv, ClientsInv, ReadersHaveStream
<1>b. /\ Alive /\ available => recorder = conf.record /\ readyCommands = 1
      /\ Alive /\ ~available => recorder = "off" /\ readyCommands = 0
  BY <1>t DEF FeedInv
<1>u. ASSUME UNCHANGED <<conf, source, handler, streamVars>>, Alive' => Alive
      PROVE  FeedInv'
  BY <1>t, <1>u DEF streamVars, FeedInv
<1> USE DEF FeedInv
<1>n. ASSUME SetNotAvailable, Alive, feeder' = NoOne, UNCHANGED conf,
             handler' # "ready", source' \notin Publishers,
             conf.source = "publisher" <=> source' \in Publishers \cup {NoOne}
      PROVE  FeedInv'
  BY <1>b, <1>n, <1>c DEF SetNotAvailable
<1>s. ASSUME SetAvailable, Alive, ~available
      PROVE  /\ available' /\ readyCommands' = 1 /\ recorder' = conf.record
  BY <1>b, <1>s DEF SetAvailable
<1>1. CASE StaticSourceReadyTimer
  <2>1. /\ Alive /\ HasOnDemandStaticSource /\ readyTimer /\ handler' = "stopped"
        /\ UNCHANGED <<conf, source, streamVars>>
    BY <1>1 DEF StaticSourceReadyTimer, StaticSourceStop, Alive
  <2>2. handler # "ready"
    BY <1>t, <2>1 DEF DemandInv, HasOnDemandStaticSource
  <2> QED
    BY <1>t, <2>1, <2>2 DEF streamVars
<1>2. CASE StaticSourceCloseTimer
  <2>1. /\ Alive /\ SetNotAvailable /\ feeder' = NoOne /\ handler' = "stopped"
        /\ UNCHANGED <<conf, source>> /\ conf.source = "static"
    BY <1>2 DEF StaticSourceCloseTimer, StaticSourceStop, Alive,
       HasOnDemandStaticSource, HasStaticSource
  <2>2. source = "handler"
    BY <2>1 DEF StreamInv, IdleInv, SourceIsStatic
  <2> QED
    BY <1>n, <1>c, <2>1, <2>2
<1>3. CASE PublisherReadyTimer \/ PublisherCloseTimer
  BY <1>3, <1>u DEF PublisherReadyTimer, PublisherCloseTimer, Alive
<1>4. ASSUME NEW ok \in BOOLEAN, SourceStaticSetReady(ok) PROVE FeedInv'
  <2>1. /\ Alive /\ handler = "starting" /\ UNCHANGED <<conf, source>>
        /\ ok \/ conf.alwaysAvailable
        /\ conf.source = "static" /\ source = "handler"
    BY <1>4, <1>i DEF SourceStaticSetReady, SubStreamMayFail, Alive, StreamInv,
       IdleInv, SourceIsStatic
  <2>2. CASE conf.alwaysAvailable
    <3>1. /\ UNCHANGED <<available, readyCommands, recorder>>
          /\ \/ feeder' = "handler" /\ handler' = "ready"
             \/ UNCHANGED <<feeder, handler>>
      BY <1>4, <2>2 DEF SourceStaticSetReady
    <3> QED
      BY <1>t, <1>c, <1>i, <2>1, <2>2, <3>1
  <2>3. CASE ~conf.alwaysAvailable
    <3>1. SetAvailable /\ feeder' = "handler" /\ handler' = "ready"
      BY <1>4, <2>1, <2>3 DEF SourceStaticSetReady
    <3>2. ~available
      BY <2>1, <2>3, StartingHasNoStream
    <3> QED
      BY <1>t, <1>c, <1>s, <2>1, <3>1, <3>2
  <2> QED
    BY <2>2, <2>3
<1>5. CASE SourceStaticSetNotReady
  <2>1. /\ Alive /\ handler = "ready" /\ handler' # "ready"
        /\ UNCHANGED <<conf, source>>
        /\ conf.source = "static" /\ source = "handler"
    BY <1>5, <1>i DEF SourceStaticSetNotReady, StaticSourceStop, Alive, StreamInv,
       IdleInv, SourceIsStatic
  <2>2. CASE conf.alwaysAvailable
    <3>1. feeder' = "offline" /\ UNCHANGED <<available, readyCommands, recorder>>
      BY <1>5, <2>2 DEF SourceStaticSetNotReady
    <3> QED
      BY <1>t, <1>c, <1>i, <2>1, <2>2, <3>1
  <2>3. CASE ~conf.alwaysAvailable
    <3>1. feeder' = NoOne /\ SetNotAvailable
      BY <1>5, <2>3 DEF SourceStaticSetNotReady
    <3> QED
      BY <1>n, <1>c, <2>1, <3>1
  <2> QED
    BY <2>2, <2>3
<1>6. ASSUME NEW r \in Readers, Describe(r) \/ AddReader(r) \/ RemoveReader(r)
      PROVE  FeedInv'
  <2>1. Alive /\ UNCHANGED <<conf, source, streamVars>>
    BY <1>6 DEF Describe, AddReader, RemoveReader, Alive
  <2>2. handler' = "ready" <=> handler = "ready"
    <3>1. \/ UNCHANGED handler
          \/ /\ HasOnDemandStaticSource /\ demand = "initial"
             /\ handler' = "starting"
      BY <1>6 DEF Describe, AddReader, RemoveReader, StartOnDemand, startVars
    <3>2. HasOnDemandStaticSource /\ demand = "initial" => handler # "ready"
      BY <1>t, <2>1 DEF DemandInv
    <3> QED
      BY <3>1, <3>2
  <2> QED
    BY <1>t, <2>1, <2>2 DEF streamVars
<1>7. ASSUME NEW p \in Publishers, NEW ok \in BOOLEAN, AddPublisher(p, ok)
      PROVE  FeedInv'
  <2> DEFINE replaced == {q \in Publishers : q = source}
  <2>1. /\ Alive /\ conf.source = "publisher" /\ UNCHANGED <<conf, handler>>
        /\ ok \/ conf.alwaysAvailable
        /\ handler # "ready"
    BY <1>7, <1>i DEF AddPublisher, Alive, SubStreamMayFail, startVars
  <2>2. CASE conf.alwaysAvailable
    <3>1. /\ UNCHANGED <<available, readyCommands, recorder>>
          /\ \/ source' = p /\ feeder' = p
             \/ source' = NoOne /\ feeder' = "offline"
      BY <1>7, <2>2 DEF AddPublisher
    <3> QED
      BY <1>t, <1>c, <1>i, <2>1, <2>2, <3>1
  <2>3. CASE ~conf.alwaysAvailable
    <3>1. ok /\ source' = p /\ feeder' = p
      BY <1>7, <2>1, <2>3 DEF AddPublisher
    <3>2. available' /\ recorder' = conf.record /\ readyCommands' = 1
      <4>1. CASE replaced = {}
        <5>1. SetAvailable
          BY <1>7, <2>3, <4>1 DEF AddPublisher
        <5>2. source = NoOne
          BY <1>t, <2>1, <4>1
        <5> QED
          BY <1>s, <2>1, <2>3, <5>1, <5>2, StartingHasNoStream
      <4>2. CASE replaced # {}
        <5>1. available' /\ recorder' = conf.record /\ UNCHANGED readyCommands
          BY <1>7, <2>3, <4>2 DEF AddPublisher
        <5>2. available
          BY <1>t, <1>c, <2>1, <4>2
        <5> QED
          BY <1>b, <2>1, <5>1, <5>2
      <4> QED
        BY <4>1, <4>2
    <3> QED
      BY <1>c, <2>1, <3>1, <3>2
  <2> QED
    BY <2>2, <2>3
<1>8. ASSUME NEW p \in Publishers, RemovePublisher(p) PROVE FeedInv'
  <2>1. Alive /\ UNCHANGED <<conf, handler>>
    BY <1>8 DEF RemovePublisher, Alive, startVars
  <2>2. CASE source # p
    BY <1>8, <1>u, <2>1, <2>2 DEF RemovePublisher
  <2>3. CASE source = p
    <3>1. source' = NoOne /\ conf.source = "publisher" /\ handler # "ready"
          /\ ExecuteRemovePublisher
      BY <1>t, <1>c, <1>8, <1>i, <2>3, ConfKinds
         DEF RemovePublisher, ExecuteRemovePublisher, StreamInv, IdleInv,
             SourceIsStatic
    <3>2. CASE conf.alwaysAvailable
      <4>1. feeder' = "offline" /\ UNCHANGED <<available, recorder, readyCommands>>
        BY <3>1, <3>2 DEF ExecuteRemovePublisher
      <4> QED
        BY <1>t, <1>c, <1>i, <2>1, <3>1, <3>2, <4>1
    <3>3. CASE ~conf.alwaysAvailable
      BY <1>n, <1>c, <2>1, <3>1, <3>3 DEF ExecuteRemovePublisher
    <3> QED
      BY <3>2, <3>3
  <2> QED
    BY <2>2, <2>3
<1>9. ASSUME NEW c \in Confs, ReloadConf(c) PROVE FeedInv'
  <2>1. /\ conf'.source = conf.source
        /\ conf'.alwaysAvailable = conf.alwaysAvailable /\ conf' = c
        /\ UNCHANGED <<source, available, feeder, readyCommands, handler>>
        /\ Alive
    BY <1>9, <1>t, ReloadKeeps DEF startVars, Alive
  <2>2. recorder' = IF available THEN c.record ELSE "off"
    <3>1. recorder' = RecorderAfterReload(c)
      BY <1>9 DEF ReloadConf
    <3> QED
      BY <1>b, <2>1, <3>1 DEF RecorderAfterReload
  <2>3. readers' = readers
    BY <1>9 DEF ReloadConf
  <2> QED
    BY <1>t, <2>1, <2>2, <2>3
<1>10. CASE Destroy
  <2>1. ~Alive' /\ feeder' = NoOne /\ UNCHANGED <<conf, source>>
    BY <1>10 DEF Destroy, Alive
  <2> QED
    BY <1>t, <1>c, <2>1
<1>11. CASE ClientStep
  BY <1>11, <1>u, ClientStepKeeps DEF startVars
<1> QED
  BY <1>1, <1>2, <1>3, <1>4, <1>5, <1>6, <1>7, <1>8, <1>9, <1>10, <1>11,
     StepKinds

-----------------------------------------------------------------------------
(* The end of the path, and its readers.                                   *)

(* Only a closed path ends, and a closed path is given to nobody.          *)
LEMMA EndStep ==
  ASSUME StreamInv, [Next]_vars PROVE (EndedIsClosed /\ NothingSurvives)'
<1>t. TypeOK /\ DemandInv /\ EndedIsClosed /\ NothingSurvives
      /\ ReadersAgree /\ PublishersAgree /\ ReadersHaveStream
  BY DEF StreamInv, IdleInv, ClientsInv, PendingInv
<1> SUFFICES ASSUME phase' = "destroyed"
             PROVE  EndedIsClosed' /\ NothingSurvives'
  BY DEF EndedIsClosed, NothingSurvives
<1>1. CASE Destroy
  <2>1. /\ ~Open' /\ readers' = {} /\ ~command' /\ Alive
    BY <1>1 DEF Destroy, Open, Alive
  <2>2. ~available' /\ readyCommands' = 0 /\ recorder' = "off"
    <3>1. CASE available
      BY <1>1, <2>1, <3>1 DEF Destroy, SetNotAvailable, StreamInv, FeedInv
    <3>2. CASE ~available
      BY <1>1, <2>1, <3>2 DEF Destroy, StreamInv, FeedInv
    <3> QED
      BY <3>1, <3>2
  <2>3. handler' \in {"none", "stopped"}
    BY <1>t, <1>1, <2>1 DEF Destroy, HandlerToStop, DemandInv, HasStaticSource,
       HasOnDemandStaticSource, TypeOK
  <2>4. \A r \in Readers : readerState'[r] # "reading" /\ ~Waiting(r)'
    <3>1. \A r \in Readers : readerState'[r] # "reading"
      BY <1>t, <1>1 DEF Destroy, AfterClose, ReadersAgree, ReadersHaveStream
    <3>2. NobodyForgotten' /\ HoldSet' = {} /\ describesOnHold' = {}
      <4>1. NobodyForgotten'
        BY HoldStep DEF StreamInv, IdleInv
      <4> QED
        BY <1>1, <4>1 DEF Destroy, HoldSet
    <3> QED
      BY <3>1, <3>2 DEF NobodyForgotten, Waiting
  <2>5. \A p \in Publishers : publisherState'[p] # "publishing"
    BY <1>t, <1>1 DEF Destroy, PublishersAgree
  <2> QED
    BY <2>1, <2>2, <2>3, <2>4, <2>5 DEF EndedIsClosed, NothingSurvives
<1>2. ASSUME ~Destroy PROVE phase = "destroyed"
  BY <1>2, StepKinds DEF StaticSourceReadyTimer, StaticSourceCloseTimer,
     PublisherReadyTimer, PublisherCloseTimer, SourceStaticSetReady,
     SourceStaticSetNotReady, Describe, AddReader, RemoveReader, AddPublisher,
     RemovePublisher, ReloadConf, EndNoCheck, EndWithCheck, ClientStep,
     ReaderGetsPath, ReaderLeaves, ReaderCallCancelled, OnlyReader,
     RejectPublisher, PublisherGetsPath, PublisherLeaves,
     PublisherCallCancelled, OnlyPublisher, AnswerCloseIfIdle,
     DecideCloseIfIdle, AbandonCloseIfIdle, Terminate, vars
<1>3. CASE phase = "destroyed"
  <2>1. ClientStep /\ ~Open
    BY <1>t, <1>3, StepKinds DEF StaticSourceReadyTimer, StaticSourceCloseTimer,
       PublisherReadyTimer, PublisherCloseTimer, SourceStaticSetReady,
       SourceStaticSetNotReady, Describe, AddReader, RemoveReader,
       AddPublisher, RemovePublisher, ReloadConf, Destroy, EndedIsClosed
  <2>2. ~Open' /\ UNCHANGED <<readers, streamVars, startVars>>
    BY <2>1, ClientStepKeeps DEF ClientStep, ReaderGetsPath, ReaderLeaves,
       ReaderCallCancelled, OnlyReader, RejectPublisher, PublisherGetsPath,
       PublisherLeaves, PublisherCallCancelled, OnlyPublisher,
       AnswerCloseIfIdle, DecideCloseIfIdle, AbandonCloseIfIdle, Terminate,
       Open, vars
  <2>3. \/ UNCHANGED readerState
        \/ \E r \in Readers, state \in {"idle", "leaving"} :
             readerState' = [readerState EXCEPT ![r] = state]
    BY <2>1, <1>3 DEF ClientStep, ReaderGetsPath, ReaderLeaves,
       ReaderCallCancelled, OnlyReader, RejectPublisher, PublisherGetsPath,
       PublisherLeaves, PublisherCallCancelled, OnlyPublisher,
       AnswerCloseIfIdle, DecideCloseIfIdle, AbandonCloseIfIdle, Terminate,
       Open, vars, clientVars
  <2>4. \/ UNCHANGED publisherState
        \/ \E p \in Publishers, state \in {"idle", "leaving"} :
             publisherState' = [publisherState EXCEPT ![p] = state]
    BY <2>1, <1>3 DEF ClientStep, ReaderGetsPath, ReaderLeaves,
       ReaderCallCancelled, OnlyReader, RejectPublisher, PublisherGetsPath,
       PublisherLeaves, PublisherCallCancelled, OnlyPublisher,
       AnswerCloseIfIdle, DecideCloseIfIdle, AbandonCloseIfIdle, Terminate,
       Open, vars, clientVars
  <2>5. \A r \in Readers : readerState'[r] # "reading" /\ ~Waiting(r)'
    BY <1>t, <1>3, <2>3 DEF NothingSurvives, Waiting, TypeOK
  <2>6. \A p \in Publishers : publisherState'[p] # "publishing"
    BY <1>t, <1>3, <2>4 DEF NothingSurvives, TypeOK
  <2> QED
    BY <1>t, <1>3, <2>2, <2>5, <2>6
       DEF NothingSurvives, EndedIsClosed, streamVars, startVars
<1> QED
  BY <1>1, <1>2, <1>3

(* Somebody who reads is never held: an admission adds new readers only.   *)
LEMMA AskNothingStep ==
  ASSUME StreamInv, [Next]_vars PROVE ReadersAskNothing'
<1>t. TypeOK /\ NobodyForgotten /\ ReadersAgree
  BY DEF StreamInv, IdleInv, ClientsInv, PendingInv
<1>a. /\ readers \subseteq Readers
      /\ \A r \in readers :
           /\ r \in Readers /\ r \notin HoldSet \cup describesOnHold
           /\ readerState[r] \in {"reading", "leaving", "closed", "idle"}
  BY <1>t DEF TypeOK, NobodyForgotten, StreamInv, ReadersAskNothing
<1>1. CASE Untouched
  BY <1>a, <1>1 DEF Untouched, ReadersAskNothing
<1>2. CASE SomeClosed
  BY <1>a, <1>2 DEF SomeClosed, AfterClose, ReadersAskNothing
<1>3. CASE HeldServed
  <2>1. PICK kept \in SUBSET readers : ConsumeOnHold(kept, readers \ kept)
    BY <1>3 DEF HeldServed
  <2>2. Admitted(kept) \subseteq HoldSet /\ HoldSet \subseteq Readers
    BY <1>t, AdmittedFromHold, HoldSetType DEF TypeOK
  <2>3. \A r \in kept : readerState'[r] \in {"reading", "leaving", "closed", "idle"}
    BY <1>a, <2>1 DEF ConsumeOnHold, AfterClose
  <2>4. \A r \in Admitted(kept) : readerState'[r] = "reading"
    BY <2>1, <2>2 DEF ConsumeOnHold
  <2> QED
    BY <2>1, <2>3, <2>4 DEF ConsumeOnHold, ReadersAskNothing
<1>4. CASE HeldRefused
  BY <1>a, <1>4 DEF HeldRefused, FailOnHold, ReadersAskNothing
<1>5. CASE Destroy
  BY <1>5 DEF Destroy, ReadersAskNothing
<1>6. ASSUME NEW r \in Readers, PutOnHold(r) PROVE ReadersAskNothing'
  BY <1>t, <1>a, <1>6 DEF PutOnHold, ReadersAskNothing, TypeOK
<1>7. ASSUME NEW r \in Readers, Joins(r) PROVE ReadersAskNothing'
  BY <1>t, <1>a, <1>7 DEF Joins, ReadersAskNothing, TypeOK
<1>8. ASSUME NEW r \in Readers, Moves(r) PROVE ReadersAskNothing'
  <2>1. /\ UNCHANGED readers
        /\ \E state \in {"describing", "adding", "idle", "leaving"} :
             /\ readerState' = [readerState EXCEPT ![r] = state]
             /\ state \in {"describing", "adding"} =>
                  readerState[r] = "idle" /\ Open
    BY <1>8 DEF Moves, Open
  <2>2. Open /\ readerState[r] = "idle" => r \notin readers
    BY <1>t DEF ReadersAgree
  <2> QED
    BY <1>t, <1>a, <2>1, <2>2 DEF ReadersAskNothing, TypeOK
<1>9. ASSUME NEW r \in Readers, Parts(r) PROVE ReadersAskNothing'
  <2>1. /\ readers' \subseteq readers
        /\ readerState' = [readerState EXCEPT ![r] = "idle"]
    BY <1>9 DEF Parts
  <2> QED
    BY <1>t, <1>a, <2>1 DEF ReadersAskNothing, TypeOK
<1> QED
  BY <1>t, <1>1, <1>2, <1>3, <1>4, <1>5, <1>6, <1>7, <1>8, <1>9, ReaderEffects

(* Only a path made by a regular expression is released, and what it is    *)
(* made by does not change: no reload among those considered changes it.   *)
(* (The code lets a hot reload do so and does not ask again: path.go,      *)
(* doReloadConf.)                                                          *)
RegexpIsKept == \A c, d \in Confs :
  (\E rx \in BOOLEAN, rec \in RecordFormats :
      d = [c EXCEPT !.regexp = rx, !.record = rec])
    => d.regexp = c.regexp

LEMMA ReleaseStep ==
  ASSUME StreamInv, DynamicPathReleased, RegexpIsKept, [Next]_vars
  PROVE  DynamicPathReleased'
<1>t. TypeOK /\ PendingInv
  BY DEF StreamInv, IdleInv, ClientsInv, PendingInv
<1> SUFFICES ASSUME phase' = "running", ctx' = "open", ShouldClose'
             PROVE  pendingRequests' > 0
  BY DEF DynamicPathReleased
<1>u. ASSUME phase = "running", ctx = "open", ShouldClose,
             UNCHANGED pendingRequests
      PROVE  pendingRequests' > 0
  BY <1>u DEF DynamicPathReleased
<1>w. ~EndWithCheck
  BY DEF EndWithCheck
<1>1. CASE PublisherCloseTimer
  BY <1>1, <1>u DEF PublisherCloseTimer, ShouldClose, holdVars
<1>2. ASSUME NEW ok \in BOOLEAN, SourceStaticSetReady(ok) PROVE FALSE
  <2>1. conf.source = "static" /\ UNCHANGED source
    BY <1>2 DEF SourceStaticSetReady, StreamInv, DemandInv, HasStaticSource
  <2> QED
    BY <2>1 DEF StreamInv, IdleInv, SourceIsStatic, ShouldClose, NoOne
<1>3. ASSUME NEW r \in Readers, RemoveReader(r) PROVE pendingRequests' > 0
  <2>1. /\ conf.regexp /\ source = NoOne
        /\ phase = "running" /\ ctx = "open" /\ describesOnHold = {}
        /\ readersOnHold = <<>> /\ UNCHANGED pendingRequests
    BY <1>3 DEF RemoveReader, ShouldClose, holdVars
  <2>2. readers = {}
    BY <1>t, <2>1, ConfKinds DEF StreamInv, IdleInv, StreamHasSource,
       ClientsInv, ReadersHaveStream
  <2> QED
    BY <2>1, <2>2, <1>u DEF ShouldClose
<1>4. ASSUME NEW c \in Confs, ReloadConf(c) PROVE pendingRequests' > 0
  <2>1. /\ phase = "running" /\ ctx = "open"
        /\ UNCHANGED <<pendingRequests, source, readers, holdVars>>
    BY <1>4 DEF ReloadConf
  <2>2. conf'.regexp = conf.regexp
    BY <1>t, <1>4 DEF ReloadConf, HotReload, TypeOK, RegexpIsKept
  <2> QED
    BY <2>1, <2>2, <1>u DEF ShouldClose, holdVars
<1>5. CASE DecideCloseIfIdle
  BY <1>t, <1>5 DEF DecideCloseIfIdle, TypeOK
<1>6. ASSUME NEW r \in Readers, ReaderGetsPath(r) PROVE pendingRequests' > 0
  BY <1>t, <1>6 DEF ReaderGetsPath, TypeOK
<1>7. ASSUME NEW p \in Publishers, PublisherGetsPath(p)
      PROVE  pendingRequests' > 0
  BY <1>t, <1>7 DEF PublisherGetsPath, TypeOK
<1>8. ASSUME \/ \E r \in Readers : ReaderLeaves(r) \/ ReaderCallCancelled(r)
             \/ \E p \in Publishers : PublisherLeaves(p) \/ PublisherCallCancelled(p)
             \/ UNCHANGED vars
      PROVE  pendingRequests' > 0
  <2>1. UNCHANGED <<conf, phase, ctx, pendingRequests, source, readers, holdVars>>
    BY <1>8 DEF ReaderLeaves, ReaderCallCancelled, OnlyReader, PublisherLeaves,
       PublisherCallCancelled, OnlyPublisher, vars
  <2> QED
    BY <2>1, <1>u DEF ShouldClose, holdVars
<1>9. ASSUME \/ StaticSourceReadyTimer \/ StaticSourceCloseTimer
             \/ PublisherReadyTimer \/ SourceStaticSetNotReady
             \/ \E r \in Readers : Describe(r) \/ AddReader(r)
             \/ \E p \in Publishers : \/ \E ok \in BOOLEAN : AddPublisher(p, ok)
                                      \/ RemovePublisher(p) \/ RejectPublisher(p)
      PROVE  FALSE
  BY <1>9, <1>w DEF StaticSourceReadyTimer, StaticSourceCloseTimer,
     PublisherReadyTimer, SourceStaticSetNotReady, Describe, AddReader,
     AddPublisher, RemovePublisher, RejectPublisher
<1>10. ASSUME AnswerCloseIfIdle \/ AbandonCloseIfIdle \/ Terminate \/ Destroy
       PROVE  FALSE
  BY <1>10 DEF AnswerCloseIfIdle, AbandonCloseIfIdle, Terminate, Destroy, Open
<1> QED
  BY <1>1, <1>2, <1>3, <1>4, <1>5, <1>6, <1>7, <1>8, <1>9, <1>10, StepKinds
     DEF ClientStep

-----------------------------------------------------------------------------
(* The theorems.                                                           *)
LEMMA StreamInit ==
  ASSUME Init PROVE StreamInv
<1>1. IdleInv
  BY IdleInit
<1>2. TypeOK
  BY <1>1 DEF IdleInv, ClientsInv, PendingInv
<1>3. conf.source = "static" => ~(conf.onDemand /\ conf.alwaysAvailable)
  BY <1>2, ConfKinds
<1>4. DemandInv
  <2>1. /\ demand = "initial" /\ ~readyTimer /\ ~closeTimer /\ ~command /\ ~panicked
    BY DEF Init
  <2>2. /\ ~HasStaticSource => handler = "none"
        /\ HasOnDemandStaticSource => handler = "stopped"
        /\ HasStaticSource /\ ~conf.onDemand => handler = "starting"
    BY DEF Init, HasStaticSource, HasOnDemandStaticSource
  <2>3. HasStaticSource => handler \in {"stopped", "starting"}
    BY <1>2, <2>2, ConfKinds DEF HasOnDemandStaticSource
  <2> QED
    BY <2>1, <2>2, <2>3 DEF DemandInv, HasOnDemandStaticSource
<1>5. FeedInv
  <2>1. /\ conf.source = "publisher" => source = NoOne
        /\ conf.source = "static" => source = "handler"
        /\ conf.source = "redirect" => source = "redirect"
        /\ handler # "ready"
    BY DEF Init, HasStaticSource, HasOnDemandStaticSource
  <2>2. /\ NoOne \notin Publishers /\ "handler" \notin Publishers
        /\ "redirect" \notin Publishers /\ "offline" \notin Publishers
        /\ NoOne \notin {"handler", "redirect", "offline"}
    BY ClientsAssumption DEF NoOne
  <2> QED
    BY <1>2, <2>1, <2>2, ConfKinds DEF Init, FeedInv
<1>6. EndedIsClosed /\ NothingSurvives /\ ReadersAskNothing
  BY DEF Init, EndedIsClosed, NothingSurvives, ReadersAskNothing
<1> QED
  BY <1>1, <1>4, <1>5, <1>6 DEF StreamInv

LEMMA StreamInvStep ==
  ASSUME StreamInv, DecoderErrors = FALSE, [Next]_vars PROVE StreamInv'
BY IdleInvStep, DemandStep, FeedStep, EndStep, AskNothingStep DEF StreamInv

(* path.go, onDemandStaticSourceStart to onDemandPublisherStop: whatever   *)
(* the order of requests, timers, reloads and failures, what was started   *)
(* on demand runs exactly while it is demanded, each timer runs in its     *)
(* state only, no source is stopped under a reader and none of the panics  *)
(* of the handler is reached.                                              *)
THEOREM DemandCorrect ==
  ASSUME DecoderErrors = FALSE
  PROVE  Spec => []DemandAgrees
<1>1. StreamInv => DemandAgrees
  BY DEF StreamInv, IdleInv, ClientsInv, PendingInv, TypeOK, DemandInv,
     DemandAgrees, NoPanic, TimersMatchDemand, StartedIffDemanded,
     HasOnDemandStaticSource, HasOnDemandPublisher
<1> QED
  BY <1>1, StreamInit, StreamInvStep, PTL DEF Spec

(* path.go, setAvailable, setNotAvailable and run: readers are attached to *)
(* a stream that its source feeds, the recorder and the runOnReady command *)
(* are there exactly while the stream is, and nothing of them is left when *)
(* the path has ended.                                                     *)
THEOREM FeedCorrect ==
  ASSUME DecoderErrors = FALSE
  PROVE  Spec => [](ReadersHaveFedStream /\ CompanionsMatchStream /\ NothingSurvives)
<1>1. StreamInv => ReadersHaveFedStream /\ CompanionsMatchStream /\ NothingSurvives
  BY DEF StreamInv, IdleInv, ClientsInv, ReadersHaveStream, FeedInv,
     ReadersHaveFedStream, CompanionsMatchStream
<1> QED
  BY <1>1, StreamInit, StreamInvStep, PTL DEF Spec

(* path.go, shouldClose: all of that, and a path made by a regular         *)
(* expression that nobody uses is being closed or was just given to a      *)
(* client, as long as no reload changes what it was made by.               *)
THEOREM StreamCorrect ==
  ASSUME DecoderErrors = FALSE, RegexpIsKept
  PROVE  Spec => []StreamAgrees
<1>1. Init => DynamicPathReleased
  BY DEF Init, DynamicPathReleased, ShouldClose
<1>2. StreamInv /\ DynamicPathReleased /\ [Next]_vars => DynamicPathReleased'
  BY ReleaseStep
<1>3. Spec => [](ReadersHaveFedStream /\ CompanionsMatchStream /\ NothingSurvives)
  BY FeedCorrect
<1>4. Spec => []DynamicPathReleased
  BY <1>1, <1>2, StreamInit, StreamInvStep, PTL DEF Spec
<1> QED
  BY <1>3, <1>4, PTL DEF StreamAgrees

-----------------------------------------------------------------------------
(* Who stays attached.                                                     *)
LEMMA FollowStep ==
  ASSUME StreamInv, DecoderErrors = FALSE, [Next]_vars,
         ~conf.alwaysAvailable, feeder # NoOne, feeder' # feeder
  PROVE  readers \cap readers' = {}
<1>t. TypeOK /\ FeedInv /\ NobodyForgotten /\ StreamHasSource
  BY DEF StreamInv, IdleInv, ClientsInv, PendingInv
<1>1. CASE StaticSourceCloseTimer \/ SourceStaticSetNotReady
  BY <1>1 DEF StaticSourceCloseTimer, SourceStaticSetNotReady, CloseReaders
<1>2. ASSUME NEW ok \in BOOLEAN, SourceStaticSetReady(ok) PROVE FALSE
  BY <1>t, <1>2, StartingHasNoStream DEF SourceStaticSetReady, Alive, FeedInv
<1>3. ASSUME NEW p \in Publishers, NEW ok \in BOOLEAN, AddPublisher(p, ok)
      PROVE  readers \cap readers' = {}
  <2>1. Alive /\ available /\ conf.source = "publisher" /\ ok
    BY <1>t, <1>3 DEF AddPublisher, Alive, FeedInv, SubStreamMayFail
  <2>2. {q \in Publishers : q = source} # {}
    BY <1>t, <2>1 DEF FeedInv, StreamHasSource
  <2>3. readers \ readers = {}
    OBVIOUS
  <2>4. ConsumeOnHold({}, readers)
    BY <1>3, <2>1, <2>2, <2>3 DEF AddPublisher
  <2>5. readers' \subseteq HoldSet
    BY <2>4, AdmittedFromHold DEF ConsumeOnHold
  <2> QED
    BY <1>t, <2>5 DEF NobodyForgotten, StreamInv, ReadersAskNothing
<1>4. ASSUME NEW p \in Publishers, RemovePublisher(p)
      PROVE  readers \cap readers' = {}
  BY <1>4 DEF RemovePublisher, ExecuteRemovePublisher, CloseReaders, streamVars
<1>5. CASE Destroy
  BY <1>5 DEF Destroy
<1>6. ASSUME \/ StaticSourceReadyTimer \/ PublisherReadyTimer
             \/ PublisherCloseTimer
             \/ \E r \in Readers : Describe(r) \/ AddReader(r) \/ RemoveReader(r)
             \/ \E c \in Confs : ReloadConf(c)
      PROVE  feeder' = feeder
  BY <1>6 DEF StaticSourceReadyTimer, PublisherReadyTimer, PublisherCloseTimer,
     Describe, AddReader, RemoveReader, ReloadConf, streamVars
<1>7. CASE ClientStep
  BY <1>7, ClientStepKeeps DEF streamVars
<1> QED
  BY <1>1, <1>2, <1>3, <1>4, <1>5, <1>6, <1>7, StepKinds

LEMMA KeepStep ==
  ASSUME StreamInv, [Next]_vars, conf.alwaysAvailable, Alive'
  PROVE  /\ available'
         /\ \A r \in readers : readerState[r] = "reading" => r \in readers'
<1>t. TypeOK /\ ReadersHaveStream'
  BY StreamStep DEF StreamInv, IdleInv, ClientsInv, PendingInv
<1>1. ~HasOnDemandStaticSource
  BY <1>t, ConfKinds DEF HasOnDemandStaticSource
<1>2. conf'.alwaysAvailable = conf.alwaysAvailable
  <2>1. ASSUME NEW c \in Confs, ReloadConf(c)
        PROVE  conf'.alwaysAvailable = conf.alwaysAvailable
    BY <1>t, <2>1, ReloadKeeps
  <2>2. CASE ClientStep
    BY <2>2, ClientStepKeeps
  <2> QED
    BY <2>1, <2>2, StepKinds DEF StaticSourceReadyTimer, StaticSourceCloseTimer,
       PublisherReadyTimer, PublisherCloseTimer, SourceStaticSetReady,
       SourceStaticSetNotReady, Describe, AddReader, RemoveReader,
       AddPublisher, RemovePublisher, Destroy
<1>3. ASSUME \/ StaticSourceReadyTimer \/ StaticSourceCloseTimer
             \/ PublisherReadyTimer \/ PublisherCloseTimer
             \/ \E ok \in BOOLEAN : SourceStaticSetReady(ok)
             \/ SourceStaticSetNotReady
             \/ \E r \in Readers : Describe(r) \/ AddReader(r)
             \/ \E p \in Publishers : \/ \E ok \in BOOLEAN : AddPublisher(p, ok)
                                      \/ RemovePublisher(p)
             \/ \E c \in Confs : ReloadConf(c)
      PROVE  readers \subseteq readers'
  <2>1. ASSUME NEW p \in Publishers, NEW ok \in BOOLEAN, AddPublisher(p, ok)
        PROVE  readers \subseteq readers'
    <3>1. readers \ {} = readers
      OBVIOUS
    <3>2. readers' = readers \/ ConsumeOnHold(readers, {})
      BY <2>1, <3>1 DEF AddPublisher
    <3> QED
      BY <3>2 DEF ConsumeOnHold
  <2>2. ASSUME NEW ok \in BOOLEAN, SourceStaticSetReady(ok)
        PROVE  readers \subseteq readers'
    BY <2>2 DEF SourceStaticSetReady, ConsumeOnHold
  <2>3. ASSUME NEW r \in Readers, Describe(r) \/ AddReader(r)
        PROVE  readers \subseteq readers'
    BY <2>3 DEF Describe, AddReader, AddReaderPost
  <2>4. ASSUME NEW p \in Publishers, RemovePublisher(p)
        PROVE  readers \subseteq readers'
    BY <2>4 DEF RemovePublisher, ExecuteRemovePublisher
  <2>5. ASSUME \/ StaticSourceReadyTimer \/ StaticSourceCloseTimer
               \/ PublisherReadyTimer \/ PublisherCloseTimer
               \/ SourceStaticSetNotReady \/ \E c \in Confs : ReloadConf(c)
        PROVE  readers \subseteq readers'
    BY <1>1, <2>5 DEF StaticSourceReadyTimer, StaticSourceCloseTimer,
       PublisherReadyTimer, PublisherCloseTimer, SourceStaticSetNotReady,
       ReloadConf
  <2> QED
    BY <1>3, <2>1, <2>2, <2>3, <2>4, <2>5
<1>4. ASSUME NEW r \in Readers, RemoveReader(r)
      PROVE  readerState[r] = "leaving" /\ readers' = readers \ {r}
  BY <1>4 DEF RemoveReader
<1>5. ASSUME ClientStep PROVE readers' = readers
  BY <1>5, ClientStepKeeps
<1>6. ~Destroy
  BY DEF Destroy, Alive
<1> QED
  BY <1>t, <1>2, <1>3, <1>4, <1>5, <1>6, StepKinds DEF ReadersHaveStream

(* path.go, executeRemovePublisher, setNotAvailable and the handlers of the *)
(* static source: no reader of a stream that ended stays attached to what  *)
(* comes after it, and an always available path keeps every reader that    *)
(* does not leave by itself.                                               *)
THEOREM KeptCorrect ==
  ASSUME DecoderErrors = FALSE
  PROVE  Spec => ReadersAreKept
<1>1. StreamInv /\ [Next]_vars =>
        [~conf.alwaysAvailable /\ feeder # NoOne /\ feeder' # feeder
           => readers \cap readers' = {}]_vars
  BY FollowStep
<1>2. StreamInv /\ [Next]_vars =>
        [conf.alwaysAvailable /\ Alive'
           => /\ available'
              /\ \A r \in readers : readerState[r] = "reading" => r \in readers'
        ]_vars
  BY KeepStep
<1> QED
  BY <1>1, <1>2, StreamInit, StreamInvStep, PTL
     DEF Spec, ReadersAreKept, ReadersFollowStream, AlwaysAvailableKeepsReaders
=============================================================================
