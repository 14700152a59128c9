---------------------------- MODULE SourcesProofs ----------------------------
(***************************************************************************)
(* Proofs about the static sources: the handler with its abstract calls of *)
(* Run (SourceHandler), that it runs one at a time, feeds the stream of    *)
(* the path and reloads a lasting source; the calls of every protocol      *)
(* (StaticSources, WhepSource), that they leave nothing behind but what is *)
(* named; the contract in which the two meet (SourceRun), step by step     *)
(* from each side; and all of them together.                               *)
(***************************************************************************)
EXTENDS MCSources, FiniteSetTheorems, TLAPS

-----------------------------------------------------------------------------
(* A source runs once, for any kinds of sources, identities of runs and    *)
(* number of reloads.                                                      *)

RunTypes ==
  /\ running \in BOOLEAN /\ ctx \in BOOLEAN /\ recreating \in BOOLEAN
  /\ instance \in [Runs -> {"off", "spawned", "connecting", "readyCall",
                            "readyWait", "streaming", "notReadyCall",
                            "notReadyWait", "returning"}]

(* At most one call of Run is alive, none while the timer of the retry     *)
(* runs or run() does not.                                                 *)
OneAlive == \A i, j \in Runs : instance[i] # "off" /\ instance[j] # "off" => i = j
NoneWhileRetrying == recreating => \A i \in Runs : instance[i] = "off"
NoneWhileOff == run = "off" => \A i \in Runs : instance[i] = "off"

(* run() is gone once Stop has returned: Start finds nothing of the old    *)
(* one.                                                                    *)
OffOnceStopped == path # "stopping" /\ ~running => run = "off"

RunInv == RunTypes /\ OneAlive /\ NoneWhileRetrying /\ NoneWhileOff /\ OffOnceStopped

LEMMA RunInvInit == Init => RunInv
<1> SUFFICES ASSUME Init PROVE RunInv
  OBVIOUS
<1>1. onDemand \in BOOLEAN
  BY HandlerAssumption DEF Init
<1>2. PICK first \in Runs :
        instance = [r \in Runs |-> IF r = first /\ ~onDemand THEN "spawned"
                                   ELSE "off"]
  BY DEF Init
<1>3. RunTypes
  BY <1>1, <1>2 DEF Init, RunTypes
<1>4. OneAlive /\ NoneWhileOff
  BY <1>1, <1>2 DEF Init, OneAlive, NoneWhileOff
<1>5. NoneWhileRetrying /\ OffOnceStopped
  BY <1>1 DEF Init, NoneWhileRetrying, OffOnceStopped
<1> QED
  BY <1>3, <1>4, <1>5 DEF RunInv

(* A call of Run that is alive and stays so changes nothing of RunInv, as  *)
(* long as run() neither ends nor begins.                                  *)
LEMMA RunGoesOn ==
  ASSUME RunInv, NEW r \in Runs, instance[r] # "off",
         NEW state \in {"connecting", "readyCall", "readyWait", "streaming",
                        "notReadyCall", "notReadyWait", "returning"},
         Only(r, state),
         recreating' = recreating, run # "off", run' # "off",
         running' \in BOOLEAN, ctx' \in BOOLEAN,
         path' # "stopping" => running' = running /\ path # "stopping"
  PROVE  RunInv'
<1> USE DEF RunInv
<1>1. RunTypes'
  BY DEF RunTypes, Only
<1>2. \A i \in Runs : instance'[i] # "off" <=> instance[i] # "off"
  BY DEF RunTypes, Only
<1>3. OneAlive' /\ NoneWhileRetrying'
  BY <1>2 DEF OneAlive, NoneWhileRetrying
<1>4. NoneWhileOff'
  BY DEF NoneWhileOff
<1>5. OffOnceStopped'
  BY DEF OffOnceStopped, RunTypes
<1> QED
  BY <1>1, <1>3, <1>4, <1>5

(* A new call of Run, when none is alive.                                  *)
LEMMA RunStarts ==
  ASSUME RunInv, Recreate, \A i \in Runs : instance[i] = "off",
         running' \in BOOLEAN, ctx' \in BOOLEAN,
         recreating' = FALSE, run' # "off",
         path' = "stopping" \/ running'
  PROVE  RunInv'
<1>1. PICK r \in Runs : instance' = [instance EXCEPT ![r] = "spawned"]
  BY DEF Recreate, Only
<1>2. RunTypes'
  BY <1>1 DEF RunInv, RunTypes
<1>3. OneAlive'
  BY <1>1 DEF RunInv, RunTypes, OneAlive
<1> QED
  BY <1>2, <1>3 DEF RunInv, NoneWhileRetrying, NoneWhileOff, OffOnceStopped

(* The only call of Run ends.                                              *)
LEMMA RunIsOver ==
  ASSUME RunInv, NEW r \in Runs, instance[r] # "off", Only(r, "off"),
         UNCHANGED <<running, ctx, path>>, recreating' \in BOOLEAN,
         run # "off"
  PROVE  RunInv'
<1>1. \A i \in Runs : instance'[i] = "off"
  BY DEF RunInv, RunTypes, OneAlive, Only
<1>2. RunTypes'
  BY DEF RunInv, RunTypes, Only
<1>3. OffOnceStopped'
  BY DEF RunInv, OffOnceStopped
<1> QED
  BY <1>1, <1>2, <1>3 DEF RunInv, OneAlive, NoneWhileRetrying, NoneWhileOff

LEMMA PathStepKeeps == ASSUME RunInv, PathStep PROVE RunInv'
<1>1. CASE Start
  <2>1. run = "off"
    BY <1>1 DEF Start, RunInv, OffOnceStopped
  <2>2. \A i \in Runs : instance[i] = "off"
    BY <2>1 DEF RunInv, NoneWhileOff
  <2> QED
    BY <1>1, <2>2, RunStarts DEF Start
<1>2. CASE Stop
  BY <1>2 DEF Stop, StopHandler, runVars, instVars, RunInv, RunTypes,
              OneAlive, NoneWhileRetrying, NoneWhileOff, OffOnceStopped
<1>3. CASE Stopped
  BY <1>3 DEF Stopped, runVars, instVars, startVars, RunInv, RunTypes,
              OneAlive, NoneWhileRetrying, NoneWhileOff, OffOnceStopped
<1>4. CASE ClosePath \/ PathEnds \/ ReloadConf
  BY <1>4 DEF ClosePath, PathEnds, ReloadConf, pathVars, runVars, instVars,
              startVars, RunInv, RunTypes, OneAlive, NoneWhileRetrying,
              NoneWhileOff, OffOnceStopped
<1>5. ASSUME NEW r \in Runs, NEW ok \in BOOLEAN, TakeReady(r, ok) PROVE RunInv'
  <2>1. /\ instance[r] # "off" /\ run # "off" /\ run' # "off"
        /\ recreating' = recreating /\ running' = running /\ ctx' = ctx
        /\ path' = path
    BY <1>5 DEF TakeReady, startVars
  <2>2. Only(r, "streaming") \/ Only(r, "returning")
    BY <1>5 DEF TakeReady
  <2> QED
    BY <2>1, <2>2, RunGoesOn DEF RunInv, RunTypes
<1>6. ASSUME NEW r \in Runs, TakeNotReady(r) PROVE RunInv'
  <2>1. /\ instance[r] # "off" /\ run # "off" /\ run' # "off"
        /\ recreating' = recreating /\ Only(r, "returning")
        /\ path # "stopping"
    BY <1>6 DEF TakeNotReady
  <2>2. \/ running' = FALSE /\ ctx' = FALSE /\ path' = "stopping"
        \/ running' = running /\ ctx' = ctx /\ path' = path
    BY <1>6 DEF TakeNotReady, StopHandler
  <2> QED
    BY <2>1, <2>2, RunGoesOn DEF RunInv, RunTypes
<1> QED
  BY <1>1, <1>2, <1>3, <1>4, <1>5, <1>6 DEF PathStep

LEMMA HandlerStepKeeps == ASSUME RunInv, HandlerStep PROVE RunInv'
<1>1. CASE RecreateTimer
  <2>1. \A i \in Runs : instance[i] = "off"
    BY <1>1 DEF RecreateTimer, RunInv, NoneWhileRetrying
  <2>2. path' = "stopping" \/ running'
    BY <1>1 DEF RecreateTimer, pathVars, startVars, RunInv, OffOnceStopped
  <2> QED
    BY <1>1, <2>1, <2>2, RunStarts
    DEF RecreateTimer, startVars, RunInv, RunTypes
<1>2. CASE Drain
  BY <1>2 DEF Drain, pathVars, startVars, RunInv, RunTypes, OneAlive,
              NoneWhileRetrying, NoneWhileOff, OffOnceStopped
<1>3. ASSUME NEW c \in Configs, TakeConf(c) PROVE RunInv'
  BY <1>3 DEF TakeConf, pathVars, runVars, instVars, startVars, RunInv,
              RunTypes, OneAlive, NoneWhileRetrying, NoneWhileOff,
              OffOnceStopped
<1>4. ASSUME NEW r \in Runs, RunReturned(r) PROVE RunInv'
  BY <1>4, RunIsOver DEF RunReturned, pathVars, startVars
<1>5. ASSUME NEW r \in Runs, Drained(r) PROVE RunInv'
  <2>1. recreating' \in BOOLEAN
    BY <1>5 DEF Drained, RunInv, RunTypes
  <2> QED
    BY <1>5, <2>1, RunIsOver DEF Drained, pathVars, startVars
<1>6. ASSUME NEW r \in Runs, ForwardReady(r) \/ ForwardNotReady(r)
      PROVE RunInv'
  <2>1. /\ instance[r] # "off" /\ run # "off" /\ run' # "off"
        /\ recreating' = recreating /\ running' = running /\ ctx' = ctx
        /\ path' = path
        /\ Only(r, "readyWait") \/ Only(r, "notReadyWait")
    BY <1>6 DEF ForwardReady, ForwardNotReady, startVars, pathVars
  <2> QED
    BY <2>1, RunGoesOn DEF RunInv, RunTypes
<1>7. ASSUME NEW r \in Runs, ForwardAbandoned(r) PROVE RunInv'
  <2>1. /\ instance[r] # "off" /\ run # "off" /\ run' # "off"
        /\ recreating' = recreating /\ running' = running /\ ctx' = ctx
        /\ path' = path
        /\ Only(r, "returning")
    BY <1>7 DEF ForwardAbandoned, startVars, pathVars
  <2> QED
    BY <2>1, RunGoesOn DEF RunInv, RunTypes
<1> QED
  BY <1>1, <1>2, <1>3, <1>4, <1>5, <1>6, <1>7 DEF HandlerStep

LEMMA SourceStepKeeps ==
  ASSUME RunInv, NEW r \in Runs, SourceStep(r) PROVE RunInv'
<1>1. CASE \E c \in Configs : RunTakesConf(r, c)
  BY <1>1 DEF RunTakesConf, pathVars, startVars, runVars, instVars, RunInv,
              RunTypes, OneAlive, NoneWhileRetrying, NoneWhileOff,
              OffOnceStopped
<1>2. CASE RunBegins(r) \/ RunConnects(r) \/ RunFails(r) \/ CallCancelled(r)
  <2>1. instance[r] # "off"
    BY <1>2 DEF RunBegins, RunConnects, RunFails, CallCancelled
  <2>2. run # "off"
    BY <2>1 DEF RunInv, NoneWhileOff
  <2>3. /\ recreating' = recreating /\ running' = running /\ ctx' = ctx
        /\ path' = path /\ run' = run
    BY <1>2 DEF RunBegins, RunConnects, RunFails, CallCancelled, startVars,
                pathVars, runVars
  <2>4. \/ Only(r, "connecting") \/ Only(r, "readyCall")
        \/ Only(r, "notReadyCall") \/ Only(r, "returning")
    BY <1>2 DEF RunBegins, RunConnects, RunFails, CallCancelled
  <2> QED
    BY <2>1, <2>2, <2>3, <2>4, RunGoesOn DEF RunInv, RunTypes
<1> QED
  BY <1>1, <1>2 DEF SourceStep

LEMMA RunInvImplies == RunInv => OneRun
<1> SUFFICES ASSUME RunInv PROVE OneRun
  OBVIOUS
<1>1. Cardinality(Alive) <= 1
  <2>1. CASE Alive = {}
    BY <2>1, FS_EmptySet
  <2>2. CASE Alive # {}
    <3>1. PICK r \in Alive : TRUE
      BY <2>2
    <3>2. Alive = {r}
      BY <3>1 DEF Alive, RunInv, OneAlive
    <3> QED
      BY <3>2, FS_Singleton
  <2> QED
    BY <2>1, <2>2
<1>2. path # "stopping" /\ ~running => Alive = {} /\ run = "off"
  BY DEF RunInv, OffOnceStopped, NoneWhileOff, Alive
<1> QED
  BY <1>1, <1>2 DEF OneRun

LEMMA RunInvStep == ASSUME RunInv, [Next]_vars PROVE RunInv'
<1>1. CASE PathStep \/ HandlerStep
  BY <1>1, PathStepKeeps, HandlerStepKeeps
<1>2. CASE \E r \in Runs : SourceStep(r)
  BY <1>2, SourceStepKeeps
<1>3. CASE UNCHANGED vars
  BY <1>3 DEF vars, pathVars, startVars, runVars, instVars, RunInv, RunTypes,
              OneAlive, NoneWhileRetrying, NoneWhileOff, OffOnceStopped
<1> QED
  BY <1>1, <1>2, <1>3 DEF Next, Ended

(* OneRun holds of every behaviour: across failures, retries, stops and    *)
(* starts, a source runs once at a time, and not after Stop has returned.  *)
THEOREM OneRunCorrect == Spec => []OneRun
BY RunInvInit, RunInvStep, RunInvImplies, PTL DEF Spec

-----------------------------------------------------------------------------
(* Types.                                                                  *)
LEMMA HandlerTypeInit == Init => TypeOK
<1> SUFFICES ASSUME Init PROVE TypeOK
  OBVIOUS
<1>1. RunTypes /\ onDemand \in BOOLEAN
  BY RunInvInit, HandlerAssumption DEF RunInv, Init
<1>2. 1 \in Configs
  BY HandlerAssumption DEF Configs
<1>3. runCtx \in [Runs -> BOOLEAN] /\ runConf \in [Runs -> Configs]
  BY <1>1, <1>2 DEF Init
<1> QED
  BY <1>1, <1>2, <1>3 DEF Init, TypeOK, RunTypes

LEMMA HandlerTypeStep == ASSUME TypeOK, [Next]_vars PROVE TypeOK'
<1>c. ASSUME NEW r \in Runs, NEW state, Only(r, state),
             state \in {"off", "spawned", "connecting", "readyCall",
                        "readyWait", "streaming", "notReadyCall",
                        "notReadyWait", "returning"}
      PROVE  instance' \in [Runs -> {"off", "spawned", "connecting",
                "readyCall", "readyWait", "streaming", "notReadyCall",
                "notReadyWait", "returning"}]
  BY <1>c DEF Only, TypeOK
<1>d. ASSUME Recreate
      PROVE  /\ runCtx' \in [Runs -> BOOLEAN]
             /\ instance' \in [Runs -> {"off", "spawned", "connecting",
                  "readyCall", "readyWait", "streaming", "notReadyCall",
                  "notReadyWait", "returning"}]
  BY <1>d DEF Recreate, Only, TypeOK
<1>1. CASE Start \/ RecreateTimer
  BY <1>1, <1>d DEF Start, RecreateTimer, TypeOK, pathVars, startVars, confVars
<1>2. CASE Stop \/ Stopped \/ ClosePath \/ PathEnds
  <2>1. CASE Stop
    BY <2>1 DEF Stop, StopHandler, TypeOK, runVars, instVars
  <2>2. CASE Stopped
    BY <2>2 DEF Stopped, TypeOK, startVars, runVars, instVars, confVars
  <2>3. CASE ClosePath
    BY <2>3 DEF ClosePath, TypeOK, startVars, runVars, instVars, confVars
  <2>4. CASE PathEnds
    BY <2>4 DEF PathEnds, TypeOK, startVars, runVars, instVars, confVars
  <2> QED
    BY <1>2, <2>1, <2>2, <2>3, <2>4
<1>3. CASE ReloadConf
  <2>1. pathConf' \in Configs
    BY <1>3, HandlerAssumption DEF ReloadConf, Configs, TypeOK
  <2> QED
    BY <1>3, <2>1 DEF ReloadConf, TypeOK, pathVars, startVars, runVars, instVars
<1>4. ASSUME NEW r \in Runs, NEW ok \in BOOLEAN, TakeReady(r, ok) PROVE TypeOK'
  BY <1>4, <1>c DEF TakeReady, TypeOK, startVars, confVars
<1>5. ASSUME NEW r \in Runs, TakeNotReady(r) PROVE TypeOK'
  BY <1>5, <1>c DEF TakeNotReady, StopHandler, TypeOK
<1>6. ASSUME NEW r \in Runs, RunReturned(r) \/ Drained(r) PROVE TypeOK'
  <2>1. /\ Only(r, "off")
        /\ runCtx' = runCtx \/ runCtx' = [runCtx EXCEPT ![r] = FALSE]
        /\ toRun' \subseteq toRun
    BY <1>6 DEF RunReturned, Drained, confVars
  <2>2. instance' \in [Runs -> {"off", "spawned", "connecting", "readyCall",
              "readyWait", "streaming", "notReadyCall", "notReadyWait",
              "returning"}]
    BY <1>c, <2>1
  <2>3. runCtx' \in [Runs -> BOOLEAN] /\ toRun' \subseteq Runs \X Configs
    BY <2>1 DEF TypeOK
  <2>4. /\ run' \in {"off", "select"} /\ recreating' \in BOOLEAN
        /\ UNCHANGED <<kind, onDemand, pathVars, startVars, runConf, pathConf, handlerConf,
                       toHandler, panicked>>
    BY <1>6 DEF RunReturned, Drained, TypeOK, confVars
  <2> QED
    BY <2>2, <2>3, <2>4 DEF TypeOK, pathVars, startVars
<1>7. ASSUME NEW r \in Runs,
             ForwardReady(r) \/ ForwardNotReady(r) \/ ForwardAbandoned(r)
      PROVE  TypeOK'
  BY <1>7, <1>c DEF ForwardReady, ForwardNotReady, ForwardAbandoned, TypeOK,
     pathVars, startVars, confVars
<1>8. ASSUME NEW c \in Configs, TakeConf(c) PROVE TypeOK'
  <2>1. {<<r, c>> : r \in Alive} \subseteq Runs \X Configs
    BY DEF Alive
  <2> QED
    BY <1>8, <2>1 DEF TakeConf, TypeOK, pathVars, startVars, runVars, instVars
<1>9. CASE Drain
  BY <1>9 DEF Drain, TypeOK, pathVars, startVars
<1>10. ASSUME NEW r \in Runs,
              \/ RunBegins(r) \/ RunConnects(r) \/ RunFails(r) \/ CallCancelled(r)
       PROVE  TypeOK'
  <2>1. runConf' \in [Runs -> Configs]
    BY <1>10 DEF RunBegins, RunConnects, RunFails, CallCancelled, TypeOK,
       confVars
  <2>2. \/ Only(r, "connecting") \/ Only(r, "readyCall")
        \/ Only(r, "notReadyCall") \/ Only(r, "returning")
    BY <1>10 DEF RunBegins, RunConnects, RunFails, CallCancelled
  <2>3. instance' \in [Runs -> {"off", "spawned", "connecting", "readyCall",
              "readyWait", "streaming", "notReadyCall", "notReadyWait",
              "returning"}]
    BY <1>c, <2>2
  <2>4. /\ panicked' \in BOOLEAN
        /\ UNCHANGED <<kind, onDemand, pathVars, startVars, runVars, runCtx,
                       pathConf, handlerConf, toHandler, toRun>>
    BY <1>10 DEF RunBegins, RunConnects, RunFails, CallCancelled, TypeOK,
       confVars
  <2> QED
    BY <2>1, <2>3, <2>4 DEF TypeOK, pathVars, startVars, runVars
<1>11. ASSUME NEW r \in Runs, NEW c \in Configs, RunTakesConf(r, c) PROVE TypeOK'
  BY <1>11 DEF RunTakesConf, TypeOK, pathVars, startVars, runVars, instVars
<1>12. CASE UNCHANGED vars
  BY <1>12 DEF vars, TypeOK, pathVars, startVars, runVars, instVars, confVars
<1> QED
  BY <1>1, <1>2, <1>3, <1>4, <1>5, <1>6, <1>7, <1>8, <1>9, <1>10, <1>11, <1>12
     DEF Next, PathStep, HandlerStep, SourceStep, Ended

(* Type correctness of the handler (handler.go, its fields and channels).  *)
THEOREM HandlerTypeCorrect == Spec => []TypeOK
BY HandlerTypeInit, HandlerTypeStep, PTL DEF Spec

-----------------------------------------------------------------------------
(* The stream of the path.                                                 *)

Feeding(r) == instance[r] \in {"streaming", "notReadyCall", "notReadyWait"}

(* The context is open exactly while the handler runs, and with it ends    *)
(* whatever the path had of the source.                                    *)
FedInv ==
  /\ TypeOK /\ RunInv
  /\ kind # "secondary"
  /\ ctx = running
  /\ StreamIsFed

(* A step that takes no run out of feeding. *)
LEMMA StillFed ==
  ASSUME FedInv, UNCHANGED <<running, ctx, ready, doubled, kind>>,
         pathClosed => pathClosed',
         ready /\ ~pathClosed /\ ~pathClosed' =>
           \A r \in Runs : Feeding(r) => Feeding(r)'
  PROVE  (kind # "secondary" /\ ctx = running /\ StreamIsFed)'
BY DEF FedInv, StreamIsFed, Feeding, TypeOK

LEMMA FedStep ==
  ASSUME FedInv, [Next]_vars
  PROVE  (kind # "secondary" /\ ctx = running /\ StreamIsFed)'
<1>t. TypeOK /\ RunInv /\ ctx = running /\ StreamIsFed /\ kind # "secondary"
      /\ pathClosed \in BOOLEAN /\ running \in BOOLEAN /\ ready \in BOOLEAN
  BY DEF FedInv, TypeOK
<1>c. ASSUME NEW r \in Runs, NEW state, Only(r, state)
      PROVE  /\ instance'[r] = state
             /\ \A i \in Runs : i # r => instance'[i] = instance[i]
  BY <1>t, <1>c DEF Only, TypeOK
<1>1. CASE Start \/ RecreateTimer
  <2>1. PICK r \in Runs : instance[r] = "off" /\ Only(r, "spawned")
    BY <1>1 DEF Start, RecreateTimer, Recreate
  <2>2. \A i \in Runs : Feeding(i) => Feeding(i)'
    BY <1>c, <2>1 DEF Feeding
  <2>3. CASE Start
    <3>1. /\ ~running /\ running' /\ ctx' = running'
          /\ UNCHANGED <<kind, ready, doubled, pathClosed>>
      BY <1>t, <2>3 DEF Start, pathVars
    <3> QED
      BY <1>t, <3>1 DEF StreamIsFed
  <2>4. CASE RecreateTimer
    BY <2>2, <2>4, StillFed DEF RecreateTimer, startVars, pathVars
  <2> QED
    BY <1>1, <2>3, <2>4
<1>2. CASE Stop
  BY <1>t, <1>2 DEF Stop, StopHandler, StreamIsFed
<1>3. CASE Stopped \/ ClosePath \/ PathEnds \/ ReloadConf \/ Drain
           \/ (\E c \in Configs : TakeConf(c))
           \/ (\E r \in Runs, c \in Configs : RunTakesConf(r, c))
           \/ UNCHANGED vars
  <2>1. /\ UNCHANGED <<running, ctx, ready, doubled, kind, instance>>
        /\ pathClosed => pathClosed'
    <3>1. CASE Stopped \/ ClosePath \/ PathEnds \/ ReloadConf
      BY <3>1 DEF Stopped, ClosePath, PathEnds, ReloadConf, pathVars, startVars,
         instVars
    <3>2. CASE Drain
      BY <3>2 DEF Drain, pathVars, startVars
    <3>3. CASE \E c \in Configs : TakeConf(c)
      BY <3>3 DEF TakeConf, pathVars, startVars, instVars
    <3>4. CASE \E r \in Runs, c \in Configs : RunTakesConf(r, c)
      BY <3>4 DEF RunTakesConf, pathVars, startVars, instVars
    <3>5. CASE UNCHANGED vars
      BY <3>5 DEF vars, pathVars, startVars, instVars
    <3> QED
      BY <1>3, <3>1, <3>2, <3>3, <3>4, <3>5
  <2> QED
    BY <2>1, StillFed DEF Feeding
<1>4. ASSUME NEW r \in Runs, NEW ok \in BOOLEAN, TakeReady(r, ok)
      PROVE  (kind # "secondary" /\ ctx = running /\ StreamIsFed)'
  <2>1. /\ path = "select" /\ run = "ready" /\ instance[r] = "readyWait"
        /\ UNCHANGED <<kind, pathClosed, running, ctx>>
    BY <1>4 DEF TakeReady, startVars
  <2>2. running
    BY <1>t, <2>1 DEF RunInv, OffOnceStopped
  <2>3. ~(ready /\ ~pathClosed)
    BY <1>t, <2>1 DEF StreamIsFed, RunInv, OneAlive
  <2>4. CASE ok
    <3>1. Only(r, "streaming") /\ doubled' = (doubled \/ (ready /\ ~pathClosed))
      BY <1>4, <2>4 DEF TakeReady
    <3> QED
      BY <1>t, <1>c, <2>1, <2>2, <2>3, <3>1 DEF StreamIsFed
  <2>5. CASE ~ok
    <3>1. UNCHANGED <<ready, doubled>>
      BY <1>4, <2>5 DEF TakeReady
    <3> QED
      BY <2>1, <2>3, <3>1, StillFed
  <2> QED
    BY <2>4, <2>5
<1>5. ASSUME NEW r \in Runs, TakeNotReady(r)
      PROVE  (kind # "secondary" /\ ctx = running /\ StreamIsFed)'
  BY <1>t, <1>5 DEF TakeNotReady, StopHandler, StreamIsFed
<1>6. ASSUME NEW r \in Runs, RunReturned(r) \/ Drained(r) \/ ForwardReady(r)
               \/ RunBegins(r) \/ RunConnects(r)
      PROVE  (kind # "secondary" /\ ctx = running /\ StreamIsFed)'
  <2>1. /\ ~Feeding(r) /\ \E state : Only(r, state)
        /\ UNCHANGED <<kind, ready, doubled, pathClosed, running, ctx>>
    BY <1>6 DEF RunReturned, Drained, ForwardReady, RunBegins, RunConnects,
       Feeding, pathVars, startVars
  <2>2. \A i \in Runs : Feeding(i) => Feeding(i)'
    BY <1>c, <2>1 DEF Feeding
  <2> QED
    BY <2>1, <2>2, StillFed
<1>7. ASSUME NEW r \in Runs, ForwardNotReady(r) \/ RunFails(r)
      PROVE  (kind # "secondary" /\ ctx = running /\ StreamIsFed)'
  <2>1. /\ \E state : /\ Only(r, state)
                      /\ Feeding(r) => state \in {"notReadyCall", "notReadyWait"}
        /\ UNCHANGED <<kind, ready, doubled, pathClosed, running, ctx>>
    BY <1>t, <1>7 DEF ForwardNotReady, RunFails, Feeding, pathVars, startVars
  <2>2. \A i \in Runs : Feeding(i) => Feeding(i)'
    BY <1>c, <2>1 DEF Feeding
  <2> QED
    BY <2>1, <2>2, StillFed
<1>8. ASSUME NEW r \in Runs, ForwardAbandoned(r) \/ CallCancelled(r)
      PROVE  (kind # "secondary" /\ ctx = running /\ StreamIsFed)'
  <2>1. /\ pathClosed \/ ~ctx
        /\ UNCHANGED <<kind, ready, doubled, pathClosed, running, ctx>>
    BY <1>8 DEF ForwardAbandoned, CallCancelled, pathVars, startVars
  <2>2. ~(ready /\ ~pathClosed)
    BY <1>t, <2>1 DEF StreamIsFed
  <2> QED
    BY <2>1, <2>2, StillFed
<1> QED
  BY <1>1, <1>2, <1>3, <1>4, <1>5, <1>6, <1>7, <1>8
     DEF Next, PathStep, HandlerStep, SourceStep, Ended

(* handler.go, SetReady and SetNotReady: until it is closed, the path has  *)
(* a stream only while a run of the source feeds it, and is never given a  *)
(* second one, for every source that says it when it ends (the secondary   *)
(* camera source does not).                                                *)
THEOREM FedCorrect ==
  ASSUME "secondary" \notin Kinds
  PROVE  Spec => []StreamIsFed
<1>1. Init => FedInv
  <2> SUFFICES ASSUME Init PROVE FedInv
    OBVIOUS
  <2>1. TypeOK /\ RunInv
    BY HandlerTypeInit, RunInvInit
  <2>2. kind # "secondary" /\ ctx = running
    BY DEF Init
  <2>3. StreamIsFed
    BY DEF Init, StreamIsFed
  <2> QED
    BY <2>1, <2>2, <2>3 DEF FedInv
<1>2. FedInv /\ [Next]_vars => FedInv'
  BY HandlerTypeStep, RunInvStep, FedStep DEF FedInv
<1>3. FedInv => StreamIsFed
  BY DEF FedInv
<1> QED
  BY <1>1, <1>2, <1>3, PTL DEF Spec

-----------------------------------------------------------------------------
(* Reloads of a source that is not on demand.                              *)

Holds(r) == instance[r] \notin {"off", "spawned"}

(* A reload is on its way to run(), or it is the configuration of the      *)
(* handler, and then of every run that has begun, or on its way there.     *)
ReloadInv ==
  ~onDemand /\ running =>
    /\ handlerConf = pathConf => toHandler = {}
    /\ handlerConf # pathConf => toHandler = {pathConf} /\ toRun = {}
    /\ \A r \in Runs :
         Holds(r) => runConf[r] = handlerConf \/ <<r, handlerConf>> \in toRun
    /\ \A m \in toRun : m[2] = handlerConf
    /\ pathConf = 1 => handlerConf = 1 /\ toRun = {}

LastingInv == TypeOK /\ RunInv /\ ctx = running /\ ReloadInv

(* A step of a run that brings no configuration into play. *)
LEMMA SameConf ==
  ASSUME LastingInv, ctx' = running',
         running' => running, ~onDemand' => ~onDemand,
         UNCHANGED <<pathConf, handlerConf, toHandler, runConf, toRun>>,
         \A r \in Runs : Holds(r)' => Holds(r)
  PROVE  (ctx = running /\ ReloadInv)'
BY DEF LastingInv, ReloadInv, Holds

LEMMA ReloadStep ==
  ASSUME LastingInv, MaxConf = 2, [Next]_vars
  PROVE  (ctx = running /\ ReloadInv)'
<1>t. TypeOK /\ RunInv /\ ctx = running /\ ReloadInv
      /\ running \in BOOLEAN /\ onDemand \in BOOLEAN
  BY HandlerAssumption DEF LastingInv, TypeOK
<1>v. pathConf \in {1, 2} /\ handlerConf \in {1, 2} /\ Configs = {1, 2}
  BY <1>t DEF TypeOK, Configs
<1>c. ASSUME NEW r \in Runs, NEW state, Only(r, state)
      PROVE  /\ instance'[r] = state
             /\ \A i \in Runs : i # r => instance'[i] = instance[i]
  BY <1>t, <1>c DEF Only, TypeOK
<1>1. CASE Start
  BY <1>t, <1>1 DEF Start, ReloadInv
<1>2. CASE RecreateTimer
  <2>1. PICK r \in Runs : instance[r] = "off" /\ Only(r, "spawned")
    BY <1>2 DEF RecreateTimer, Recreate
  <2>2. \A i \in Runs : Holds(i)' => Holds(i)
    BY <1>c, <2>1 DEF Holds
  <2> QED
    BY <1>t, <1>2, <2>2, SameConf DEF RecreateTimer, startVars, confVars
<1>3. CASE Stop
  BY <1>t, <1>3 DEF Stop, StopHandler, ReloadInv
<1>4. CASE Stopped \/ ClosePath \/ PathEnds
  BY <1>t, <1>4, SameConf DEF Stopped, ClosePath, PathEnds, startVars, instVars,
     confVars, Holds
<1>5. CASE ReloadConf
  <2>1. /\ pathConf = 1 /\ pathConf' = 2
        /\ running => toHandler' = toHandler \cup {2}
        /\ UNCHANGED <<running, ctx, onDemand, instance, handlerConf, runConf, toRun>>
    BY <1>v, <1>5 DEF ReloadConf, startVars, instVars
  <2>2. \A r \in Runs : Holds(r)' <=> Holds(r)
    BY <2>1 DEF Holds
  <2> QED
    BY <1>t, <2>1, <2>2 DEF ReloadInv
<1>6. ASSUME NEW r \in Runs, NEW ok \in BOOLEAN, TakeReady(r, ok)
      PROVE  (ctx = running /\ ReloadInv)'
  <2>1. /\ Holds(r) /\ \E state : Only(r, state)
        /\ UNCHANGED <<running, ctx, onDemand, confVars>>
    BY <1>6 DEF TakeReady, startVars, Holds
  <2>2. \A i \in Runs : Holds(i)' => Holds(i)
    BY <1>c, <2>1 DEF Holds
  <2> QED
    BY <1>t, <2>1, <2>2, SameConf DEF confVars
<1>7. ASSUME NEW r \in Runs, TakeNotReady(r)
      PROVE  (ctx = running /\ ReloadInv)'
  <2>1. /\ Holds(r) /\ Only(r, "returning") /\ onDemand' = onDemand
        /\ UNCHANGED <<pathConf, handlerConf, runConf, toRun>>
    BY <1>7 DEF TakeNotReady, Holds
  <2>2. \A i \in Runs : Holds(i)' => Holds(i)
    BY <1>c, <2>1 DEF Holds
  <2>3. CASE onDemand /\ running
    BY <1>t, <1>7, <2>1, <2>3 DEF TakeNotReady, StopHandler, ReloadInv
  <2>4. CASE ~(onDemand /\ running)
    BY <1>t, <1>7, <2>1, <2>2, <2>4, SameConf DEF TakeNotReady
  <2> QED
    BY <2>3, <2>4
<1>8. ASSUME NEW r \in Runs, RunReturned(r)
      PROVE  (ctx = running /\ ReloadInv)'
  <2>1. /\ Only(r, "off") /\ toRun' = {m \in toRun : m[1] # r}
        /\ UNCHANGED <<running, ctx, onDemand, pathConf, handlerConf, runConf,
                       toHandler>>
    BY <1>8 DEF RunReturned, startVars
  <2>2. \A i \in Runs : Holds(i)' => Holds(i) /\ i # r
    BY <1>c, <2>1 DEF Holds
  <2>3. \A i \in Runs : i # r /\ <<i, handlerConf>> \in toRun
          => <<i, handlerConf>> \in toRun'
    BY <2>1
  <2> QED
    BY <1>t, <2>1, <2>2, <2>3 DEF ReloadInv
<1>9. ASSUME NEW r \in Runs,
             \/ Drained(r) \/ ForwardReady(r) \/ ForwardNotReady(r)
             \/ ForwardAbandoned(r) \/ RunConnects(r) \/ RunFails(r)
             \/ CallCancelled(r)
      PROVE  (ctx = running /\ ReloadInv)'
  <2>1. /\ Holds(r) /\ \E state : Only(r, state)
        /\ UNCHANGED <<running, ctx, onDemand, confVars>>
    BY <1>9 DEF Drained, ForwardReady, ForwardNotReady, ForwardAbandoned,
       RunConnects, RunFails, CallCancelled, startVars, Holds
  <2>2. \A i \in Runs : Holds(i)' => Holds(i)
    BY <1>c, <2>1 DEF Holds
  <2> QED
    BY <1>t, <2>1, <2>2, SameConf DEF confVars
<1>10. ASSUME NEW c \in Configs, TakeConf(c)
       PROVE  (ctx = running /\ ReloadInv)'
  <2>1. /\ c \in toHandler /\ handlerConf' = c /\ toHandler' = toHandler \ {c}
        /\ toRun' = IF recreating THEN toRun
                    ELSE toRun \cup {<<r, c>> : r \in Alive}
        /\ UNCHANGED <<running, ctx, onDemand, instance, pathConf, runConf>>
    BY <1>10 DEF TakeConf, startVars, instVars
  <2> SUFFICES ASSUME ~onDemand, running PROVE ReloadInv'
    BY <1>t, <2>1 DEF ReloadInv
  <2>2. toHandler = {pathConf} /\ c = pathConf /\ toRun = {} /\ pathConf = 2
    BY <1>t, <1>v, <2>1 DEF ReloadInv
  <2>3. \A r \in Runs : Holds(r)' => <<r, c>> \in toRun'
    <3>1. ASSUME NEW r \in Runs, Holds(r) PROVE ~recreating /\ r \in Alive
      BY <1>t, <3>1 DEF Holds, Alive, RunInv, NoneWhileRetrying
    <3> QED
      BY <2>1, <3>1 DEF Holds
  <2>4. \A m \in toRun' : m[2] = c
    BY <2>1, <2>2
  <2> QED
    BY <2>1, <2>2, <2>3, <2>4 DEF ReloadInv
<1>11. CASE Drain
  BY <1>t, <1>11 DEF Drain, startVars, ReloadInv
<1>12. ASSUME NEW r \in Runs, RunBegins(r)
       PROVE  (ctx = running /\ ReloadInv)'
  <2>1. /\ Only(r, "connecting") /\ runConf' = [runConf EXCEPT ![r] = handlerConf]
        /\ UNCHANGED <<running, ctx, onDemand, pathConf, handlerConf, toHandler,
                       toRun>>
    BY <1>12 DEF RunBegins, startVars
  <2>2. /\ runConf'[r] = handlerConf
        /\ \A i \in Runs : i # r => /\ Holds(i)' => Holds(i)
                                    /\ runConf'[i] = runConf[i]
    BY <1>t, <1>c, <2>1 DEF Holds, TypeOK
  <2> QED
    BY <1>t, <2>1, <2>2 DEF ReloadInv
<1>13. ASSUME NEW r \in Runs, NEW c \in Configs, RunTakesConf(r, c)
       PROVE  (ctx = running /\ ReloadInv)'
  <2>1. /\ <<r, c>> \in toRun /\ toRun' = toRun \ {<<r, c>>}
        /\ runConf' = [runConf EXCEPT ![r] = c]
        /\ UNCHANGED <<running, ctx, onDemand, pathConf, handlerConf, toHandler,
                       instance>>
    BY <1>13 DEF RunTakesConf, startVars, instVars
  <2>2. \A i \in Runs : Holds(i)' <=> Holds(i)
    BY <2>1 DEF Holds
  <2>3. runConf'[r] = c /\ \A i \in Runs : i # r => runConf'[i] = runConf[i]
    BY <1>t, <2>1 DEF TypeOK
  <2>4. \A i \in Runs : i # r /\ <<i, handlerConf>> \in toRun
          => <<i, handlerConf>> \in toRun'
    BY <2>1
  <2> SUFFICES ASSUME ~onDemand, running PROVE ReloadInv'
    BY <1>t, <2>1 DEF ReloadInv
  <2>5. c = handlerConf
    BY <1>t, <2>1 DEF ReloadInv
  <2> QED
    BY <1>t, <2>1, <2>2, <2>3, <2>4, <2>5 DEF ReloadInv
<1>14. CASE UNCHANGED vars
  BY <1>t, <1>14, SameConf DEF vars, startVars, instVars, confVars, Holds
<1> QED
  BY <1>1, <1>2, <1>3, <1>4, <1>5, <1>6, <1>7, <1>8, <1>9, <1>10, <1>11,
     <1>12, <1>13, <1>14 DEF Next, PathStep, HandlerStep, SourceStep, Ended

(* handler.go, ReloadConf and run: through any failures and retries, a     *)
(* reload reaches the run of a source that is not on demand, when it is    *)
(* the only one (two of them may overtake each other).                     *)
THEOREM LastingCorrect ==
  ASSUME MaxConf = 2
  PROVE  Spec => []LastingSourceIsReloaded
<1>1. Init => LastingInv
  <2> SUFFICES ASSUME Init PROVE LastingInv
    OBVIOUS
  <2>1. TypeOK /\ RunInv
    BY HandlerTypeInit, RunInvInit
  <2>2. ctx = running /\ ReloadInv
    BY DEF Init, ReloadInv
  <2> QED
    BY <2>1, <2>2 DEF LastingInv
<1>2. LastingInv /\ [Next]_vars => LastingInv'
  BY HandlerTypeStep, RunInvStep, ReloadStep DEF LastingInv
<1>3. LastingInv => LastingSourceIsReloaded
  BY DEF LastingInv, ReloadInv, LastingSourceIsReloaded, ReloadReachesRun, Holds
<1> QED
  BY <1>1, <1>2, <1>3, PTL DEF Spec

-----------------------------------------------------------------------------
(* The contract.                                                           *)

(* A step of the handler, seen by one call of Run. *)
LEMMA ContractStep ==
  ASSUME TypeOK, [Next]_vars, NEW r \in Runs
  PROVE  Contract(r)!Step
<1> USE DEF Contract!Step, Contract!Next, Contract!vars, Contract!Goes,
            Contract!Spawn, Contract!Begin, Contract!AskReady, Contract!Heard,
            Contract!Granted, Contract!Refused, Contract!Ends, Contract!Told,
            Contract!Cancel, Contract!Gone
<1>c. ASSUME NEW i \in Runs, NEW state, Only(i, state)
      PROVE  instance'[r] = IF i = r THEN state ELSE instance[r]
  BY <1>c DEF Only, TypeOK
<1>1. CASE Start \/ RecreateTimer
  <2>1. PICK i \in Runs : /\ instance[i] = "off" /\ Only(i, "spawned")
                          /\ runCtx' = [runCtx EXCEPT ![i] = TRUE]
                          /\ kind' = kind
    BY <1>1 DEF Start, RecreateTimer, Recreate
  <2>2. runCtx'[r] = IF i = r THEN TRUE ELSE runCtx[r]
    BY <2>1 DEF TypeOK
  <2> QED
    BY <1>c, <2>1, <2>2
<1>2. ASSUME NEW i \in Runs, NEW ok \in BOOLEAN, TakeReady(i, ok)
      PROVE  Contract(r)!Step
  <2>1. /\ instance[i] = "readyWait" /\ UNCHANGED <<kind, runCtx>>
        /\ Only(i, "streaming") \/ Only(i, "returning")
    BY <1>2 DEF TakeReady
  <2>2. \/ instance'[r] = instance[r]
        \/ instance[r] = "readyWait" /\ instance'[r] = "streaming"
        \/ instance[r] = "readyWait" /\ instance'[r] = "returning"
    BY <1>c, <2>1
  <2>3. UNCHANGED <<kind, runCtx[r]>>
    BY <2>1
  <2> QED
    BY <2>2, <2>3
<1>3. ASSUME NEW i \in Runs, TakeNotReady(i) PROVE Contract(r)!Step
  <2>1. /\ instance[i] = "notReadyWait" /\ UNCHANGED <<kind, runCtx>>
        /\ Only(i, "returning")
    BY <1>3 DEF TakeNotReady
  <2> QED
    BY <1>c, <2>1
<1>4. ASSUME NEW i \in Runs, RunReturned(i) \/ Drained(i)
      PROVE  Contract(r)!Step
  <2>1. /\ instance[i] = "returning" /\ Only(i, "off") /\ kind' = kind
        /\ runCtx' = runCtx \/ runCtx' = [runCtx EXCEPT ![i] = FALSE]
    BY <1>4 DEF RunReturned, Drained
  <2>2. runCtx'[r] = runCtx[r] \/ (i = r /\ runCtx'[r] = FALSE)
    BY <2>1 DEF TypeOK
  <2>3. \/ i # r /\ instance'[r] = instance[r]
        \/ instance[r] = "returning" /\ instance'[r] = "off"
    BY <1>c, <2>1
  <2> QED
    BY <2>1, <2>2, <2>3
<1>5. ASSUME NEW i \in Runs,
             ForwardReady(i) \/ ForwardNotReady(i) \/ ForwardAbandoned(i)
      PROVE  Contract(r)!Step
  <2>1. /\ UNCHANGED <<kind, runCtx>>
        /\ \/ instance[i] = "readyCall" /\ Only(i, "readyWait")
           \/ instance[i] = "notReadyCall" /\ Only(i, "notReadyWait")
           \/ /\ instance[i] \in {"readyWait", "notReadyWait"}
              /\ Only(i, "returning")
    BY <1>5 DEF ForwardReady, ForwardNotReady, ForwardAbandoned
  <2> QED
    BY <1>c, <2>1
<1>6. ASSUME NEW i \in Runs, \/ RunBegins(i) \/ RunConnects(i) \/ RunFails(i)
                            \/ CallCancelled(i)
      PROVE  Contract(r)!Step
  <2>1. /\ UNCHANGED <<kind, runCtx>>
        /\ \/ instance[i] = "spawned" /\ Only(i, "connecting")
           \/ instance[i] = "connecting" /\ Only(i, "readyCall")
           \/ instance[i] = "connecting" /\ Only(i, "returning")
           \/ /\ instance[i] = "streaming"
              /\ Only(i, IF kind = "secondary" THEN "returning" ELSE "notReadyCall")
           \/ /\ instance[i] \in {"readyCall", "notReadyCall"}
              /\ Only(i, "returning")
    BY <1>6 DEF RunBegins, RunConnects, RunFails, CallCancelled
  <2>2. \A state : Only(i, state) =>
          instance'[r] = IF i = r THEN state ELSE instance[r]
    BY <1>c
  <2>3. CASE i # r
    BY <2>1, <2>2, <2>3
  <2>4. CASE i = r
    <3>1. UNCHANGED <<kind, runCtx[r]>>
      BY <2>1
    <3> QED
      BY <2>1, <2>2, <2>4, <3>1
  <2> QED
    BY <2>3, <2>4
<1>7. CASE Drain
  <2>1. /\ UNCHANGED <<kind, instance>>
        /\ runCtx'[r] = runCtx[r] \/ runCtx'[r] = FALSE
    BY <1>7 DEF Drain
  <2> QED
    BY <2>1
<1>8. CASE \/ Stop \/ Stopped \/ ClosePath \/ PathEnds \/ ReloadConf
           \/ \E c \in Configs : TakeConf(c)
           \/ \E i \in Runs, c \in Configs : RunTakesConf(i, c)
           \/ UNCHANGED vars
  <2>1. UNCHANGED <<kind, instance, runCtx>>
    BY <1>8 DEF Stop, Stopped, ClosePath, PathEnds, ReloadConf, TakeConf,
       RunTakesConf, instVars, vars
  <2> QED
    BY <2>1
<1> QED
  BY <1>1, <1>2, <1>3, <1>4, <1>5, <1>6, <1>7, <1>8
     DEF Next, PathStep, HandlerStep, SourceStep, Ended

(* defs/static_source.go: towards every call of Run, each step of the      *)
(* handler is one that the contract of the sources (SourceRun) allows, or  *)
(* does not concern it.                                                    *)
THEOREM ContractCorrect == Spec => [][\A r \in Runs : Contract(r)!Step]_vars
<1>1. TypeOK /\ [Next]_vars => [\A r \in Runs : Contract(r)!Step]_vars
  BY ContractStep
<1> QED
  BY <1>1, HandlerTypeCorrect, PTL DEF Spec

-----------------------------------------------------------------------------
(***************************************************************************)
(* One call of Run (StaticSources).                                        *)
(***************************************************************************)

\* Who makes the call to the parent that is in progress, and what the parent
\* has answered before.
CallsFit ==
  main # "crashed" =>
    /\ call \in {"readyCall", "readyWait"} <=> reader = "asking" \/ main = "asking"
    /\ call \in {"notReadyCall", "notReadyWait"} <=> reader = "telling" \/ main = "telling"
    /\ reader = "telling" => protocol \in S!Pulled
    /\ main = "telling" => protocol \notin S!Pulled /\ reader = "done"

SaidFits ==
  /\ reader \in {"reading", "asking"} => said = "nothing" \/ main = "crashed"
  /\ reader \in {"streaming", "telling"} => said = "ready"
  /\ main \in {"off", "dialling", "joining", "pausing", "asking"} => said = "nothing"
  /\ main = "telling" \/ (protocol = "secondary" /\ main = "select") => said = "ready"
  /\ reader = "done" /\ protocol \in S!Pulled => said # "ready"
  /\ main = "returned" /\ protocol # "secondary" => said # "ready"
  /\ main = "crashed" => call = "none"

\* The secondary camera source has no goroutine of its own: it is a reader of
\* the path of the primary one from the answer of the path to its return.
SecondaryFits ==
  protocol = "secondary" =>
    /\ main \in {"off", "joining", "pausing", "asking", "select", "returned"}
    /\ reader = "none" /\ conn = "none"
    /\ inner \in IF main \in {"asking", "select"} THEN {"held"} ELSE {"none", "closed"}

\* The other protocols: Run before its goroutine, with it, and after it.
MainFits ==
  protocol # "secondary" =>
    /\ main \in {"off", "dialling", "select", "waiting", "telling", "returned", "crashed"}
    /\ main = "crashed" => protocol = "primary"
    /\ main \in {"off", "dialling"} => reader = "none" /\ conn = "none" /\ inner = "none"
    /\ main \in {"select", "waiting", "telling", "crashed"} => reader # "none" /\ conn # "none"
    /\ main = "returned" => reader \in {"none", "done"} /\ (reader = "none" => conn = "none")
    /\ main = "waiting" => ~callCtx
    /\ main = "telling" => reader = "done"

\* What Run opens, and what hangs from it.
CameraFits ==
  protocol = "primary" =>
    /\ inner = "held" <=> conn = "open"
    /\ inner = "closed" <=> conn = "closed"
    /\ inner \notin {"leaked", "floating"}
    /\ main \in {"returned", "telling"} => conn # "open"

ConnectionFits ==
  protocol \notin {"primary", "secondary"} =>
    /\ main = "select" => conn = "open"
    /\ main \in {"waiting", "telling", "returned"} => conn # "open"
    /\ inner = "held" => conn = "open"
    /\ inner # "none" => protocol \in S!UnixSockets
    /\ inner = "floating" => reader = "reading" /\ main \in {"select", "waiting"}
    /\ inner = "leaked" => ~callCtx

PartsFit == protocol # "rtsp" => parts \in {0, 1}

\* The goroutine that waits for the camera is over once Run has received from
\* it; a Run that has not received from it was cancelled.
WaiterFits ==
  /\ waiter # "none" <=> protocol = "primary" /\ conn # "none"
  /\ waiter \in {"sending", "done"} => inner = "closed" /\ reader = "done"
  /\ waiter = "done" => main \in {"telling", "returned"}
  /\ main \in {"telling", "returned"} /\ waiter \in {"waiting", "sending"} => ~callCtx

CallInv ==
  /\ S!TypeOK /\ CallsFit /\ SaidFits /\ SecondaryFits /\ MainFits /\ CameraFits
  /\ ConnectionFits /\ PartsFit /\ WaiterFits

\* It holds of a call that has not begun.
LEMMA CallInit == S!Init => CallInv
BY SourcesAssumption DEF S!Init, CallInv, S!TypeOK, CallsFit, SaidFits,
   SecondaryFits, MainFits, CameraFits, ConnectionFits, PartsFit, WaiterFits,
   S!Pulled, S!UnixSockets

\* Each operation keeps it.
LEMMA LocalKeeps == ASSUME CallInv, S!Local PROVE CallInv'
<1>a. main # "crashed" /\ UNCHANGED <<protocol, callCtx, peer>>
  BY DEF S!Local
<1>1. CASE S!Run
  BY <1>a, <1>1, SourcesAssumption DEF S!Run, S!Heard, S!Expired, CallInv,
     S!TypeOK, CallsFit, SaidFits, SecondaryFits, MainFits, CameraFits,
     ConnectionFits, PartsFit, WaiterFits, S!Pulled, S!UnixSockets
<1>2. CASE S!Dial
  BY <1>a, <1>2, SourcesAssumption DEF S!Dial, S!RunRTP, S!RunMPEGTS,
     S!RunRTMP, S!RunSRT, S!RunRTSP, S!RunHLS, S!RunPrimary, S!ListenUDP,
     S!ListenUnix, S!Opened, S!Returned, S!StartCamera, S!Heard, S!Expired,
     CallInv, S!TypeOK, CallsFit, SaidFits, SecondaryFits, MainFits,
     CameraFits, ConnectionFits, PartsFit, WaiterFits, S!Pulled, S!UnixSockets
<1>3. CASE S!ReadRTP
  BY <1>a, <1>3, SourcesAssumption DEF S!ReadRTP, S!Ask, S!Fail, S!Frame,
     S!Heard, S!Expired, CallInv, S!TypeOK, CallsFit, SaidFits, SecondaryFits,
     MainFits, CameraFits, ConnectionFits, PartsFit, WaiterFits, S!Pulled,
     S!UnixSockets
<1>4. CASE S!SkipForeign
  BY <1>a, <1>4, SourcesAssumption DEF S!SkipForeign, S!MorePart, S!Heard,
     S!Expired, CallInv, S!TypeOK, CallsFit, SaidFits, SecondaryFits,
     MainFits, CameraFits, ConnectionFits, PartsFit, WaiterFits, S!Pulled,
     S!UnixSockets
<1>5. CASE S!ReadMPEGTS
  BY <1>a, <1>5, SourcesAssumption DEF S!ReadMPEGTS, S!Tables, S!Ask, S!Fail,
     S!Frame, S!MorePart, S!Heard, S!Expired, CallInv, S!TypeOK, CallsFit,
     SaidFits, SecondaryFits, MainFits, CameraFits, ConnectionFits, PartsFit,
     WaiterFits, S!Pulled, S!UnixSockets
<1>6. CASE S!ReadSRT
  BY <1>a, <1>6, SourcesAssumption DEF S!ReadSRT, S!Tables, S!Ask, S!Fail,
     S!Frame, S!MorePart, S!Heard, S!Expired, CallInv, S!TypeOK, CallsFit,
     SaidFits, SecondaryFits, MainFits, CameraFits, ConnectionFits, PartsFit,
     WaiterFits, S!Pulled, S!UnixSockets
<1>7. CASE S!ReadRTMP
  BY <1>a, <1>7, SourcesAssumption DEF S!ReadRTMP, S!Ask, S!Fail, S!Frame,
     S!MorePart, S!Heard, S!Expired, CallInv, S!TypeOK, CallsFit, SaidFits,
     SecondaryFits, MainFits, CameraFits, ConnectionFits, PartsFit,
     WaiterFits, S!Pulled, S!UnixSockets
<1>8. CASE S!ReadRTSP
  BY <1>a, <1>8, SourcesAssumption DEF S!ReadRTSP, S!Ask, S!Fail, S!Frame,
     S!MorePart, S!Heard, S!Expired, CallInv, S!TypeOK, CallsFit, SaidFits,
     SecondaryFits, MainFits, CameraFits, ConnectionFits, PartsFit,
     WaiterFits, S!Pulled, S!UnixSockets
<1>9. CASE S!OnTracks
  BY <1>a, <1>9, SourcesAssumption DEF S!OnTracks, S!Ask, S!Fail, S!Frame,
     S!MorePart, S!Heard, S!Expired, CallInv, S!TypeOK, CallsFit, SaidFits,
     SecondaryFits, MainFits, CameraFits, ConnectionFits, PartsFit,
     WaiterFits, S!Pulled, S!UnixSockets
<1>10. CASE S!ReadCamera
  BY <1>a, <1>10, SourcesAssumption DEF S!ReadCamera, S!Ask, S!Fail, S!Frame,
     S!MorePart, S!Heard, S!Expired, CallInv, S!TypeOK, CallsFit, SaidFits,
     SecondaryFits, MainFits, CameraFits, ConnectionFits, PartsFit,
     WaiterFits, S!Pulled, S!UnixSockets
<1>11. CASE S!ReadFails
  BY <1>a, <1>11, SourcesAssumption DEF S!ReadFails, S!Fail, S!Heard,
     S!Expired, CallInv, S!TypeOK, CallsFit, SaidFits, SecondaryFits,
     MainFits, CameraFits, ConnectionFits, PartsFit, WaiterFits, S!Pulled,
     S!UnixSockets
<1>12. CASE S!Accept
  BY <1>a, <1>12, SourcesAssumption DEF S!Accept, S!Accepts, S!Heard,
     S!Expired, CallInv, S!TypeOK, CallsFit, SaidFits, SecondaryFits,
     MainFits, CameraFits, ConnectionFits, PartsFit, WaiterFits, S!Pulled,
     S!UnixSockets
<1>13. CASE S!SetConn
  BY <1>a, <1>13, SourcesAssumption DEF S!SetConn, S!Heard, S!Expired,
     CallInv, S!TypeOK, CallsFit, SaidFits, SecondaryFits, MainFits,
     CameraFits, ConnectionFits, PartsFit, WaiterFits, S!Pulled, S!UnixSockets
<1>14. CASE S!CameraEnds
  BY <1>a, <1>14, SourcesAssumption DEF S!CameraEnds, S!Heard, S!Expired,
     CallInv, S!TypeOK, CallsFit, SaidFits, SecondaryFits, MainFits,
     CameraFits, ConnectionFits, PartsFit, WaiterFits, S!Pulled, S!UnixSockets
<1>15. CASE S!ReaderOver
  BY <1>a, <1>15, SourcesAssumption DEF S!ReaderOver, S!CameraDone, S!Close,
     S!TakeBack, S!Heard, S!Expired, CallInv, S!TypeOK, CallsFit, SaidFits,
     SecondaryFits, MainFits, CameraFits, ConnectionFits, PartsFit,
     WaiterFits, S!Pulled, S!UnixSockets
<1>16. CASE S!Cancelled
  BY <1>a, <1>16, SourcesAssumption DEF S!Cancelled, S!Close, S!Heard,
     S!Expired, CallInv, S!TypeOK, CallsFit, SaidFits, SecondaryFits,
     MainFits, CameraFits, ConnectionFits, PartsFit, WaiterFits, S!Pulled,
     S!UnixSockets
<1>17. CASE S!Waited
  BY <1>a, <1>17, SourcesAssumption DEF S!Waited, S!CameraDone, S!TakeBack,
     S!Heard, S!Expired, CallInv, S!TypeOK, CallsFit, SaidFits, SecondaryFits,
     MainFits, CameraFits, ConnectionFits, PartsFit, WaiterFits, S!Pulled,
     S!UnixSockets
<1>18. CASE S!Join
  BY <1>a, <1>18, SourcesAssumption DEF S!Join, S!Returned, S!Heard,
     S!Expired, CallInv, S!TypeOK, CallsFit, SaidFits, SecondaryFits,
     MainFits, CameraFits, ConnectionFits, PartsFit, WaiterFits, S!Pulled,
     S!UnixSockets
<1>19. CASE S!Pause
  BY <1>a, <1>19, SourcesAssumption DEF S!Pause, S!Returned, S!Heard,
     S!Expired, CallInv, S!TypeOK, CallsFit, SaidFits, SecondaryFits,
     MainFits, CameraFits, ConnectionFits, PartsFit, WaiterFits, S!Pulled,
     S!UnixSockets
<1>20. CASE S!LeavePrimary
  BY <1>a, <1>20, SourcesAssumption DEF S!LeavePrimary, S!Heard, S!Expired,
     CallInv, S!TypeOK, CallsFit, SaidFits, SecondaryFits, MainFits,
     CameraFits, ConnectionFits, PartsFit, WaiterFits, S!Pulled, S!UnixSockets
<1>21. CASE S!Forwarded
  BY <1>a, <1>21, SourcesAssumption DEF S!Forwarded, S!Heard, S!Expired,
     CallInv, S!TypeOK, CallsFit, SaidFits, SecondaryFits, MainFits,
     CameraFits, ConnectionFits, PartsFit, WaiterFits, S!Pulled, S!UnixSockets
<1>22. CASE S!SetReady
  BY <1>a, <1>22, SourcesAssumption DEF S!SetReady, S!Heard, S!Expired,
     CallInv, S!TypeOK, CallsFit, SaidFits, SecondaryFits, MainFits,
     CameraFits, ConnectionFits, PartsFit, WaiterFits, S!Pulled, S!UnixSockets
<1>23. CASE S!SetReadyFails
  BY <1>a, <1>23, SourcesAssumption DEF S!SetReadyFails, S!Heard, S!Expired,
     CallInv, S!TypeOK, CallsFit, SaidFits, SecondaryFits, MainFits,
     CameraFits, ConnectionFits, PartsFit, WaiterFits, S!Pulled, S!UnixSockets
<1>24. CASE S!SetNotReady
  BY <1>a, <1>24, SourcesAssumption DEF S!SetNotReady, S!Heard, S!Expired,
     CallInv, S!TypeOK, CallsFit, SaidFits, SecondaryFits, MainFits,
     CameraFits, ConnectionFits, PartsFit, WaiterFits, S!Pulled, S!UnixSockets
<1>25. CASE S!WaiterSends
  BY <1>a, <1>25, SourcesAssumption DEF S!WaiterSends, S!CameraDone, S!Heard,
     S!Expired, CallInv, S!TypeOK, CallsFit, SaidFits, SecondaryFits,
     MainFits, CameraFits, ConnectionFits, PartsFit, WaiterFits, S!Pulled,
     S!UnixSockets
<1> QED
  BY <1>1, <1>2, <1>3, <1>4, <1>5, <1>6, <1>7, <1>8, <1>9, <1>10, <1>11, <1>12, <1>13,
     <1>14, <1>15, <1>16, <1>17, <1>18, <1>19, <1>20, <1>21, <1>22, <1>23, <1>24, <1>25 DEF
     S!Local, S!Read, S!Proceed, S!Parent

LEMMA CallStep == ASSUME CallInv, [S!Next]_(S!vars) PROVE CallInv'
<1>1. CASE S!Local
  BY <1>1, LocalKeeps
<1>2. CASE S!Tick
  <2>1. clock' \in 0..Patience
    BY <1>2, SourcesAssumption DEF S!Tick, S!Expired, CallInv, S!TypeOK
  <2>2. UNCHANGED <<protocol, callCtx, peer, main, reader, conn, inner, parts, call, said, waiter>>
    BY <1>2 DEF S!Tick
  <2> QED
    BY <2>1, <2>2 DEF CallInv, S!TypeOK, CallsFit, SaidFits, SecondaryFits,
       MainFits, CameraFits, ConnectionFits, PartsFit, WaiterFits, S!Pulled,
       S!UnixSockets
<1>3. CASE S!PeerFails
  BY <1>3 DEF S!PeerFails, S!localVars, CallInv, S!TypeOK, CallsFit, SaidFits,
     SecondaryFits, MainFits, CameraFits, ConnectionFits, PartsFit,
     WaiterFits, S!Pulled, S!UnixSockets
<1>4. CASE S!CancelRun
  <2>1. /\ callCtx' = FALSE
        /\ UNCHANGED <<protocol, peer, main, reader, conn, inner, clock, parts, call, said, waiter>>
    BY <1>4 DEF S!CancelRun, S!localVars
  <2>a. callCtx' \in BOOLEAN
    BY <2>1
  <2>b. UNCHANGED <<protocol, peer, main, reader, conn, inner, clock, parts, call, said, waiter>>
    BY <2>1
  <2>2. S!TypeOK'
    BY <2>a, <2>b DEF CallInv, S!TypeOK
  <2> QED
    BY <2>1, <2>2 DEF CallInv, CallsFit, SaidFits, SecondaryFits, MainFits,
       CameraFits, ConnectionFits, PartsFit, WaiterFits, S!Pulled,
       S!UnixSockets
<1>5. CASE UNCHANGED S!vars
  BY <1>5 DEF S!vars, S!localVars, CallInv, S!TypeOK, CallsFit, SaidFits,
     SecondaryFits, MainFits, CameraFits, ConnectionFits, PartsFit,
     WaiterFits, S!Pulled, S!UnixSockets
<1> QED
  BY <1>1, <1>2, <1>3, <1>4, <1>5 DEF S!Next, S!Over

\* It says what has to be closed.
LEMMA CallImplies == CallInv => S!TypeOK /\ S!OnlyTwoAreLeft
BY DEF S!OnlyTwoAreLeft, CallInv, S!TypeOK, CallsFit, SaidFits, SecondaryFits,
   MainFits, CameraFits, ConnectionFits, PartsFit, WaiterFits, S!Pulled,
   S!UnixSockets

\* Each operation is a step of the contract, or none.
LEMMA LocalKeepsContract == ASSUME CallInv, S!Local PROVE S!Contract!Step
<1>a. main # "crashed" /\ UNCHANGED <<protocol, callCtx, peer>>
  BY DEF S!Local
<1>1. CASE S!Run
  BY <1>a, <1>1 DEF S!Run, CallInv, S!TypeOK, CallsFit, SaidFits,
     SecondaryFits, MainFits, S!Pulled, S!UnixSockets, S!Contract!Step,
     S!Contract!Next, S!Contract!vars, S!Contract!Goes, S!Contract!Spawn,
     S!Contract!Begin, S!Contract!AskReady, S!Contract!Heard,
     S!Contract!Granted, S!Contract!Refused, S!Contract!Ends, S!Contract!Told,
     S!Contract!Cancel, S!Contract!Gone
<1>2. CASE S!Dial
  BY <1>a, <1>2 DEF S!Dial, S!RunRTP, S!RunMPEGTS, S!RunRTMP, S!RunSRT,
     S!RunRTSP, S!RunHLS, S!RunPrimary, S!ListenUDP, S!ListenUnix, S!Opened,
     S!Returned, S!StartCamera, CallInv, S!TypeOK, CallsFit, SaidFits,
     SecondaryFits, MainFits, S!Pulled, S!UnixSockets, S!Contract!Step,
     S!Contract!Next, S!Contract!vars, S!Contract!Goes, S!Contract!Spawn,
     S!Contract!Begin, S!Contract!AskReady, S!Contract!Heard,
     S!Contract!Granted, S!Contract!Refused, S!Contract!Ends, S!Contract!Told,
     S!Contract!Cancel, S!Contract!Gone
<1>3. CASE S!ReadRTP
  BY <1>a, <1>3 DEF S!ReadRTP, S!Ask, S!Fail, S!Frame, CallInv, S!TypeOK,
     CallsFit, SaidFits, SecondaryFits, MainFits, S!Pulled, S!UnixSockets,
     S!Contract!Step, S!Contract!Next, S!Contract!vars, S!Contract!Goes,
     S!Contract!Spawn, S!Contract!Begin, S!Contract!AskReady,
     S!Contract!Heard, S!Contract!Granted, S!Contract!Refused,
     S!Contract!Ends, S!Contract!Told, S!Contract!Cancel, S!Contract!Gone
<1>4. CASE S!SkipForeign
  BY <1>a, <1>4 DEF S!SkipForeign, S!MorePart, CallInv, S!TypeOK, CallsFit,
     SaidFits, SecondaryFits, MainFits, S!Pulled, S!UnixSockets,
     S!Contract!Step, S!Contract!Next, S!Contract!vars, S!Contract!Goes,
     S!Contract!Spawn, S!Contract!Begin, S!Contract!AskReady,
     S!Contract!Heard, S!Contract!Granted, S!Contract!Refused,
     S!Contract!Ends, S!Contract!Told, S!Contract!Cancel, S!Contract!Gone
<1>5. CASE S!ReadMPEGTS
  BY <1>a, <1>5 DEF S!ReadMPEGTS, S!Tables, S!Ask, S!Fail, S!Frame,
     S!MorePart, CallInv, S!TypeOK, CallsFit, SaidFits, SecondaryFits,
     MainFits, S!Pulled, S!UnixSockets, S!Contract!Step, S!Contract!Next,
     S!Contract!vars, S!Contract!Goes, S!Contract!Spawn, S!Contract!Begin,
     S!Contract!AskReady, S!Contract!Heard, S!Contract!Granted,
     S!Contract!Refused, S!Contract!Ends, S!Contract!Told, S!Contract!Cancel,
     S!Contract!Gone
<1>6. CASE S!ReadSRT
  BY <1>a, <1>6 DEF S!ReadSRT, S!Tables, S!Ask, S!Fail, S!Frame, S!MorePart,
     CallInv, S!TypeOK, CallsFit, SaidFits, SecondaryFits, MainFits, S!Pulled,
     S!UnixSockets, S!Contract!Step, S!Contract!Next, S!Contract!vars,
     S!Contract!Goes, S!Contract!Spawn, S!Contract!Begin, S!Contract!AskReady,
     S!Contract!Heard, S!Contract!Granted, S!Contract!Refused,
     S!Contract!Ends, S!Contract!Told, S!Contract!Cancel, S!Contract!Gone
<1>7. CASE S!ReadRTMP
  BY <1>a, <1>7 DEF S!ReadRTMP, S!Ask, S!Fail, S!Frame, S!MorePart, CallInv,
     S!TypeOK, CallsFit, SaidFits, SecondaryFits, MainFits, S!Pulled,
     S!UnixSockets, S!Contract!Step, S!Contract!Next, S!Contract!vars,
     S!Contract!Goes, S!Contract!Spawn, S!Contract!Begin, S!Contract!AskReady,
     S!Contract!Heard, S!Contract!Granted, S!Contract!Refused,
     S!Contract!Ends, S!Contract!Told, S!Contract!Cancel, S!Contract!Gone
<1>8. CASE S!ReadRTSP
  BY <1>a, <1>8 DEF S!ReadRTSP, S!Ask, S!Fail, S!Frame, S!MorePart, CallInv,
     S!TypeOK, CallsFit, SaidFits, SecondaryFits, MainFits, S!Pulled,
     S!UnixSockets, S!Contract!Step, S!Contract!Next, S!Contract!vars,
     S!Contract!Goes, S!Contract!Spawn, S!Contract!Begin, S!Contract!AskReady,
     S!Contract!Heard, S!Contract!Granted, S!Contract!Refused,
     S!Contract!Ends, S!Contract!Told, S!Contract!Cancel, S!Contract!Gone
<1>9. CASE S!OnTracks
  BY <1>a, <1>9 DEF S!OnTracks, S!Ask, S!Fail, S!Frame, S!MorePart, CallInv,
     S!TypeOK, CallsFit, SaidFits, SecondaryFits, MainFits, S!Pulled,
     S!UnixSockets, S!Contract!Step, S!Contract!Next, S!Contract!vars,
     S!Contract!Goes, S!Contract!Spawn, S!Contract!Begin, S!Contract!AskReady,
     S!Contract!Heard, S!Contract!Granted, S!Contract!Refused,
     S!Contract!Ends, S!Contract!Told, S!Contract!Cancel, S!Contract!Gone
<1>10. CASE S!ReadCamera
  BY <1>a, <1>10 DEF S!ReadCamera, S!Ask, S!Fail, S!Frame, S!MorePart,
     CallInv, S!TypeOK, CallsFit, SaidFits, SecondaryFits, MainFits, S!Pulled,
     S!UnixSockets, S!Contract!Step, S!Contract!Next, S!Contract!vars,
     S!Contract!Goes, S!Contract!Spawn, S!Contract!Begin, S!Contract!AskReady,
     S!Contract!Heard, S!Contract!Granted, S!Contract!Refused,
     S!Contract!Ends, S!Contract!Told, S!Contract!Cancel, S!Contract!Gone
<1>11. CASE S!ReadFails
  BY <1>a, <1>11 DEF S!ReadFails, S!Fail, CallInv, S!TypeOK, CallsFit,
     SaidFits, SecondaryFits, MainFits, S!Pulled, S!UnixSockets,
     S!Contract!Step, S!Contract!Next, S!Contract!vars, S!Contract!Goes,
     S!Contract!Spawn, S!Contract!Begin, S!Contract!AskReady,
     S!Contract!Heard, S!Contract!Granted, S!Contract!Refused,
     S!Contract!Ends, S!Contract!Told, S!Contract!Cancel, S!Contract!Gone
<1>12. CASE S!Accept
  BY <1>a, <1>12 DEF S!Accept, S!Accepts, CallInv, S!TypeOK, CallsFit,
     SaidFits, SecondaryFits, MainFits, S!Pulled, S!UnixSockets,
     S!Contract!Step, S!Contract!Next, S!Contract!vars, S!Contract!Goes,
     S!Contract!Spawn, S!Contract!Begin, S!Contract!AskReady,
     S!Contract!Heard, S!Contract!Granted, S!Contract!Refused,
     S!Contract!Ends, S!Contract!Told, S!Contract!Cancel, S!Contract!Gone
<1>13. CASE S!SetConn
  BY <1>a, <1>13 DEF S!SetConn, CallInv, S!TypeOK, CallsFit, SaidFits,
     SecondaryFits, MainFits, S!Pulled, S!UnixSockets, S!Contract!Step,
     S!Contract!Next, S!Contract!vars, S!Contract!Goes, S!Contract!Spawn,
     S!Contract!Begin, S!Contract!AskReady, S!Contract!Heard,
     S!Contract!Granted, S!Contract!Refused, S!Contract!Ends, S!Contract!Told,
     S!Contract!Cancel, S!Contract!Gone
<1>14. CASE S!CameraEnds
  BY <1>a, <1>14 DEF S!CameraEnds, CallInv, S!TypeOK, CallsFit, SaidFits,
     SecondaryFits, MainFits, S!Pulled, S!UnixSockets, S!Contract!Step,
     S!Contract!Next, S!Contract!vars, S!Contract!Goes, S!Contract!Spawn,
     S!Contract!Begin, S!Contract!AskReady, S!Contract!Heard,
     S!Contract!Granted, S!Contract!Refused, S!Contract!Ends, S!Contract!Told,
     S!Contract!Cancel, S!Contract!Gone
<1>15. CASE S!ReaderOver
  BY <1>a, <1>15 DEF S!ReaderOver, S!CameraDone, S!Close, S!TakeBack, CallInv,
     S!TypeOK, CallsFit, SaidFits, SecondaryFits, MainFits, S!Pulled,
     S!UnixSockets, S!Contract!Step, S!Contract!Next, S!Contract!vars,
     S!Contract!Goes, S!Contract!Spawn, S!Contract!Begin, S!Contract!AskReady,
     S!Contract!Heard, S!Contract!Granted, S!Contract!Refused,
     S!Contract!Ends, S!Contract!Told, S!Contract!Cancel, S!Contract!Gone
<1>16. CASE S!Cancelled
  BY <1>a, <1>16 DEF S!Cancelled, S!Close, CallInv, S!TypeOK, CallsFit,
     SaidFits, SecondaryFits, MainFits, S!Pulled, S!UnixSockets,
     S!Contract!Step, S!Contract!Next, S!Contract!vars, S!Contract!Goes,
     S!Contract!Spawn, S!Contract!Begin, S!Contract!AskReady,
     S!Contract!Heard, S!Contract!Granted, S!Contract!Refused,
     S!Contract!Ends, S!Contract!Told, S!Contract!Cancel, S!Contract!Gone
<1>17. CASE S!Waited
  BY <1>a, <1>17 DEF S!Waited, S!CameraDone, S!TakeBack, CallInv, S!TypeOK,
     CallsFit, SaidFits, SecondaryFits, MainFits, S!Pulled, S!UnixSockets,
     S!Contract!Step, S!Contract!Next, S!Contract!vars, S!Contract!Goes,
     S!Contract!Spawn, S!Contract!Begin, S!Contract!AskReady,
     S!Contract!Heard, S!Contract!Granted, S!Contract!Refused,
     S!Contract!Ends, S!Contract!Told, S!Contract!Cancel, S!Contract!Gone
<1>18. CASE S!Join
  BY <1>a, <1>18 DEF S!Join, S!Returned, CallInv, S!TypeOK, CallsFit,
     SaidFits, SecondaryFits, MainFits, S!Pulled, S!UnixSockets,
     S!Contract!Step, S!Contract!Next, S!Contract!vars, S!Contract!Goes,
     S!Contract!Spawn, S!Contract!Begin, S!Contract!AskReady,
     S!Contract!Heard, S!Contract!Granted, S!Contract!Refused,
     S!Contract!Ends, S!Contract!Told, S!Contract!Cancel, S!Contract!Gone
<1>19. CASE S!Pause
  BY <1>a, <1>19 DEF S!Pause, S!Returned, CallInv, S!TypeOK, CallsFit,
     SaidFits, SecondaryFits, MainFits, S!Pulled, S!UnixSockets,
     S!Contract!Step, S!Contract!Next, S!Contract!vars, S!Contract!Goes,
     S!Contract!Spawn, S!Contract!Begin, S!Contract!AskReady,
     S!Contract!Heard, S!Contract!Granted, S!Contract!Refused,
     S!Contract!Ends, S!Contract!Told, S!Contract!Cancel, S!Contract!Gone
<1>20. CASE S!LeavePrimary
  BY <1>a, <1>20 DEF S!LeavePrimary, CallInv, S!TypeOK, CallsFit, SaidFits,
     SecondaryFits, MainFits, S!Pulled, S!UnixSockets, S!Contract!Step,
     S!Contract!Next, S!Contract!vars, S!Contract!Goes, S!Contract!Spawn,
     S!Contract!Begin, S!Contract!AskReady, S!Contract!Heard,
     S!Contract!Granted, S!Contract!Refused, S!Contract!Ends, S!Contract!Told,
     S!Contract!Cancel, S!Contract!Gone
<1>21. CASE S!Forwarded
  BY <1>a, <1>21 DEF S!Forwarded, CallInv, S!TypeOK, CallsFit, SaidFits,
     SecondaryFits, MainFits, S!Pulled, S!UnixSockets, S!Contract!Step,
     S!Contract!Next, S!Contract!vars, S!Contract!Goes, S!Contract!Spawn,
     S!Contract!Begin, S!Contract!AskReady, S!Contract!Heard,
     S!Contract!Granted, S!Contract!Refused, S!Contract!Ends, S!Contract!Told,
     S!Contract!Cancel, S!Contract!Gone
<1>22. CASE S!SetReady
  BY <1>a, <1>22 DEF S!SetReady, CallInv, S!TypeOK, CallsFit, SaidFits,
     SecondaryFits, MainFits, S!Pulled, S!UnixSockets, S!Contract!Step,
     S!Contract!Next, S!Contract!vars, S!Contract!Goes, S!Contract!Spawn,
     S!Contract!Begin, S!Contract!AskReady, S!Contract!Heard,
     S!Contract!Granted, S!Contract!Refused, S!Contract!Ends, S!Contract!Told,
     S!Contract!Cancel, S!Contract!Gone
<1>23. CASE S!SetReadyFails
  BY <1>a, <1>23 DEF S!SetReadyFails, CallInv, S!TypeOK, CallsFit, SaidFits,
     SecondaryFits, MainFits, S!Pulled, S!UnixSockets, S!Contract!Step,
     S!Contract!Next, S!Contract!vars, S!Contract!Goes, S!Contract!Spawn,
     S!Contract!Begin, S!Contract!AskReady, S!Contract!Heard,
     S!Contract!Granted, S!Contract!Refused, S!Contract!Ends, S!Contract!Told,
     S!Contract!Cancel, S!Contract!Gone
<1>24. CASE S!SetNotReady
  BY <1>a, <1>24 DEF S!SetNotReady, CallInv, S!TypeOK, CallsFit, SaidFits,
     SecondaryFits, MainFits, S!Pulled, S!UnixSockets, S!Contract!Step,
     S!Contract!Next, S!Contract!vars, S!Contract!Goes, S!Contract!Spawn,
     S!Contract!Begin, S!Contract!AskReady, S!Contract!Heard,
     S!Contract!Granted, S!Contract!Refused, S!Contract!Ends, S!Contract!Told,
     S!Contract!Cancel, S!Contract!Gone
<1>25. CASE S!WaiterSends
  BY <1>a, <1>25 DEF S!WaiterSends, S!Contract!Step, S!Contract!vars
<1> QED
  BY <1>1, <1>2, <1>3, <1>4, <1>5, <1>6, <1>7, <1>8, <1>9, <1>10, <1>11, <1>12, <1>13,
     <1>14, <1>15, <1>16, <1>17, <1>18, <1>19, <1>20, <1>21, <1>22, <1>23, <1>24, <1>25 DEF
     S!Local, S!Read, S!Proceed, S!Parent

LEMMA CallKeepsContract == ASSUME CallInv, [S!Next]_(S!vars) PROVE S!Contract!Step
<1>1. CASE S!Local
  BY <1>1, LocalKeepsContract
<1>2. CASE S!CancelRun
  BY <1>2 DEF S!CancelRun, S!localVars, S!Contract!Step, S!Contract!Next,
     S!Contract!vars, S!Contract!Goes, S!Contract!Spawn, S!Contract!Begin,
     S!Contract!AskReady, S!Contract!Heard, S!Contract!Granted,
     S!Contract!Refused, S!Contract!Ends, S!Contract!Told, S!Contract!Cancel,
     S!Contract!Gone
<1>3. CASE S!Tick \/ S!PeerFails \/ S!Over \/ UNCHANGED S!vars
  BY <1>3 DEF S!Tick, S!PeerFails, S!Over, S!vars, S!localVars,
     S!Contract!Step, S!Contract!Next, S!Contract!vars, S!Contract!Goes,
     S!Contract!Spawn, S!Contract!Begin, S!Contract!AskReady,
     S!Contract!Heard, S!Contract!Granted, S!Contract!Refused,
     S!Contract!Ends, S!Contract!Told, S!Contract!Cancel, S!Contract!Gone
<1> QED
  BY <1>1, <1>2, <1>3 DEF S!Next

-----------------------------------------------------------------------------
(***************************************************************************)
(* One call of Run of the WebRTC source (WhepSource).                      *)
(***************************************************************************)

\* Where Run, its goroutine and the peer connection are together.
PhasesFit ==
  /\ whepMain \in {"off", "options"} => whepInner = "off" /\ pc = "none"
  /\ whepMain = "initializing" => whepInner # "off" /\ pc = "open"
  /\ whepMain = "closing" => whepInner # "off" /\ pc \in {"closing", "closed"}
  /\ whepMain \in {"tracks", "asking", "starting", "select"} =>
       whepInner = "succeeded" /\ pc = "open"
  /\ whepMain \in {"dropping", "leaving"} => whepInner = "succeeded" /\ pc # "none"
  /\ whepMain = "telling" => whepInner = "succeeded" /\ pc = "closed"
  /\ whepMain = "returned" => \/ whepInner = "off" /\ pc = "none"
                              \/ whepInner \in {"failed", "succeeded"} /\ pc = "closed"

\* The calls to the parent, and what it has answered.
WhepCallsFit ==
  /\ whepCall \in {"readyCall", "readyWait"} <=> whepMain = "asking"
  /\ whepCall \in {"notReadyCall", "notReadyWait"} <=> whepMain = "telling"
  /\ whepMain \notin {"starting", "select", "leaving", "telling", "dropping", "returned"} =>
       whepSaid = "nothing"
  /\ whepMain \in {"starting", "select", "leaving", "telling"} => whepSaid = "ready"
  /\ whepMain \in {"dropping", "returned"} => whepSaid # "ready"

\* A peer connection that is closed has no callback left.
PeerFits ==
  /\ pc = "none" => candidates = "none" /\ ~track
  /\ pc = "closed" => candidates # "blocked" /\ ~track /\ ~started
  /\ started => whepMain \in {"select", "leaving"}

\* The session at the server, which Run deletes before it ends, or loses.
SessionFits ==
  /\ whepInner \in {"off", "offering", "posting"} => session = "none" /\ tracks = 0
  /\ whepInner \in {"answered", "connecting", "patching"} => tracks = 0
  /\ whepInner \in {"answered", "connecting", "patching", "gathering"} =>
       announced \in 1..MaxTracks
  /\ whepInner = "gathering" => tracks < announced
  /\ whepInner = "failed" /\ session = "held" => lost
  /\ whepInner = "succeeded" /\ session = "held" =>
       \/ lost
       \/ whepMain \in {"initializing", "closing", "tracks", "asking", "starting", "select"}
       \/ whepMain \in {"dropping", "leaving"} /\ pc = "open"

WhepInv == W!TypeOK /\ PhasesFit /\ WhepCallsFit /\ PeerFits /\ SessionFits

\* It holds of a call that has not begun.
LEMMA WhepInit == W!Init => WhepInv
<1> SUFFICES ASSUME W!Init PROVE WhepInv
  OBVIOUS
<1>1. /\ 0 \in 0..MaxTracks /\ 0 \in 0..Patience
  BY SourcesAssumption
<1>2. /\ whepCtx \in BOOLEAN /\ trickle \in BOOLEAN /\ started \in BOOLEAN
      /\ track \in BOOLEAN /\ lost \in BOOLEAN
  BY DEF W!Init
<1>3. W!TypeOK
  BY <1>1, <1>2 DEF W!Init, W!TypeOK
<1> QED
  BY <1>3 DEF W!Init, WhepInv, PhasesFit, WhepCallsFit, PeerFits, SessionFits

\* Each operation keeps it.
LEMMA WhepStep == ASSUME WhepInv, [W!Next]_(W!vars) PROVE WhepInv'
<1>1. CASE W!Run
  BY <1>1, SourcesAssumption DEF W!Run, W!Goes, W!clientVars, W!pcVars,
     W!parentVars, WhepInv, W!TypeOK, PhasesFit, WhepCallsFit, PeerFits,
     SessionFits
<1>2. CASE W!StateChanges
  BY <1>2, SourcesAssumption DEF W!StateChanges, W!Open, W!clientVars,
     W!pcVars, W!parentVars, WhepInv, W!TypeOK, PhasesFit, WhepCallsFit,
     PeerFits, SessionFits
<1>3. CASE W!NewCandidate
  BY <1>3, SourcesAssumption DEF W!NewCandidate, W!Open, W!clientVars,
     W!pcVars, W!parentVars, WhepInv, W!TypeOK, PhasesFit, WhepCallsFit,
     PeerFits, SessionFits
<1>4. CASE W!CandidateDropped
  BY <1>4, SourcesAssumption DEF W!CandidateDropped, W!Open, W!clientVars,
     W!pcVars, W!parentVars, WhepInv, W!TypeOK, PhasesFit, WhepCallsFit,
     PeerFits, SessionFits
<1>5. CASE W!NewTrack
  BY <1>5, SourcesAssumption DEF W!NewTrack, W!Open, W!clientVars, W!pcVars,
     W!parentVars, WhepInv, W!TypeOK, PhasesFit, WhepCallsFit, PeerFits,
     SessionFits
<1>6. CASE W!TrackDropped
  <2>a. /\ whepCtx' \in BOOLEAN /\ trickle' \in BOOLEAN /\ started' \in BOOLEAN
        /\ track' \in BOOLEAN /\ lost' \in BOOLEAN
    BY <1>6, SourcesAssumption DEF W!TrackDropped, W!Open, W!clientVars,
       W!pcVars, W!parentVars, WhepInv, W!TypeOK, SessionFits
  <2>b. /\ announced' \in 0..MaxTracks /\ tracks' \in 0..MaxTracks
        /\ whepClock' \in 0..Patience
    BY <1>6, SourcesAssumption DEF W!TrackDropped, W!Open, W!clientVars,
       W!pcVars, W!parentVars, WhepInv, W!TypeOK, SessionFits
  <2>1. W!TypeOK'
    BY <1>6, SourcesAssumption, <2>a, <2>b DEF W!TrackDropped, W!Open,
       W!clientVars, W!pcVars, W!parentVars, WhepInv, W!TypeOK, SessionFits
  <2>2. PhasesFit'
    BY <1>6, SourcesAssumption DEF W!TrackDropped, W!Open, W!clientVars,
       W!pcVars, W!parentVars, WhepInv, W!TypeOK, PhasesFit
  <2>3. WhepCallsFit'
    BY <1>6, SourcesAssumption DEF W!TrackDropped, W!Open, W!clientVars,
       W!pcVars, W!parentVars, WhepInv, W!TypeOK, WhepCallsFit
  <2>4. PeerFits'
    BY <1>6, SourcesAssumption DEF W!TrackDropped, W!Open, W!clientVars,
       W!pcVars, W!parentVars, WhepInv, W!TypeOK, PhasesFit, PeerFits
  <2>5. SessionFits'
    BY <1>6, SourcesAssumption DEF W!TrackDropped, W!Open, W!clientVars,
       W!pcVars, W!parentVars, WhepInv, W!TypeOK, PhasesFit, SessionFits
  <2> QED
    BY <2>1, <2>2, <2>3, <2>4, <2>5 DEF WhepInv
<1>7. CASE W!CreateOffer
  BY <1>7, SourcesAssumption DEF W!CreateOffer, W!At, W!Step, W!clientVars,
     W!pcVars, W!parentVars, WhepInv, W!TypeOK, PhasesFit, WhepCallsFit,
     PeerFits, SessionFits
<1>8. CASE W!WaitGatheringDone
  BY <1>8, SourcesAssumption DEF W!WaitGatheringDone, W!At, W!Step, W!Open,
     W!clientVars, W!pcVars, W!parentVars, WhepInv, W!TypeOK, PhasesFit,
     WhepCallsFit, PeerFits, SessionFits
<1>9. CASE W!PostOffer
  <2>a. /\ whepCtx' \in BOOLEAN /\ trickle' \in BOOLEAN /\ started' \in BOOLEAN
        /\ track' \in BOOLEAN /\ lost' \in BOOLEAN
    BY <1>9, SourcesAssumption DEF W!PostOffer, W!At, W!Step, W!clientVars,
       W!pcVars, W!parentVars, WhepInv, W!TypeOK, SessionFits
  <2>b. /\ announced' \in 0..MaxTracks /\ tracks' \in 0..MaxTracks
        /\ whepClock' \in 0..Patience
    BY <1>9, SourcesAssumption DEF W!PostOffer, W!At, W!Step, W!clientVars,
       W!pcVars, W!parentVars, WhepInv, W!TypeOK, SessionFits
  <2>1. W!TypeOK'
    BY <1>9, SourcesAssumption, <2>a, <2>b DEF W!PostOffer, W!At, W!Step,
       W!clientVars, W!pcVars, W!parentVars, WhepInv, W!TypeOK, SessionFits
  <2>2. PhasesFit'
    BY <1>9, SourcesAssumption DEF W!PostOffer, W!At, W!Step, W!clientVars,
       W!pcVars, W!parentVars, WhepInv, W!TypeOK, PhasesFit
  <2>3. WhepCallsFit'
    BY <1>9, SourcesAssumption DEF W!PostOffer, W!At, W!Step, W!clientVars,
       W!pcVars, W!parentVars, WhepInv, W!TypeOK, WhepCallsFit
  <2>4. PeerFits'
    BY <1>9, SourcesAssumption DEF W!PostOffer, W!At, W!Step, W!clientVars,
       W!pcVars, W!parentVars, WhepInv, W!TypeOK, PhasesFit, PeerFits
  <2>5. SessionFits'
    BY <1>9, SourcesAssumption DEF W!PostOffer, W!At, W!Step, W!clientVars,
       W!pcVars, W!parentVars, WhepInv, W!TypeOK, PhasesFit, SessionFits
  <2> QED
    BY <2>1, <2>2, <2>3, <2>4, <2>5 DEF WhepInv
<1>10. CASE W!SetAnswer
  BY <1>10, SourcesAssumption DEF W!SetAnswer, W!At, W!Step, W!clientVars,
     W!pcVars, W!parentVars, WhepInv, W!TypeOK, PhasesFit, WhepCallsFit,
     PeerFits, SessionFits
<1>11. CASE W!WaitConnected
  BY <1>11, SourcesAssumption DEF W!WaitConnected, W!At, W!Step, W!clientVars,
     W!pcVars, W!parentVars, WhepInv, W!TypeOK, PhasesFit, WhepCallsFit,
     PeerFits, SessionFits
<1>12. CASE W!TakeCandidate
  BY <1>12, SourcesAssumption DEF W!TakeCandidate, W!At, W!Step, W!clientVars,
     W!pcVars, W!parentVars, WhepInv, W!TypeOK, PhasesFit, WhepCallsFit,
     PeerFits, SessionFits
<1>13. CASE W!PatchCandidate
  BY <1>13, SourcesAssumption DEF W!PatchCandidate, W!At, W!Step,
     W!clientVars, W!pcVars, W!parentVars, WhepInv, W!TypeOK, PhasesFit,
     WhepCallsFit, PeerFits, SessionFits
<1>14. CASE W!HandshakeExpires
  BY <1>14, SourcesAssumption DEF W!HandshakeExpires, W!At, W!Step,
     W!clientVars, W!pcVars, W!parentVars, WhepInv, W!TypeOK, PhasesFit,
     WhepCallsFit, PeerFits, SessionFits
<1>15. CASE W!GatherTrack
  <2>a. /\ whepCtx' \in BOOLEAN /\ trickle' \in BOOLEAN /\ started' \in BOOLEAN
        /\ track' \in BOOLEAN /\ lost' \in BOOLEAN
    BY <1>15, SourcesAssumption DEF W!GatherTrack, W!At, W!Step, W!clientVars,
       W!pcVars, W!parentVars, WhepInv, W!TypeOK, SessionFits
  <2>b. /\ announced' \in 0..MaxTracks /\ tracks' \in 0..MaxTracks
        /\ whepClock' \in 0..Patience
    BY <1>15, SourcesAssumption DEF W!GatherTrack, W!At, W!Step, W!clientVars,
       W!pcVars, W!parentVars, WhepInv, W!TypeOK, SessionFits
  <2>1. W!TypeOK'
    BY <1>15, SourcesAssumption, <2>a, <2>b DEF W!GatherTrack, W!At, W!Step,
       W!clientVars, W!pcVars, W!parentVars, WhepInv, W!TypeOK, SessionFits
  <2>2. PhasesFit'
    BY <1>15, SourcesAssumption DEF W!GatherTrack, W!At, W!Step, W!clientVars,
       W!pcVars, W!parentVars, WhepInv, W!TypeOK, PhasesFit
  <2>3. WhepCallsFit'
    BY <1>15, SourcesAssumption DEF W!GatherTrack, W!At, W!Step, W!clientVars,
       W!pcVars, W!parentVars, WhepInv, W!TypeOK, WhepCallsFit
  <2>4. PeerFits'
    BY <1>15, SourcesAssumption DEF W!GatherTrack, W!At, W!Step, W!clientVars,
       W!pcVars, W!parentVars, WhepInv, W!TypeOK, PhasesFit, PeerFits
  <2>5. SessionFits'
    BY <1>15, SourcesAssumption DEF W!GatherTrack, W!At, W!Step, W!clientVars,
       W!pcVars, W!parentVars, WhepInv, W!TypeOK, PhasesFit, SessionFits
  <2> QED
    BY <2>1, <2>2, <2>3, <2>4, <2>5 DEF WhepInv
<1>16. CASE W!GatherEnds
  BY <1>16, SourcesAssumption DEF W!GatherEnds, W!At, W!Step, W!clientVars,
     W!pcVars, W!parentVars, WhepInv, W!TypeOK, PhasesFit, WhepCallsFit,
     PeerFits, SessionFits
<1>17. CASE W!DeleteSession
  <2>a. /\ whepCtx' \in BOOLEAN /\ trickle' \in BOOLEAN /\ started' \in BOOLEAN
        /\ track' \in BOOLEAN /\ lost' \in BOOLEAN
    BY <1>17, SourcesAssumption DEF W!DeleteSession, W!At, W!Step,
       W!DeleteAnswered, W!clientVars, W!pcVars, W!parentVars, WhepInv,
       W!TypeOK, SessionFits
  <2>b. /\ announced' \in 0..MaxTracks /\ tracks' \in 0..MaxTracks
        /\ whepClock' \in 0..Patience
    BY <1>17, SourcesAssumption DEF W!DeleteSession, W!At, W!Step,
       W!DeleteAnswered, W!clientVars, W!pcVars, W!parentVars, WhepInv,
       W!TypeOK, SessionFits
  <2>1. W!TypeOK'
    BY <1>17, SourcesAssumption, <2>a, <2>b DEF W!DeleteSession, W!At, W!Step,
       W!DeleteAnswered, W!clientVars, W!pcVars, W!parentVars, WhepInv,
       W!TypeOK, SessionFits
  <2>2. PhasesFit'
    BY <1>17, SourcesAssumption DEF W!DeleteSession, W!At, W!Step,
       W!DeleteAnswered, W!clientVars, W!pcVars, W!parentVars, WhepInv,
       W!TypeOK, PhasesFit
  <2>3. WhepCallsFit'
    BY <1>17, SourcesAssumption DEF W!DeleteSession, W!At, W!Step,
       W!DeleteAnswered, W!clientVars, W!pcVars, W!parentVars, WhepInv,
       W!TypeOK, WhepCallsFit
  <2>4. PeerFits'
    BY <1>17, SourcesAssumption DEF W!DeleteSession, W!At, W!Step,
       W!DeleteAnswered, W!clientVars, W!pcVars, W!parentVars, WhepInv,
       W!TypeOK, PhasesFit, PeerFits
  <2>5. SessionFits'
    BY <1>17, SourcesAssumption DEF W!DeleteSession, W!At, W!Step,
       W!DeleteAnswered, W!clientVars, W!pcVars, W!parentVars, WhepInv,
       W!TypeOK, PhasesFit, SessionFits
  <2> QED
    BY <2>1, <2>2, <2>3, <2>4, <2>5 DEF WhepInv
<1>18. CASE W!Options
  BY <1>18, SourcesAssumption DEF W!Options, W!Goes, W!Start, W!clientVars,
     W!pcVars, W!parentVars, WhepInv, W!TypeOK, PhasesFit, WhepCallsFit,
     PeerFits, SessionFits
<1>19. CASE W!Initialized
  BY <1>19, SourcesAssumption DEF W!Initialized, W!Goes, W!CloseBegins,
     W!clientVars, W!pcVars, W!parentVars, WhepInv, W!TypeOK, PhasesFit,
     WhepCallsFit, PeerFits, SessionFits
<1>20. CASE W!InitializeFails
  <2>a. /\ whepCtx' \in BOOLEAN /\ trickle' \in BOOLEAN /\ started' \in BOOLEAN
        /\ track' \in BOOLEAN /\ lost' \in BOOLEAN
    BY <1>20, SourcesAssumption DEF W!InitializeFails, W!clientVars, W!pcVars,
       W!parentVars, WhepInv, W!TypeOK, SessionFits
  <2>b. /\ announced' \in 0..MaxTracks /\ tracks' \in 0..MaxTracks
        /\ whepClock' \in 0..Patience
    BY <1>20, SourcesAssumption DEF W!InitializeFails, W!clientVars, W!pcVars,
       W!parentVars, WhepInv, W!TypeOK, SessionFits
  <2>1. W!TypeOK'
    BY <1>20, SourcesAssumption, <2>a, <2>b DEF W!InitializeFails,
       W!clientVars, W!pcVars, W!parentVars, WhepInv, W!TypeOK, SessionFits
  <2>2. PhasesFit'
    BY <1>20, SourcesAssumption DEF W!InitializeFails, W!clientVars, W!pcVars,
       W!parentVars, WhepInv, W!TypeOK, PhasesFit
  <2>3. WhepCallsFit'
    BY <1>20, SourcesAssumption DEF W!InitializeFails, W!clientVars, W!pcVars,
       W!parentVars, WhepInv, W!TypeOK, WhepCallsFit
  <2>4. PeerFits'
    BY <1>20, SourcesAssumption DEF W!InitializeFails, W!clientVars, W!pcVars,
       W!parentVars, WhepInv, W!TypeOK, PhasesFit, PeerFits
  <2>5. SessionFits'
    BY <1>20, SourcesAssumption DEF W!InitializeFails, W!clientVars, W!pcVars,
       W!parentVars, WhepInv, W!TypeOK, PhasesFit, SessionFits
  <2> QED
    BY <2>1, <2>2, <2>3, <2>4, <2>5 DEF WhepInv
<1>21. CASE W!ToStream
  BY <1>21, SourcesAssumption DEF W!ToStream, W!clientVars, W!pcVars,
     W!parentVars, WhepInv, W!TypeOK, PhasesFit, WhepCallsFit, PeerFits,
     SessionFits
<1>22. CASE W!Dropped
  <2>a. /\ whepCtx' \in BOOLEAN /\ trickle' \in BOOLEAN /\ started' \in BOOLEAN
        /\ track' \in BOOLEAN /\ lost' \in BOOLEAN
    BY <1>22, SourcesAssumption DEF W!Dropped, W!CloseClient, W!CloseBegins,
       W!DeleteAnswered, W!clientVars, W!pcVars, W!parentVars, WhepInv,
       W!TypeOK, SessionFits
  <2>b. /\ announced' \in 0..MaxTracks /\ tracks' \in 0..MaxTracks
        /\ whepClock' \in 0..Patience
    BY <1>22, SourcesAssumption DEF W!Dropped, W!CloseClient, W!CloseBegins,
       W!DeleteAnswered, W!clientVars, W!pcVars, W!parentVars, WhepInv,
       W!TypeOK, SessionFits
  <2>1. W!TypeOK'
    BY <1>22, SourcesAssumption, <2>a, <2>b DEF W!Dropped, W!CloseClient,
       W!CloseBegins, W!DeleteAnswered, W!clientVars, W!pcVars, W!parentVars,
       WhepInv, W!TypeOK, SessionFits
  <2>2. PhasesFit'
    BY <1>22, SourcesAssumption DEF W!Dropped, W!CloseClient, W!CloseBegins,
       W!DeleteAnswered, W!clientVars, W!pcVars, W!parentVars, WhepInv,
       W!TypeOK, PhasesFit
  <2>3. WhepCallsFit'
    BY <1>22, SourcesAssumption DEF W!Dropped, W!CloseClient, W!CloseBegins,
       W!DeleteAnswered, W!clientVars, W!pcVars, W!parentVars, WhepInv,
       W!TypeOK, WhepCallsFit
  <2>4. PeerFits'
    BY <1>22, SourcesAssumption DEF W!Dropped, W!CloseClient, W!CloseBegins,
       W!DeleteAnswered, W!clientVars, W!pcVars, W!parentVars, WhepInv,
       W!TypeOK, PhasesFit, PeerFits
  <2>5. SessionFits'
    BY <1>22, SourcesAssumption DEF W!Dropped, W!CloseClient, W!CloseBegins,
       W!DeleteAnswered, W!clientVars, W!pcVars, W!parentVars, WhepInv,
       W!TypeOK, PhasesFit, SessionFits
  <2> QED
    BY <2>1, <2>2, <2>3, <2>4, <2>5 DEF WhepInv
<1>23. CASE W!StartReading
  BY <1>23, SourcesAssumption DEF W!StartReading, W!Goes, W!Open,
     W!clientVars, W!pcVars, W!parentVars, WhepInv, W!TypeOK, PhasesFit,
     WhepCallsFit, PeerFits, SessionFits
<1>24. CASE W!Ends
  BY <1>24, SourcesAssumption DEF W!Ends, W!Goes, W!clientVars, W!pcVars,
     W!parentVars, WhepInv, W!TypeOK, PhasesFit, WhepCallsFit, PeerFits,
     SessionFits
<1>25. CASE W!Left
  <2>a. /\ whepCtx' \in BOOLEAN /\ trickle' \in BOOLEAN /\ started' \in BOOLEAN
        /\ track' \in BOOLEAN /\ lost' \in BOOLEAN
    BY <1>25, SourcesAssumption DEF W!Left, W!CloseClient, W!CloseBegins,
       W!DeleteAnswered, W!clientVars, W!pcVars, W!parentVars, WhepInv,
       W!TypeOK, SessionFits
  <2>b. /\ announced' \in 0..MaxTracks /\ tracks' \in 0..MaxTracks
        /\ whepClock' \in 0..Patience
    BY <1>25, SourcesAssumption DEF W!Left, W!CloseClient, W!CloseBegins,
       W!DeleteAnswered, W!clientVars, W!pcVars, W!parentVars, WhepInv,
       W!TypeOK, SessionFits
  <2>1. W!TypeOK'
    BY <1>25, SourcesAssumption, <2>a, <2>b DEF W!Left, W!CloseClient,
       W!CloseBegins, W!DeleteAnswered, W!clientVars, W!pcVars, W!parentVars,
       WhepInv, W!TypeOK, SessionFits
  <2>2. PhasesFit'
    BY <1>25, SourcesAssumption DEF W!Left, W!CloseClient, W!CloseBegins,
       W!DeleteAnswered, W!clientVars, W!pcVars, W!parentVars, WhepInv,
       W!TypeOK, PhasesFit
  <2>3. WhepCallsFit'
    BY <1>25, SourcesAssumption DEF W!Left, W!CloseClient, W!CloseBegins,
       W!DeleteAnswered, W!clientVars, W!pcVars, W!parentVars, WhepInv,
       W!TypeOK, WhepCallsFit
  <2>4. PeerFits'
    BY <1>25, SourcesAssumption DEF W!Left, W!CloseClient, W!CloseBegins,
       W!DeleteAnswered, W!clientVars, W!pcVars, W!parentVars, WhepInv,
       W!TypeOK, PhasesFit, PeerFits
  <2>5. SessionFits'
    BY <1>25, SourcesAssumption DEF W!Left, W!CloseClient, W!CloseBegins,
       W!DeleteAnswered, W!clientVars, W!pcVars, W!parentVars, WhepInv,
       W!TypeOK, PhasesFit, SessionFits
  <2> QED
    BY <2>1, <2>2, <2>3, <2>4, <2>5 DEF WhepInv
<1>26. CASE W!CloseEnds
  <2>a. /\ whepCtx' \in BOOLEAN /\ trickle' \in BOOLEAN /\ started' \in BOOLEAN
        /\ track' \in BOOLEAN /\ lost' \in BOOLEAN
    BY <1>26, SourcesAssumption DEF W!CloseEnds, W!clientVars, W!pcVars,
       W!parentVars, WhepInv, W!TypeOK, SessionFits
  <2>b. /\ announced' \in 0..MaxTracks /\ tracks' \in 0..MaxTracks
        /\ whepClock' \in 0..Patience
    BY <1>26, SourcesAssumption DEF W!CloseEnds, W!clientVars, W!pcVars,
       W!parentVars, WhepInv, W!TypeOK, SessionFits
  <2>1. W!TypeOK'
    BY <1>26, SourcesAssumption, <2>a, <2>b DEF W!CloseEnds, W!clientVars,
       W!pcVars, W!parentVars, WhepInv, W!TypeOK, SessionFits
  <2>2. PhasesFit'
    BY <1>26, SourcesAssumption DEF W!CloseEnds, W!clientVars, W!pcVars,
       W!parentVars, WhepInv, W!TypeOK, PhasesFit
  <2>3. WhepCallsFit'
    BY <1>26, SourcesAssumption DEF W!CloseEnds, W!clientVars, W!pcVars,
       W!parentVars, WhepInv, W!TypeOK, WhepCallsFit
  <2>4. PeerFits'
    BY <1>26, SourcesAssumption DEF W!CloseEnds, W!clientVars, W!pcVars,
       W!parentVars, WhepInv, W!TypeOK, PhasesFit, PeerFits
  <2>5. SessionFits'
    BY <1>26, SourcesAssumption DEF W!CloseEnds, W!clientVars, W!pcVars,
       W!parentVars, WhepInv, W!TypeOK, PhasesFit, SessionFits
  <2> QED
    BY <2>1, <2>2, <2>3, <2>4, <2>5 DEF WhepInv
<1>27. CASE W!Forwarded
  BY <1>27, SourcesAssumption DEF W!Forwarded, W!clientVars, W!pcVars,
     W!parentVars, WhepInv, W!TypeOK, PhasesFit, WhepCallsFit, PeerFits,
     SessionFits
<1>28. CASE W!SetReady
  BY <1>28, SourcesAssumption DEF W!SetReady, W!Goes, W!clientVars, W!pcVars,
     W!parentVars, WhepInv, W!TypeOK, PhasesFit, WhepCallsFit, PeerFits,
     SessionFits
<1>29. CASE W!SetNotReady
  BY <1>29, SourcesAssumption DEF W!SetNotReady, W!Goes, W!clientVars,
     W!pcVars, W!parentVars, WhepInv, W!TypeOK, PhasesFit, WhepCallsFit,
     PeerFits, SessionFits
<1>30. CASE W!Tick
  BY <1>30, SourcesAssumption DEF W!Tick, W!Timed, W!Expired, W!clientVars,
     W!pcVars, W!parentVars, WhepInv, W!TypeOK, PhasesFit, WhepCallsFit,
     PeerFits, SessionFits
<1>31. CASE W!CancelRun
  <2>a. /\ whepCtx' \in BOOLEAN /\ trickle' \in BOOLEAN /\ started' \in BOOLEAN
        /\ track' \in BOOLEAN /\ lost' \in BOOLEAN
    BY <1>31, SourcesAssumption DEF W!CancelRun, W!clientVars, W!pcVars,
       W!parentVars, WhepInv, W!TypeOK, SessionFits
  <2>b. /\ announced' \in 0..MaxTracks /\ tracks' \in 0..MaxTracks
        /\ whepClock' \in 0..Patience
    BY <1>31, SourcesAssumption DEF W!CancelRun, W!clientVars, W!pcVars,
       W!parentVars, WhepInv, W!TypeOK, SessionFits
  <2>1. W!TypeOK'
    BY <1>31, SourcesAssumption, <2>a, <2>b DEF W!CancelRun, W!clientVars,
       W!pcVars, W!parentVars, WhepInv, W!TypeOK, SessionFits
  <2>2. PhasesFit'
    BY <1>31, SourcesAssumption DEF W!CancelRun, W!clientVars, W!pcVars,
       W!parentVars, WhepInv, W!TypeOK, PhasesFit
  <2>3. WhepCallsFit'
    BY <1>31, SourcesAssumption DEF W!CancelRun, W!clientVars, W!pcVars,
       W!parentVars, WhepInv, W!TypeOK, WhepCallsFit
  <2>4. PeerFits'
    BY <1>31, SourcesAssumption DEF W!CancelRun, W!clientVars, W!pcVars,
       W!parentVars, WhepInv, W!TypeOK, PhasesFit, PeerFits
  <2>5. SessionFits'
    BY <1>31, SourcesAssumption DEF W!CancelRun, W!clientVars, W!pcVars,
       W!parentVars, WhepInv, W!TypeOK, PhasesFit, SessionFits
  <2> QED
    BY <2>1, <2>2, <2>3, <2>4, <2>5 DEF WhepInv
<1>32. CASE UNCHANGED W!vars
  BY <1>32 DEF W!vars, W!clientVars, W!pcVars, W!parentVars, WhepInv,
     W!TypeOK, PhasesFit, WhepCallsFit, PeerFits, SessionFits
<1> QED
  BY <1>1, <1>2, <1>3, <1>4, <1>5, <1>6, <1>7, <1>8, <1>9, <1>10, <1>11, <1>12, <1>13,
     <1>14, <1>15, <1>16, <1>17, <1>18, <1>19, <1>20, <1>21, <1>22, <1>23, <1>24, <1>25,
     <1>26, <1>27, <1>28, <1>29, <1>30, <1>31, <1>32 DEF W!Next, W!Callbacks, W!InnerStep,
     W!Proceed, W!Parent, W!Over

\* It says what has to be closed and deleted.
LEMMA WhepImplies == WhepInv => W!TypeOK /\ W!NothingIsLeft
BY DEF W!NothingIsLeft, WhepInv, W!TypeOK, PhasesFit, WhepCallsFit, PeerFits,
   SessionFits

\* Each operation is a step of the contract, or none.
LEMMA WhepKeepsContract == ASSUME WhepInv, [W!Next]_(W!vars) PROVE W!Contract!Step
<1>1. CASE W!Run
  BY <1>1 DEF W!Run, W!Goes, W!clientVars, W!pcVars, W!parentVars, WhepInv,
     W!TypeOK, PhasesFit, WhepCallsFit, W!Contract!Step, W!Contract!Next,
     W!Contract!vars, W!Contract!Goes, W!Contract!Spawn, W!Contract!Begin,
     W!Contract!AskReady, W!Contract!Heard, W!Contract!Granted,
     W!Contract!Refused, W!Contract!Ends, W!Contract!Told, W!Contract!Cancel,
     W!Contract!Gone
<1>2. CASE W!StateChanges
  BY <1>2 DEF W!StateChanges, W!Open, W!clientVars, W!pcVars, W!parentVars,
     WhepInv, W!TypeOK, PhasesFit, WhepCallsFit, W!Contract!Step,
     W!Contract!Next, W!Contract!vars, W!Contract!Goes, W!Contract!Spawn,
     W!Contract!Begin, W!Contract!AskReady, W!Contract!Heard,
     W!Contract!Granted, W!Contract!Refused, W!Contract!Ends, W!Contract!Told,
     W!Contract!Cancel, W!Contract!Gone
<1>3. CASE W!NewCandidate
  BY <1>3 DEF W!NewCandidate, W!Open, W!clientVars, W!pcVars, W!parentVars,
     WhepInv, W!TypeOK, PhasesFit, WhepCallsFit, W!Contract!Step,
     W!Contract!Next, W!Contract!vars, W!Contract!Goes, W!Contract!Spawn,
     W!Contract!Begin, W!Contract!AskReady, W!Contract!Heard,
     W!Contract!Granted, W!Contract!Refused, W!Contract!Ends, W!Contract!Told,
     W!Contract!Cancel, W!Contract!Gone
<1>4. CASE W!CandidateDropped
  BY <1>4 DEF W!CandidateDropped, W!Open, W!clientVars, W!pcVars,
     W!parentVars, WhepInv, W!TypeOK, PhasesFit, WhepCallsFit,
     W!Contract!Step, W!Contract!Next, W!Contract!vars, W!Contract!Goes,
     W!Contract!Spawn, W!Contract!Begin, W!Contract!AskReady,
     W!Contract!Heard, W!Contract!Granted, W!Contract!Refused,
     W!Contract!Ends, W!Contract!Told, W!Contract!Cancel, W!Contract!Gone
<1>5. CASE W!NewTrack
  BY <1>5 DEF W!NewTrack, W!Open, W!clientVars, W!pcVars, W!parentVars,
     WhepInv, W!TypeOK, PhasesFit, WhepCallsFit, W!Contract!Step,
     W!Contract!Next, W!Contract!vars, W!Contract!Goes, W!Contract!Spawn,
     W!Contract!Begin, W!Contract!AskReady, W!Contract!Heard,
     W!Contract!Granted, W!Contract!Refused, W!Contract!Ends, W!Contract!Told,
     W!Contract!Cancel, W!Contract!Gone
<1>6. CASE W!TrackDropped
  BY <1>6 DEF W!TrackDropped, W!Open, W!clientVars, W!pcVars, W!parentVars,
     WhepInv, W!TypeOK, PhasesFit, WhepCallsFit, W!Contract!Step,
     W!Contract!Next, W!Contract!vars, W!Contract!Goes, W!Contract!Spawn,
     W!Contract!Begin, W!Contract!AskReady, W!Contract!Heard,
     W!Contract!Granted, W!Contract!Refused, W!Contract!Ends, W!Contract!Told,
     W!Contract!Cancel, W!Contract!Gone
<1>7. CASE W!CreateOffer
  BY <1>7 DEF W!CreateOffer, W!At, W!Step, W!clientVars, W!pcVars,
     W!parentVars, WhepInv, W!TypeOK, PhasesFit, WhepCallsFit,
     W!Contract!Step, W!Contract!Next, W!Contract!vars, W!Contract!Goes,
     W!Contract!Spawn, W!Contract!Begin, W!Contract!AskReady,
     W!Contract!Heard, W!Contract!Granted, W!Contract!Refused,
     W!Contract!Ends, W!Contract!Told, W!Contract!Cancel, W!Contract!Gone
<1>8. CASE W!WaitGatheringDone
  BY <1>8 DEF W!WaitGatheringDone, W!At, W!Step, W!Open, W!clientVars,
     W!pcVars, W!parentVars, WhepInv, W!TypeOK, PhasesFit, WhepCallsFit,
     W!Contract!Step, W!Contract!Next, W!Contract!vars, W!Contract!Goes,
     W!Contract!Spawn, W!Contract!Begin, W!Contract!AskReady,
     W!Contract!Heard, W!Contract!Granted, W!Contract!Refused,
     W!Contract!Ends, W!Contract!Told, W!Contract!Cancel, W!Contract!Gone
<1>9. CASE W!PostOffer
  BY <1>9 DEF W!PostOffer, W!At, W!Step, W!clientVars, W!pcVars, W!parentVars,
     WhepInv, W!TypeOK, PhasesFit, WhepCallsFit, W!Contract!Step,
     W!Contract!Next, W!Contract!vars, W!Contract!Goes, W!Contract!Spawn,
     W!Contract!Begin, W!Contract!AskReady, W!Contract!Heard,
     W!Contract!Granted, W!Contract!Refused, W!Contract!Ends, W!Contract!Told,
     W!Contract!Cancel, W!Contract!Gone
<1>10. CASE W!SetAnswer
  BY <1>10 DEF W!SetAnswer, W!At, W!Step, W!clientVars, W!pcVars,
     W!parentVars, WhepInv, W!TypeOK, PhasesFit, WhepCallsFit,
     W!Contract!Step, W!Contract!Next, W!Contract!vars, W!Contract!Goes,
     W!Contract!Spawn, W!Contract!Begin, W!Contract!AskReady,
     W!Contract!Heard, W!Contract!Granted, W!Contract!Refused,
     W!Contract!Ends, W!Contract!Told, W!Contract!Cancel, W!Contract!Gone
<1>11. CASE W!WaitConnected
  BY <1>11 DEF W!WaitConnected, W!At, W!Step, W!clientVars, W!pcVars,
     W!parentVars, WhepInv, W!TypeOK, PhasesFit, WhepCallsFit,
     W!Contract!Step, W!Contract!Next, W!Contract!vars, W!Contract!Goes,
     W!Contract!Spawn, W!Contract!Begin, W!Contract!AskReady,
     W!Contract!Heard, W!Contract!Granted, W!Contract!Refused,
     W!Contract!Ends, W!Contract!Told, W!Contract!Cancel, W!Contract!Gone
<1>12. CASE W!TakeCandidate
  BY <1>12 DEF W!TakeCandidate, W!At, W!Step, W!clientVars, W!pcVars,
     W!parentVars, WhepInv, W!TypeOK, PhasesFit, WhepCallsFit,
     W!Contract!Step, W!Contract!Next, W!Contract!vars, W!Contract!Goes,
     W!Contract!Spawn, W!Contract!Begin, W!Contract!AskReady,
     W!Contract!Heard, W!Contract!Granted, W!Contract!Refused,
     W!Contract!Ends, W!Contract!Told, W!Contract!Cancel, W!Contract!Gone
<1>13. CASE W!PatchCandidate
  BY <1>13 DEF W!PatchCandidate, W!At, W!Step, W!clientVars, W!pcVars,
     W!parentVars, WhepInv, W!TypeOK, PhasesFit, WhepCallsFit,
     W!Contract!Step, W!Contract!Next, W!Contract!vars, W!Contract!Goes,
     W!Contract!Spawn, W!Contract!Begin, W!Contract!AskReady,
     W!Contract!Heard, W!Contract!Granted, W!Contract!Refused,
     W!Contract!Ends, W!Contract!Told, W!Contract!Cancel, W!Contract!Gone
<1>14. CASE W!HandshakeExpires
  BY <1>14 DEF W!HandshakeExpires, W!At, W!Step, W!clientVars, W!pcVars,
     W!parentVars, WhepInv, W!TypeOK, PhasesFit, WhepCallsFit,
     W!Contract!Step, W!Contract!Next, W!Contract!vars, W!Contract!Goes,
     W!Contract!Spawn, W!Contract!Begin, W!Contract!AskReady,
     W!Contract!Heard, W!Contract!Granted, W!Contract!Refused,
     W!Contract!Ends, W!Contract!Told, W!Contract!Cancel, W!Contract!Gone
<1>15. CASE W!GatherTrack
  BY <1>15 DEF W!GatherTrack, W!At, W!Step, W!clientVars, W!pcVars,
     W!parentVars, WhepInv, W!TypeOK, PhasesFit, WhepCallsFit,
     W!Contract!Step, W!Contract!Next, W!Contract!vars, W!Contract!Goes,
     W!Contract!Spawn, W!Contract!Begin, W!Contract!AskReady,
     W!Contract!Heard, W!Contract!Granted, W!Contract!Refused,
     W!Contract!Ends, W!Contract!Told, W!Contract!Cancel, W!Contract!Gone
<1>16. CASE W!GatherEnds
  BY <1>16 DEF W!GatherEnds, W!At, W!Step, W!clientVars, W!pcVars,
     W!parentVars, WhepInv, W!TypeOK, PhasesFit, WhepCallsFit,
     W!Contract!Step, W!Contract!Next, W!Contract!vars, W!Contract!Goes,
     W!Contract!Spawn, W!Contract!Begin, W!Contract!AskReady,
     W!Contract!Heard, W!Contract!Granted, W!Contract!Refused,
     W!Contract!Ends, W!Contract!Told, W!Contract!Cancel, W!Contract!Gone
<1>17. CASE W!DeleteSession
  BY <1>17 DEF W!DeleteSession, W!At, W!Step, W!DeleteAnswered, W!clientVars,
     W!pcVars, W!parentVars, WhepInv, W!TypeOK, PhasesFit, WhepCallsFit,
     W!Contract!Step, W!Contract!Next, W!Contract!vars, W!Contract!Goes,
     W!Contract!Spawn, W!Contract!Begin, W!Contract!AskReady,
     W!Contract!Heard, W!Contract!Granted, W!Contract!Refused,
     W!Contract!Ends, W!Contract!Told, W!Contract!Cancel, W!Contract!Gone
<1>18. CASE W!Options
  BY <1>18 DEF W!Options, W!Goes, W!Start, W!clientVars, W!pcVars,
     W!parentVars, WhepInv, W!TypeOK, PhasesFit, WhepCallsFit,
     W!Contract!Step, W!Contract!Next, W!Contract!vars, W!Contract!Goes,
     W!Contract!Spawn, W!Contract!Begin, W!Contract!AskReady,
     W!Contract!Heard, W!Contract!Granted, W!Contract!Refused,
     W!Contract!Ends, W!Contract!Told, W!Contract!Cancel, W!Contract!Gone
<1>19. CASE W!Initialized
  BY <1>19 DEF W!Initialized, W!Goes, W!CloseBegins, W!clientVars, W!pcVars,
     W!parentVars, WhepInv, W!TypeOK, PhasesFit, WhepCallsFit,
     W!Contract!Step, W!Contract!Next, W!Contract!vars, W!Contract!Goes,
     W!Contract!Spawn, W!Contract!Begin, W!Contract!AskReady,
     W!Contract!Heard, W!Contract!Granted, W!Contract!Refused,
     W!Contract!Ends, W!Contract!Told, W!Contract!Cancel, W!Contract!Gone
<1>20. CASE W!InitializeFails
  BY <1>20 DEF W!InitializeFails, W!clientVars, W!pcVars, W!parentVars,
     WhepInv, W!TypeOK, PhasesFit, WhepCallsFit, W!Contract!Step,
     W!Contract!Next, W!Contract!vars, W!Contract!Goes, W!Contract!Spawn,
     W!Contract!Begin, W!Contract!AskReady, W!Contract!Heard,
     W!Contract!Granted, W!Contract!Refused, W!Contract!Ends, W!Contract!Told,
     W!Contract!Cancel, W!Contract!Gone
<1>21. CASE W!ToStream
  BY <1>21 DEF W!ToStream, W!clientVars, W!pcVars, W!parentVars, WhepInv,
     W!TypeOK, PhasesFit, WhepCallsFit, W!Contract!Step, W!Contract!Next,
     W!Contract!vars, W!Contract!Goes, W!Contract!Spawn, W!Contract!Begin,
     W!Contract!AskReady, W!Contract!Heard, W!Contract!Granted,
     W!Contract!Refused, W!Contract!Ends, W!Contract!Told, W!Contract!Cancel,
     W!Contract!Gone
<1>22. CASE W!Dropped
  BY <1>22 DEF W!Dropped, W!CloseClient, W!CloseBegins, W!DeleteAnswered,
     W!clientVars, W!pcVars, W!parentVars, WhepInv, W!TypeOK, PhasesFit,
     WhepCallsFit, W!Contract!Step, W!Contract!Next, W!Contract!vars,
     W!Contract!Goes, W!Contract!Spawn, W!Contract!Begin, W!Contract!AskReady,
     W!Contract!Heard, W!Contract!Granted, W!Contract!Refused,
     W!Contract!Ends, W!Contract!Told, W!Contract!Cancel, W!Contract!Gone
<1>23. CASE W!StartReading
  BY <1>23 DEF W!StartReading, W!Goes, W!Open, W!clientVars, W!pcVars,
     W!parentVars, WhepInv, W!TypeOK, PhasesFit, WhepCallsFit,
     W!Contract!Step, W!Contract!Next, W!Contract!vars, W!Contract!Goes,
     W!Contract!Spawn, W!Contract!Begin, W!Contract!AskReady,
     W!Contract!Heard, W!Contract!Granted, W!Contract!Refused,
     W!Contract!Ends, W!Contract!Told, W!Contract!Cancel, W!Contract!Gone
<1>24. CASE W!Ends
  BY <1>24 DEF W!Ends, W!Goes, W!clientVars, W!pcVars, W!parentVars, WhepInv,
     W!TypeOK, PhasesFit, WhepCallsFit, W!Contract!Step, W!Contract!Next,
     W!Contract!vars, W!Contract!Goes, W!Contract!Spawn, W!Contract!Begin,
     W!Contract!AskReady, W!Contract!Heard, W!Contract!Granted,
     W!Contract!Refused, W!Contract!Ends, W!Contract!Told, W!Contract!Cancel,
     W!Contract!Gone
<1>25. CASE W!Left
  BY <1>25 DEF W!Left, W!CloseClient, W!CloseBegins, W!DeleteAnswered,
     W!clientVars, W!pcVars, W!parentVars, WhepInv, W!TypeOK, PhasesFit,
     WhepCallsFit, W!Contract!Step, W!Contract!Next, W!Contract!vars,
     W!Contract!Goes, W!Contract!Spawn, W!Contract!Begin, W!Contract!AskReady,
     W!Contract!Heard, W!Contract!Granted, W!Contract!Refused,
     W!Contract!Ends, W!Contract!Told, W!Contract!Cancel, W!Contract!Gone
<1>26. CASE W!CloseEnds
  BY <1>26 DEF W!CloseEnds, W!clientVars, W!pcVars, W!parentVars, WhepInv,
     W!TypeOK, PhasesFit, WhepCallsFit, W!Contract!Step, W!Contract!Next,
     W!Contract!vars, W!Contract!Goes, W!Contract!Spawn, W!Contract!Begin,
     W!Contract!AskReady, W!Contract!Heard, W!Contract!Granted,
     W!Contract!Refused, W!Contract!Ends, W!Contract!Told, W!Contract!Cancel,
     W!Contract!Gone
<1>27. CASE W!Forwarded
  BY <1>27 DEF W!Forwarded, W!clientVars, W!pcVars, W!parentVars, WhepInv,
     W!TypeOK, PhasesFit, WhepCallsFit, W!Contract!Step, W!Contract!Next,
     W!Contract!vars, W!Contract!Goes, W!Contract!Spawn, W!Contract!Begin,
     W!Contract!AskReady, W!Contract!Heard, W!Contract!Granted,
     W!Contract!Refused, W!Contract!Ends, W!Contract!Told, W!Contract!Cancel,
     W!Contract!Gone
<1>28. CASE W!SetReady
  BY <1>28 DEF W!SetReady, W!Goes, W!clientVars, W!pcVars, W!parentVars,
     WhepInv, W!TypeOK, PhasesFit, WhepCallsFit, W!Contract!Step,
     W!Contract!Next, W!Contract!vars, W!Contract!Goes, W!Contract!Spawn,
     W!Contract!Begin, W!Contract!AskReady, W!Contract!Heard,
     W!Contract!Granted, W!Contract!Refused, W!Contract!Ends, W!Contract!Told,
     W!Contract!Cancel, W!Contract!Gone
<1>29. CASE W!SetNotReady
  BY <1>29 DEF W!SetNotReady, W!Goes, W!clientVars, W!pcVars, W!parentVars,
     WhepInv, W!TypeOK, PhasesFit, WhepCallsFit, W!Contract!Step,
     W!Contract!Next, W!Contract!vars, W!Contract!Goes, W!Contract!Spawn,
     W!Contract!Begin, W!Contract!AskReady, W!Contract!Heard,
     W!Contract!Granted, W!Contract!Refused, W!Contract!Ends, W!Contract!Told,
     W!Contract!Cancel, W!Contract!Gone
<1>30. CASE W!Tick
  BY <1>30 DEF W!Tick, W!Timed, W!Expired, W!clientVars, W!pcVars,
     W!parentVars, WhepInv, W!TypeOK, PhasesFit, WhepCallsFit,
     W!Contract!Step, W!Contract!Next, W!Contract!vars, W!Contract!Goes,
     W!Contract!Spawn, W!Contract!Begin, W!Contract!AskReady,
     W!Contract!Heard, W!Contract!Granted, W!Contract!Refused,
     W!Contract!Ends, W!Contract!Told, W!Contract!Cancel, W!Contract!Gone
<1>31. CASE W!CancelRun
  BY <1>31 DEF W!CancelRun, W!clientVars, W!pcVars, W!parentVars, WhepInv,
     W!TypeOK, PhasesFit, WhepCallsFit, W!Contract!Step, W!Contract!Next,
     W!Contract!vars, W!Contract!Goes, W!Contract!Spawn, W!Contract!Begin,
     W!Contract!AskReady, W!Contract!Heard, W!Contract!Granted,
     W!Contract!Refused, W!Contract!Ends, W!Contract!Told, W!Contract!Cancel,
     W!Contract!Gone
<1>32. CASE UNCHANGED W!vars
  BY <1>32 DEF W!vars, W!clientVars, W!pcVars, W!parentVars, W!Contract!Step,
     W!Contract!Next, W!Contract!vars, W!Contract!Goes, W!Contract!Spawn,
     W!Contract!Begin, W!Contract!AskReady, W!Contract!Heard,
     W!Contract!Granted, W!Contract!Refused, W!Contract!Ends, W!Contract!Told,
     W!Contract!Cancel, W!Contract!Gone
<1> QED
  BY <1>1, <1>2, <1>3, <1>4, <1>5, <1>6, <1>7, <1>8, <1>9, <1>10, <1>11, <1>12, <1>13,
     <1>14, <1>15, <1>16, <1>17, <1>18, <1>19, <1>20, <1>21, <1>22, <1>23, <1>24, <1>25,
     <1>26, <1>27, <1>28, <1>29, <1>30, <1>31, <1>32 DEF W!Next, W!Callbacks, W!InnerStep,
     W!Proceed, W!Parent, W!Over

-----------------------------------------------------------------------------
(***************************************************************************)
(* The three together.                                                     *)
(***************************************************************************)

\* Every run begins with the three where they begin, and makes a step of one
\* of them while the other two stay.
LEMMA StartsApart == MCInit => Init /\ S!Init /\ W!Init
BY DEF MCInit, HandlerIdle, SourceIdle, WhepIdle

LEMMA MovesApart ==
  ASSUME [MCNext]_allVars PROVE [Next]_vars /\ [S!Next]_(S!vars) /\ [W!Next]_(W!vars)
<1>1. UNCHANGED sourceVars => UNCHANGED S!vars
  BY DEF sourceVars, S!vars, S!localVars
<1>2. UNCHANGED whepVars => UNCHANGED W!vars
  BY DEF whepVars, W!vars, W!clientVars, W!pcVars, W!parentVars
<1>3. CASE subject = "handler" /\ Next /\ UNCHANGED <<sourceVars, whepVars>>
  BY <1>1, <1>2, <1>3
<1>4. CASE subject = "source" /\ S!Next /\ UNCHANGED <<vars, whepVars>>
  BY <1>2, <1>4
<1>5. CASE subject = "whep" /\ W!Next /\ UNCHANGED <<vars, sourceVars>>
  BY <1>1, <1>5
<1>6. CASE UNCHANGED allVars
  BY <1>1, <1>2, <1>6 DEF allVars
<1> QED
  BY <1>3, <1>4, <1>5, <1>6 DEF MCNext

\* What is proved of the handler holds here.
LEMMA IsHandler == MCSpec => Spec
BY StartsApart, MovesApart, PTL DEF MCSpec, Spec

LEMMA CallInvCorrect == MCSpec => []CallInv
BY StartsApart, MovesApart, CallInit, CallStep, PTL DEF MCSpec

LEMMA WhepInvCorrect == MCSpec => []WhepInv
BY StartsApart, MovesApart, WhepInit, WhepStep, PTL DEF MCSpec

\* Every variable of the handler, of a call of Run of any protocol and of the
\* WebRTC client keeps its type, for any timeouts, requests and tracks.
THEOREM SourcesTypeCorrect == MCSpec => []TypesOK
<1>1. CallInv /\ WhepInv => S!TypeOK /\ W!TypeOK
  BY CallImplies, WhepImplies
<1> QED
  BY <1>1, IsHandler, CallInvCorrect, WhepInvCorrect, HandlerTypeCorrect, PTL
     DEF TypesOK

\* When a call of Run has returned, its goroutine is over, its sockets, its
\* process, its place among the readers of another path and its session at the
\* server are closed, whenever it was cancelled and wherever it failed; but for
\* a connection that the Unix listener accepts while it is closed, the goroutine
\* that waits for a camera whose Run was cancelled, and a session the client does
\* not know or cannot delete (Run of staticsources/*/source.go).
THEOREM WhatIsLeftCorrect == MCSpec => [](S!OnlyTwoAreLeft /\ W!NothingIsLeft)
<1>1. CallInv /\ WhepInv => S!OnlyTwoAreLeft /\ W!NothingIsLeft
  BY CallImplies, WhepImplies
<1> QED
  BY <1>1, CallInvCorrect, WhepInvCorrect, PTL

\* The sources agree: a path has a stream only while a run feeds it, a lasting
\* source works with the configuration of its path, and calls leave nothing
\* behind but what OnlyTwoAreLeft names. The secondary camera source, that does not tell when it ends, is left
\* out; and of reloads there is one (LastingCorrect says why).
THEOREM SourcesCorrect ==
  ASSUME "secondary" \notin Kinds, MaxConf = 2
  PROVE  MCSpec => []SourcesAgree
<1>1. Spec => []StreamIsFed
  BY FedCorrect
<1>2. Spec => []LastingSourceIsReloaded
  BY LastingCorrect
<1> QED
  BY <1>1, <1>2, IsHandler, WhatIsLeftCorrect, PTL DEF SourcesAgree

\* Each step of a call of Run, of any protocol, is a step of SourceRun or leaves
\* it alone: it asks for a stream once at most, and takes it back before it
\* returns, as the handler relies on.
THEOREM CallsKeepContract ==
  MCSpec => /\ S!Contract!Init /\ W!Contract!Init
            /\ [][S!Contract!Step /\ W!Contract!Step]_allVars
<1>1. S!Init /\ W!Init => S!Contract!Init /\ W!Contract!Init
  BY DEF S!Init, W!Init, S!Contract!Init, W!Contract!Init
<1>2. CallInv /\ WhepInv /\ [MCNext]_allVars => S!Contract!Step /\ W!Contract!Step
  BY MovesApart, CallKeepsContract, WhepKeepsContract
<1> QED
  BY <1>1, <1>2, StartsApart, CallInvCorrect, WhepInvCorrect, PTL DEF MCSpec
=============================================================================
