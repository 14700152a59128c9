--------------------------- MODULE SourceHandler ---------------------------
(***************************************************************************)
(* The handler of a static source                                          *)
(* (backend/core/internal/staticsources/handler.go) between the path that  *)
(* owns it and the source that it runs.                                    *)
(*                                                                         *)
(* Three goroutines: the path calls Start, Stop and ReloadConf and takes   *)
(* the requests SetReady and SetNotReady; run() supervises; Run of the     *)
(* source does the work, reports through run() to the path, and is run     *)
(* again after a pause when it returns.  Stop is called by the very        *)
(* goroutine that answers the requests, and waits for run(), which waits   *)
(* for Run.                                                                *)
(*                                                                         *)
(* Configurations are numbered; each reload travels to run(), and from     *)
(* there to Run, in a goroutine of its own.                                *)
(***************************************************************************)
EXTENDS Naturals, FiniteSets

CONSTANTS
  Kinds,      \* kinds of sources considered
  OnDemand,   \* the values of sourceOnDemand considered
  Runs,       \* identities of the calls of Run
  MaxConf     \* bound: the last configuration

SourceKinds == {"ordinary", "camera", "secondary"}

ASSUME HandlerAssumption ==
  /\ Kinds \subseteq SourceKinds /\ OnDemand \subseteq BOOLEAN
  /\ Runs # {} /\ MaxConf \in Nat \ {0}

VARIABLES
  kind,        \* which source
  onDemand,    \* conf.sourceOnDemand
  path,        \* the goroutine of the path
  pathClosed,  \* pa.ctx is cancelled
  ready,       \* the path has the stream of the source
  doubled,     \* it was given a second one while it had one and was open
  running,     \* s.running
  ctx,         \* s.ctx is open
  run,         \* the goroutine run()
  recreating,  \* the local variable of run(), with its timer
  instance,    \* each call of Run
  runCtx,      \* the context of each call is open
  panicked,    \* a panic("should not happen") was reached
  pathConf,    \* pa.conf
  handlerConf, \* s.Conf
  runConf,     \* the configuration of each call of Run
  toHandler,   \* reloads on their way to run()
  toRun        \* reloads on their way from run() to a call of Run

pathVars  == <<path, pathClosed, ready, doubled>>
startVars == <<running, ctx>>
runVars   == <<run, recreating>>
confVars  == <<pathConf, handlerConf, runConf, toHandler, toRun>>
instVars  == <<instance, runCtx, panicked>>
vars == <<kind, onDemand, pathVars, startVars, runVars, instVars, confVars>>

Configs == 1..MaxConf

TypeOK ==
  /\ kind \in Kinds /\ onDemand \in OnDemand
  /\ path \in {"select", "stopping", "closed"}
  /\ pathClosed \in BOOLEAN /\ ready \in BOOLEAN /\ doubled \in BOOLEAN
  /\ running \in BOOLEAN /\ ctx \in BOOLEAN
  /\ run \in {"off", "select", "ready", "notReady", "draining"}
  /\ recreating \in BOOLEAN
  /\ instance \in [Runs -> {"off", "spawned", "connecting", "readyCall",
                            "readyWait", "streaming", "notReadyCall",
                            "notReadyWait", "returning"}]
  /\ runCtx \in [Runs -> BOOLEAN]
  /\ panicked \in BOOLEAN
  /\ pathConf \in Configs /\ handlerConf \in Configs
  /\ runConf \in [Runs -> Configs]
  /\ toHandler \in SUBSET Configs
  /\ toRun \in SUBSET (Runs \X Configs)

Alive == {i \in Runs : instance[i] # "off"}
Only(r, state) == instance' = [instance EXCEPT ![r] = state]

-----------------------------------------------------------------------------
(* The path.                                                               *)

(* recreate(): the source is run.  Its goroutine reads s.Conf later. *)
Recreate ==
  \E r \in Runs :
    /\ instance[r] = "off"
    /\ Only(r, "spawned")
    /\ runCtx' = [runCtx EXCEPT ![r] = TRUE]

(* Start, and the head of run(). *)
Start ==
  /\ path = "select" /\ ~running /\ ~pathClosed /\ onDemand
  /\ running' = TRUE
  /\ ctx' = TRUE
  /\ run' = "select"
  /\ recreating' = FALSE
  /\ Recreate
  /\ UNCHANGED <<kind, onDemand, pathVars, panicked, confVars>>

(* Stop, and what the path does before it to the stream of the source. *)
\* Faulty variant: Stop does not wait for run().
StopHandler_NoWait ==
  /\ running' = FALSE
  /\ ctx' = FALSE
  /\ path' = "select"
  /\ ready' = FALSE
  /\ toHandler' = {}

StopHandler ==
  /\ running' = FALSE
  /\ ctx' = FALSE
  /\ path' = "stopping"
  /\ ready' = FALSE
  /\ toHandler' = {}

(* A timer of the path stops an on-demand source, or the path ends.  *)
Stop ==
  /\ path = "select" /\ running /\ (onDemand \/ pathClosed)
  /\ StopHandler
  /\ UNCHANGED <<kind, onDemand, pathClosed, doubled, runVars, instVars,
                 pathConf, handlerConf, runConf, toRun>>

(* <-s.done *)
Stopped ==
  /\ path = "stopping" /\ run = "off"
  /\ path' = "select"
  /\ UNCHANGED <<kind, onDemand, pathClosed, ready, doubled, startVars,
                 runVars, instVars, confVars>>

ClosePath ==
  /\ ~pathClosed
  /\ pathClosed' = TRUE
  /\ UNCHANGED <<kind, onDemand, path, ready, doubled, startVars, runVars,
                 instVars, confVars>>

PathEnds ==
  /\ path = "select" /\ pathClosed /\ ~running
  /\ path' = "closed"
  /\ UNCHANGED <<kind, onDemand, pathClosed, ready, doubled, startVars,
                 runVars, instVars, confVars>>

(* ReloadConf: a handler that is not running forgets the configuration. *)
ReloadConf ==
  /\ path = "select" /\ ~pathClosed /\ pathConf < MaxConf
  /\ pathConf' = pathConf + 1
  /\ toHandler' = IF running THEN toHandler \cup {pathConf'} ELSE toHandler
  /\ UNCHANGED <<kind, onDemand, pathVars, startVars, runVars, instVars,
                 handlerConf, runConf, toRun>>

(* doSourceStaticSetReady, and its answer to the source. *)
TakeReady(r, ok) ==
  /\ path = "select" /\ run = "ready" /\ instance[r] = "readyWait"
  /\ run' = "select"
  /\ IF ok THEN /\ ready' = TRUE
                /\ doubled' = (doubled \/ (ready /\ ~pathClosed))
                /\ Only(r, "streaming")
           ELSE Only(r, "returning") /\ UNCHANGED <<ready, doubled>>
  /\ panicked' = (panicked \/ (~ok /\ kind = "camera"))
  /\ UNCHANGED <<kind, onDemand, path, pathClosed, startVars, recreating,
                 runCtx, confVars>>

(* doSourceStaticSetNotReady.  The source is answered before it is stopped *)
(* (on demand), "in order to avoid a deadlock".                            *)
\* Faulty variant: the answer comes after.
TakeNotReady_StopFirst(r) ==
  /\ path = "select" /\ run = "notReady" /\ instance[r] = "notReadyWait"
  /\ run' = "select"
  /\ IF onDemand /\ running
     THEN StopHandler /\ UNCHANGED instance
     ELSE /\ Only(r, "returning")
          /\ ready' = FALSE
          /\ UNCHANGED <<running, ctx, path, toHandler>>
  /\ UNCHANGED <<kind, onDemand, pathClosed, doubled, recreating, runCtx,
                 panicked, pathConf, handlerConf, runConf, toRun>>

TakeNotReady(r) ==
  /\ path = "select" /\ run = "notReady" /\ instance[r] = "notReadyWait"
  /\ run' = "select"
  /\ Only(r, "returning")
  /\ IF onDemand /\ running
     THEN StopHandler
     ELSE ready' = FALSE /\ UNCHANGED <<running, ctx, path, toHandler>>
  /\ UNCHANGED <<kind, onDemand, pathClosed, doubled, recreating, runCtx,
                 panicked, pathConf, handlerConf, runConf, toRun>>

-----------------------------------------------------------------------------
(* run().                                                                  *)

(* Run has returned while nobody asked it to: it is run again later. *)
\* Faulty variant: the timer is not set.
RunReturned_NoTimer(r) ==
  /\ run = "select" /\ instance[r] = "returning"
  /\ Only(r, "off")
  /\ runCtx' = [runCtx EXCEPT ![r] = FALSE]
  /\ UNCHANGED <<kind, onDemand, pathVars, startVars, runVars, panicked,
                 confVars>>

RunReturned(r) ==
  /\ run = "select" /\ instance[r] = "returning"
  /\ Only(r, "off")
  /\ runCtx' = [runCtx EXCEPT ![r] = FALSE]
  /\ recreating' = TRUE
  /\ toRun' = {m \in toRun : m[1] # r}
  /\ UNCHANGED <<kind, onDemand, pathVars, startVars, run, panicked, pathConf,
                 handlerConf, runConf, toHandler>>

RecreateTimer ==
  /\ run = "select" /\ recreating
  /\ recreating' = FALSE
  /\ Recreate
  /\ UNCHANGED <<kind, onDemand, pathVars, startVars, run, panicked, confVars>>

(* A request of Run is received, and passed on. *)
ForwardReady(r) ==
  /\ run = "select" /\ instance[r] = "readyCall"
  /\ run' = "ready"
  /\ Only(r, "readyWait")
  /\ UNCHANGED <<kind, onDemand, pathVars, startVars, recreating, runCtx,
                 panicked, confVars>>

ForwardNotReady(r) ==
  /\ run = "select" /\ instance[r] = "notReadyCall"
  /\ run' = "notReady"
  /\ Only(r, "notReadyWait")
  /\ UNCHANGED <<kind, onDemand, pathVars, startVars, recreating, runCtx,
                 panicked, confVars>>

(* The path does not take it: it is closing, or it is stopping the source. *)
ForwardAbandoned(r) ==
  /\ run \in {"ready", "notReady"} /\ (pathClosed \/ ~ctx)
  /\ instance[r] \in {"readyWait", "notReadyWait"}
  /\ run' = "select"
  /\ Only(r, "returning")
  /\ panicked' = (panicked \/ (run = "ready" /\ kind = "camera"))
  /\ UNCHANGED <<kind, onDemand, pathVars, startVars, recreating, runCtx,
                 confVars>>

\* Faulty variant: only the run in progress learns of a reload.
TakeConf_RunOnly(c) ==
  /\ run = "select" /\ c \in toHandler
  /\ toHandler' = toHandler \ {c}
  /\ toRun' = toRun \cup {<<r, c>> : r \in Alive}
  /\ UNCHANGED <<kind, onDemand, pathVars, startVars, runVars, instVars,
                 pathConf, handlerConf, runConf>>

TakeConf(c) ==
  /\ run = "select" /\ c \in toHandler
  /\ toHandler' = toHandler \ {c}
  /\ handlerConf' = c
  /\ toRun' = IF recreating THEN toRun
              ELSE toRun \cup {<<r, c>> : r \in Alive}
  /\ UNCHANGED <<kind, onDemand, pathVars, startVars, runVars, instVars,
                 pathConf, runConf>>

(* s.ctx is cancelled: end Run, if it runs, and wait for it. *)
Drain ==
  /\ run = "select" /\ ~ctx
  /\ IF recreating THEN run' = "off" /\ UNCHANGED <<runCtx, toRun>>
     ELSE /\ run' = "draining"
          /\ runCtx' = [r \in Runs |-> FALSE]
          /\ toRun' = {}
  /\ UNCHANGED <<kind, onDemand, pathVars, startVars, recreating, instance,
                 panicked, pathConf, handlerConf, runConf, toHandler>>

Drained(r) ==
  /\ run = "draining" /\ instance[r] = "returning"
  /\ run' = "off"
  /\ Only(r, "off")
  /\ UNCHANGED <<kind, onDemand, pathVars, startVars, recreating, runCtx,
                 panicked, confVars>>

-----------------------------------------------------------------------------
(* Run.                                                                    *)

\* Faulty variant: Run is not given the configuration.
RunBegins_NoConf(r) ==
  /\ instance[r] = "spawned"
  /\ Only(r, "connecting")
  /\ runConf' = [runConf EXCEPT ![r] = 0]
  /\ UNCHANGED <<kind, onDemand, pathVars, startVars, runVars, runCtx,
                 panicked, pathConf, handlerConf, toHandler, toRun>>

RunBegins(r) ==
  /\ instance[r] = "spawned"
  /\ Only(r, "connecting")
  /\ runConf' = [runConf EXCEPT ![r] = handlerConf]
  /\ UNCHANGED <<kind, onDemand, pathVars, startVars, runVars, runCtx,
                 panicked, pathConf, handlerConf, toHandler, toRun>>

RunTakesConf(r, c) ==
  /\ <<r, c>> \in toRun
  /\ instance[r] \in {"connecting", "readyCall", "readyWait", "streaming"}
  /\ runConf' = [runConf EXCEPT ![r] = c]
  /\ toRun' = toRun \ {<<r, c>>}
  /\ UNCHANGED <<kind, onDemand, pathVars, startVars, runVars, instVars,
                 pathConf, handlerConf, toHandler>>

(* The source has connected. *)
RunConnects(r) ==
  /\ instance[r] = "connecting"
  /\ Only(r, "readyCall")
  /\ UNCHANGED <<kind, onDemand, pathVars, startVars, runVars, runCtx,
                 panicked, confVars>>

(* The source fails, or its context is cancelled: a source that is ready   *)
(* says so first, but the secondary camera source does not.                *)
\* Faulty variant: no source does.
RunFails_Silently(r) ==
  /\ instance[r] \in {"connecting", "streaming"}
  /\ Only(r, "returning")
  /\ UNCHANGED <<kind, onDemand, pathVars, startVars, runVars, runCtx,
                 panicked, confVars>>

RunFails(r) ==
  /\ \/ instance[r] = "connecting" /\ Only(r, "returning")
     \/ /\ instance[r] = "streaming"
        /\ Only(r, IF kind = "secondary" THEN "returning" ELSE "notReadyCall")
  /\ UNCHANGED <<kind, onDemand, pathVars, startVars, runVars, runCtx,
                 panicked, confVars>>

(* SetReady and SetNotReady give up once the handler is being stopped. *)
CallCancelled(r) ==
  /\ ~ctx /\ instance[r] \in {"readyCall", "notReadyCall"}
  /\ Only(r, "returning")
  /\ panicked' = (panicked \/ (instance[r] = "readyCall" /\ kind = "camera"))
  /\ UNCHANGED <<kind, onDemand, pathVars, startVars, runVars, runCtx,
                 confVars>>

-----------------------------------------------------------------------------
(* A source that is not on demand is started when the path begins. *)
Init ==
  /\ kind \in Kinds /\ onDemand \in OnDemand
  /\ path = "select" /\ pathClosed = FALSE
  /\ ready = FALSE /\ doubled = FALSE /\ panicked = FALSE
  /\ running = ~onDemand /\ ctx = ~onDemand
  /\ run = IF onDemand THEN "off" ELSE "select"
  /\ recreating = FALSE
  /\ \E first \in Runs :
       /\ instance = [r \in Runs |-> IF r = first /\ ~onDemand THEN "spawned"
                                     ELSE "off"]
       /\ runCtx = [r \in Runs |-> r = first /\ ~onDemand]
  /\ pathConf = 1 /\ handlerConf = 1
  /\ runConf = [r \in Runs |-> 1]
  /\ toHandler = {} /\ toRun = {}

PathStep ==
  \/ Start \/ Stop \/ Stopped \/ ClosePath \/ PathEnds \/ ReloadConf
  \/ \E r \in Runs : \/ \E ok \in BOOLEAN : TakeReady(r, ok)
                     \/ TakeNotReady(r)

HandlerStep ==
  \/ RecreateTimer \/ Drain
  \/ \E c \in Configs : TakeConf(c)
  \/ \E r \in Runs : \/ RunReturned(r)  \/ ForwardReady(r)
                     \/ ForwardNotReady(r) \/ ForwardAbandoned(r)
                     \/ Drained(r)

SourceStep(r) ==
  \/ RunBegins(r) \/ RunConnects(r) \/ RunFails(r) \/ CallCancelled(r)
  \/ \E c \in Configs : RunTakesConf(r, c)

Ended == path = "closed" /\ UNCHANGED vars

Next == PathStep \/ HandlerStep \/ (\E r \in Runs : SourceStep(r)) \/ Ended

Spec == Init /\ [][Next]_vars

(* The selects of the handler choose fairly; Run returns once its context  *)
(* is cancelled, whatever it was doing; the path ends once it is closed.   *)
(* Nothing makes the path start or stop a source, or the source connect.   *)
Fairness ==
  /\ WF_vars(Stopped) /\ WF_vars(Stop /\ pathClosed)
  /\ SF_vars(Drain) /\ WF_vars(RecreateTimer)
  /\ \A r \in Runs :
       /\ WF_vars(RunReturned(r)) /\ WF_vars(ForwardReady(r))
       /\ WF_vars(ForwardNotReady(r)) /\ WF_vars(ForwardAbandoned(r))
       /\ WF_vars(Drained(r))
       /\ WF_vars(RunBegins(r))
       /\ WF_vars(~runCtx[r] /\ RunFails(r))
       /\ WF_vars(CallCancelled(r))
       /\ WF_vars(TakeNotReady(r))

FairSpec == Spec /\ Fairness

-----------------------------------------------------------------------------
(* Safety.                                                                 *)

(* A source runs once: never twice at a time, across failures, stops and   *)
(* starts, and not at all once Stop has returned ("we must wait since      *)
(* s.ctx is not thread safe"), so no request of an old run is taken for    *)
(* one of the new run.                                                     *)
OneRun ==
  /\ Cardinality(Alive) <= 1
  /\ path # "stopping" /\ ~running => Alive = {} /\ run = "off"

(* Until it is closed, the path has a stream only while a run of the       *)
(* source feeds it, and is never given one while it has one: setAvailable  *)
(* would overwrite it, with its readers and its recorder.                  *)
StreamIsFed ==
  /\ ready /\ ~pathClosed =>
       /\ running
       /\ \E r \in Runs : instance[r] \in {"streaming", "notReadyCall",
                                           "notReadyWait"}
  /\ ~doubled

(* panic("should not happen") of runPrimary: SetReady never fails. *)
CameraNeverPanics == ~panicked

(* A reload that has reached its destination stays: once nothing is on its *)
(* way, the source runs with the configuration of the path.                *)
ReloadReachesRun ==
  running /\ toHandler = {} /\ toRun = {} =>
    \A r \in Runs : instance[r] \in {"connecting", "streaming"} =>
      runConf[r] = pathConf

(* The same of a source that is not on demand, and so is never stopped,    *)
(* for one reload at a time: it gets there through failures and retries.   *)
LastingSourceIsReloaded == ~onDemand => ReloadReachesRun

-----------------------------------------------------------------------------
(* Liveness.                                                               *)

(* Towards each run, the handler keeps its side of the contract that the  *)
(* sources implement (SourceRun).                                          *)
Contract(r) ==
  INSTANCE SourceRun WITH
    state <- instance[r], open <- runCtx[r], quiet <- kind = "secondary"

KeepsContract ==
  /\ [][\A r \in Runs : Contract(r)!Step]_vars
  /\ \A r \in Runs : Contract(r)!Cancelled

(* Stop returns, whatever the source and the handler were doing: the path  *)
(* is the one that answers the requests they may be waiting on.            *)
StopReturns == path = "stopping" ~> path # "stopping"

(* A source that has failed is run again, until it is stopped. *)
SourceIsRetried ==
  running /\ Alive = {} ~> Alive # {} \/ ~running
=============================================================================
