---------------------------- MODULE PathManager ----------------------------
(***************************************************************************)
(* The path manager (backend/core/internal/core/path_manager.go): the      *)
(* goroutine that creates the paths, gives them to clients, closes them    *)
(* and takes them through reloads of the configuration.                    *)
(*                                                                         *)
(* The manager serves one request at a time, and closing a path means to   *)
(* wait for its goroutine (pa.wait): meanwhile it answers nobody.  Paths,  *)
(* in turn, call the manager.  What a path does by itself is in module     *)
(* Path; here it is in its select, blocked on the manager ("telling" is    *)
(* setPathReady or setPathNotReady, "asking" is closePathIfIdle), tearing  *)
(* down, or gone.                                                          *)
(*                                                                         *)
(* One kind of static source calls the manager back: the secondary stream  *)
(* of a Raspberry Pi camera (staticsources/rpicamera/source.go), which     *)
(* reads the path of the primary stream.  Its goroutine is "secondary".    *)
(*                                                                         *)
(* Paths are Instances, since a name can have several of them over time.   *)
(* An instance that is gone, and that nobody refers to, is used again.     *)
(***************************************************************************)
EXTENDS Naturals, FiniteSets

CONSTANTS
  Names,        \* path names
  Pattern,      \* the key of the only regular expression; it matches any name
  PrimaryName,  \* the path that secondary camera sources read
  Instances,    \* identities of paths
  Clients,      \* readers and publishers
  Configs,      \* configurations: functions from keys to path configurations
  MaxReloads    \* bound on the number of reloads

Keys  == Names \cup {Pattern}
Kinds == {"publisher", "primary", "secondary"}

(* What cannot be hot reloaded is the kind, what can is the version. *)
PathConfs == [kind: Kinds, version: Nat]

ASSUME ConfigsAssumption ==
  /\ Pattern \notin Names
  /\ \A C \in Configs : DOMAIN C \subseteq Keys /\ C \in [DOMAIN C -> PathConfs]

ASSUME InstancesAssumption == "none" \notin Instances \cup Names

ASSUME PrimaryAssumption == PrimaryName \in Names

ASSUME ReloadsAssumption == MaxReloads \in Nat

Nobody == "none"

VARIABLES
  manager,    \* what the manager is doing
  subject,    \* the path it is deciding on or waiting for
  resume,     \* what it goes on with after that
  stopping,   \* pm.ctx is cancelled
  pathConfs,  \* pm.pathConfs
  incoming,   \* newPaths, while a reload is in progress
  todo,       \* names that doReloadConf has still to visit
  reloads,    \* number of reloads so far
  paths,      \* pm.paths
  name,       \* pa.name of each instance
  confName,   \* pa.confName, which belongs to the manager
  conf,       \* pa.conf, which belongs to the path
  cancelled,  \* doClosePath has cancelled pa.ctx
  loop,       \* where the goroutine of the path is
  late,       \* configurations that "go pa.reloadConf" has not delivered yet
  secondary,  \* the Run of a secondary source
  camera,     \* the path that it was given
  client,     \* each client
  given       \* the path that it was given

managerVars == <<manager, subject, resume>>
confVars    == <<pathConfs, incoming, todo, reloads>>
pathVars    == <<name, confName, conf, cancelled, loop, late>>
sourceVars  == <<secondary, camera>>
clientVars  == <<client, given>>
vars == <<managerVars, stopping, confVars, paths, pathVars, sourceVars,
          clientVars>>

Key(C, n)   == IF n \in DOMAIN C THEN n ELSE Pattern
Known(C, n) == Key(C, n) \in DOMAIN C
(* FindPathConf: the path's own entry if it has one, else the pattern. *)
FindPathConf(C, n) == [key |-> Key(C, n), kind |-> C[Key(C, n)].kind,
                       version |-> C[Key(C, n)].version]

TypeOK ==
  /\ manager \in {"serving", "deciding", "closing", "visiting", "creating",
                  "gone"}
  /\ subject \in Instances \cup {Nobody}
  /\ resume \in {"serving", "visiting"}
  /\ stopping \in BOOLEAN
  /\ pathConfs \in Configs /\ incoming \in Configs
  /\ todo \in SUBSET Names
  /\ reloads \in 0..MaxReloads
  /\ paths \in [Names -> Instances \cup {Nobody}]
  /\ name \in [Instances -> Names \cup {Nobody}]
  /\ confName \in [Instances -> Keys]
  /\ conf \in [Instances -> [key: Keys, kind: Kinds, version: Nat]]
  /\ cancelled \in [Instances -> BOOLEAN]
  /\ loop \in [Instances -> {"select", "telling", "asking", "ending", "done"}]
  /\ late \in [Instances -> SUBSET [key: Keys, kind: Kinds, version: Nat]]
  /\ secondary \in [Instances -> {"ended", "calling", "given", "pausing",
                                  "reading", "leaving"}]
  /\ camera \in [Instances -> Instances \cup {Nobody}]
  /\ client \in [Clients -> {"idle", "given", "using", "leaving"}]
  /\ given \in [Clients -> Instances \cup {Nobody}]

-----------------------------------------------------------------------------
(* The context of a path descends from the one of the manager. *)
Cancelled(i) == cancelled[i] \/ stopping

Fresh == {i \in Instances :
            /\ loop[i] = "done" /\ i # subject
            /\ \A n \in Names : paths[n] # i
            /\ \A c \in Clients : given[c] # i
            /\ \A j \in Instances : camera[j] # i}

Cleared == [key |-> Pattern, kind |-> "publisher", version |-> 0]

(* createPath and initialize(). *)
CreatePath(i, n, C) ==
  LET c == FindPathConf(C, n) IN
  /\ i \in Fresh
  /\ paths' = [paths EXCEPT ![n] = i]
  /\ name' = [name EXCEPT ![i] = n]
  /\ confName' = [confName EXCEPT ![i] = c.key]
  /\ conf' = [conf EXCEPT ![i] = c]
  /\ cancelled' = [cancelled EXCEPT ![i] = FALSE]
  /\ loop' = [loop EXCEPT ![i] = "select"]
  /\ late' = [late EXCEPT ![i] = {}]

(* doClosePath: the manager waits for the path. *)
\* Faulty variant: it does not.
ClosePath_NoWait(i, after) ==
  /\ paths' = [paths EXCEPT ![name[i]] = Nobody]
  /\ cancelled' = [cancelled EXCEPT ![i] = TRUE]
  /\ manager' = after
  /\ subject' = Nobody
  /\ resume' = after

ClosePath(i, after) ==
  /\ paths' = [paths EXCEPT ![name[i]] = Nobody]
  /\ cancelled' = [cancelled EXCEPT ![i] = TRUE]
  /\ manager' = "closing"
  /\ subject' = i
  /\ resume' = after

(* pa.wait() returns; what nobody reads any more is cleared. *)
CloseOver ==
  /\ manager = "closing" /\ loop[subject] = "done"
  /\ manager' = resume
  /\ resume' = "serving"
  /\ subject' = Nobody
  /\ name' = [name EXCEPT ![subject] = Nobody]
  /\ confName' = [confName EXCEPT ![subject] = Pattern]
  /\ conf' = [conf EXCEPT ![subject] = Cleared]
  /\ UNCHANGED <<stopping, confVars, paths, cancelled, loop, late, sourceVars,
                 clientVars>>

-----------------------------------------------------------------------------
(* Reload of the configuration.                                            *)

(* doReloadConf begins. *)
ReceiveReload(C) ==
  /\ manager = "serving" /\ reloads < MaxReloads /\ C # pathConfs
  /\ manager' = "visiting"
  /\ incoming' = C
  /\ todo' = {n \in Names : paths[n] # Nobody}
  /\ reloads' = reloads + 1
  /\ UNCHANGED <<subject, resume, stopping, pathConfs, paths, pathVars,
                 sourceVars, clientVars>>

\* Faulty variant: every change is taken for one that can be hot reloaded.
CanBeUpdated_Always(old, new) == TRUE
CanBeUpdated(old, new) == old.kind = new.kind

(* A path that goes on with another configuration. *)
\* Faulty variant: the manager does not note the name of the new one.
KeepPath_SameName(i, c) ==
  /\ confName' = confName
  /\ late' = [late EXCEPT ![i] = @ \cup {c}]
KeepPath(i, c) ==
  /\ confName' = [confName EXCEPT ![i] = c.key]
  /\ late' = [late EXCEPT ![i] = @ \cup {c}]

(* doReloadConf on one path: close it if its configuration is gone or      *)
(* cannot be hot reloaded, tell it otherwise ("go pa.reloadConf").         *)
VisitPath(n) ==
  LET i   == paths[n]
      new == FindPathConf(incoming, n)
      old == [pathConfs[confName[i]] EXCEPT !.version = 0]
      hot == Known(incoming, n) /\ CanBeUpdated(old, new)
      changed == \/ new.key # confName[i]
                 \/ pathConfs[confName[i]] # incoming[new.key]
  IN
  /\ manager = "visiting" /\ n \in todo
  /\ todo' = todo \ {n}
  /\ \/ /\ ~hot
        /\ ClosePath(i, "visiting")
        /\ UNCHANGED <<confName, late>>
     \/ /\ hot /\ changed
        /\ KeepPath(i, new)
        /\ UNCHANGED <<managerVars, paths, cancelled>>
     \/ /\ hot /\ ~changed
        /\ UNCHANGED <<managerVars, paths, confName, cancelled, late>>
  /\ UNCHANGED <<stopping, pathConfs, incoming, reloads, name, conf, loop,
                 sourceVars, clientVars>>

(* The loop is over: the new configuration counts. *)
\* Faulty variant: entries that were removed stay.
CommitReload_Merged ==
  /\ manager = "visiting" /\ todo = {}
  /\ manager' = "creating"
  /\ pathConfs' = [k \in DOMAIN pathConfs \cup DOMAIN incoming |->
                     IF k \in DOMAIN incoming THEN incoming[k] ELSE pathConfs[k]]
  /\ UNCHANGED <<subject, resume, stopping, incoming, todo, reloads, paths,
                 pathVars, sourceVars, clientVars>>
CommitReload ==
  /\ manager = "visiting" /\ todo = {}
  /\ manager' = "creating"
  /\ pathConfs' = incoming
  /\ UNCHANGED <<subject, resume, stopping, incoming, todo, reloads, paths,
                 pathVars, sourceVars, clientVars>>

Missing == {n \in DOMAIN pathConfs \ {Pattern} : paths[n] = Nobody}

CreateStaticPath(n) ==
  /\ manager = "creating" /\ n \in Missing
  /\ \E i \in Instances : CreatePath(i, n, pathConfs)
  /\ UNCHANGED <<managerVars, stopping, confVars, sourceVars, clientVars>>

ReloadOver ==
  /\ manager = "creating" /\ Missing = {}
  /\ manager' = "serving"
  /\ UNCHANGED <<subject, resume, stopping, confVars, paths, pathVars,
                 sourceVars, clientVars>>

-----------------------------------------------------------------------------
(* The loop of a path, as far as the manager can tell.                     *)

Users(i) == {c \in Clients : given[c] = i /\ client[c] = "using"} \cup
            {j \in Instances : camera[j] = i /\ secondary[j] = "reading"}
Pending(i) == {c \in Clients : given[c] = i /\ client[c] = "given"} \cup
              {j \in Instances : camera[j] = i /\ secondary[j] = "given"}

(* The end of an event: an unused path of a regular expression asks to be  *)
(* closed (shouldClose).  "telling": the event has changed the stream.     *)
EventEnds(i, tells) ==
  loop' = [loop EXCEPT ![i] =
             IF tells THEN "telling"
             ELSE IF conf[i].key = Pattern /\ Users(i)' = {} THEN "asking"
             ELSE "select"]

(* setPathReady and setPathNotReady return: the manager has taken the      *)
(* message, or the path is being closed.                                   *)
\* Faulty variant: the path waits for the manager in any case.
Told_ManagerOnly(i) ==
  /\ loop[i] = "telling"
  /\ manager = "serving"
  /\ UNCHANGED <<managerVars, stopping, confVars, paths, name, confName, conf,
                 cancelled, late, sourceVars, clientVars>>
  /\ EventEnds(i, FALSE)

Told(i) ==
  /\ loop[i] = "telling"
  /\ manager = "serving" \/ Cancelled(i)
  /\ UNCHANGED <<managerVars, stopping, confVars, paths, name, confName, conf,
                 cancelled, late, sourceVars, clientVars>>
  /\ EventEnds(i, FALSE)

(* closePathIfIdle: the manager takes the question and the path goes on,   *)
(* then the manager decides.                                               *)
CloseIfIdleReceived(i) ==
  /\ loop[i] = "asking" /\ manager = "serving"
  /\ loop' = [loop EXCEPT ![i] = "select"]
  /\ manager' = "deciding"
  /\ subject' = i
  /\ UNCHANGED <<resume, stopping, confVars, paths, name, confName, conf,
                 cancelled, late, sourceVars, clientVars>>

CloseIfIdleAbandoned(i) ==
  /\ loop[i] = "asking" /\ Cancelled(i)
  /\ loop' = [loop EXCEPT ![i] = "select"]
  /\ UNCHANGED <<managerVars, stopping, confVars, paths, name, confName, conf,
                 cancelled, late, sourceVars, clientVars>>

DecideCloseIfIdle ==
  /\ manager = "deciding"
  /\ IF Pending(subject) = {}
     THEN ClosePath(subject, "serving")
     ELSE /\ manager' = "serving" /\ subject' = Nobody
          /\ UNCHANGED <<resume, paths, cancelled>>
  /\ UNCHANGED <<stopping, confVars, name, confName, conf, loop, late,
                 sourceVars, clientVars>>

(* doReloadConf of the path: the deliveries come in any order. *)
ReceiveConf(i, c) ==
  /\ loop[i] = "select" /\ c \in late[i]
  /\ conf' = [conf EXCEPT ![i] = c]
  /\ late' = [late EXCEPT ![i] = @ \ {c}]
  /\ UNCHANGED <<managerVars, stopping, confVars, paths, name, confName,
                 cancelled, loop, sourceVars, clientVars>>

(* A static source becomes ready or fails. *)
SourceChanges(i) ==
  /\ loop[i] = "select"
  /\ \/ conf[i].kind = "primary"
     \/ conf[i].kind = "secondary" /\ secondary[i] = "reading"
  /\ UNCHANGED <<managerVars, stopping, confVars, paths, name, confName, conf,
                 cancelled, late, sourceVars, clientVars>>
  /\ EventEnds(i, TRUE)

(* runInner returns.  removePath reaches the manager only when the manager *)
(* itself is being closed and has not noticed yet.                         *)
RunInnerEnds(i) ==
  /\ loop[i] = "select" /\ Cancelled(i)
  /\ loop' = [loop EXCEPT ![i] = "ending"]
  /\ \/ UNCHANGED paths
     \/ /\ manager = "serving" /\ paths[name[i]] = i
        /\ paths' = [paths EXCEPT ![name[i]] = Nobody]
  /\ UNCHANGED <<managerVars, stopping, confVars, name, confName, conf,
                 cancelled, late, sourceVars, clientVars>>

(* The rest of run(): the source is closed, which means to wait for it.    *)
Destroyed(i) ==
  /\ loop[i] = "ending"
  /\ secondary[i] = "ended"
  /\ loop' = [loop EXCEPT ![i] = "done"]
  /\ late' = [late EXCEPT ![i] = {}]
  /\ UNCHANGED <<managerVars, stopping, confVars, paths, name, confName, conf,
                 cancelled, sourceVars, clientVars>>

-----------------------------------------------------------------------------
(* Clients.                                                                *)

(* doDescribe, doAddReader, doAddPublisher: the path is created if need be. *)
\* Faulty variant: a path is created whether the name has one or not.
GetPath_Always(c, n) ==
  /\ manager = "serving" /\ client[c] = "idle" /\ Known(pathConfs, n)
  /\ \E i \in Fresh :
       /\ CreatePath(i, n, pathConfs)
       /\ given' = [given EXCEPT ![c] = i]
  /\ client' = [client EXCEPT ![c] = "given"]
  /\ UNCHANGED <<managerVars, stopping, confVars, sourceVars>>

GetPath(c, n) ==
  /\ manager = "serving" /\ client[c] = "idle" /\ Known(pathConfs, n)
  /\ \/ /\ paths[n] # Nobody
        /\ given' = [given EXCEPT ![c] = paths[n]]
        /\ UNCHANGED <<paths, pathVars>>
     \/ /\ paths[n] = Nobody
        /\ \E i \in Fresh :
             /\ CreatePath(i, n, pathConfs)
             /\ given' = [given EXCEPT ![c] = i]
  /\ client' = [client EXCEPT ![c] = "given"]
  /\ UNCHANGED <<managerVars, stopping, confVars, sourceVars>>

(* The path accepts the client, or answers with an error. *)
Served(c) ==
  /\ client[c] = "given"
  /\ UNCHANGED <<managerVars, stopping, confVars, paths, name, confName, conf,
                 cancelled, late, sourceVars>>
  /\ \E i \in Instances :
       /\ given[c] = i /\ loop[i] = "select"
       /\ \/ /\ client' = [client EXCEPT ![c] = "using"]
             /\ UNCHANGED given
             /\ \E tells \in BOOLEAN : EventEnds(i, tells)
          \/ /\ client' = [client EXCEPT ![c] = "idle"]
             /\ given' = [given EXCEPT ![c] = Nobody]
             /\ EventEnds(i, FALSE)

Leaves(c) ==
  /\ client[c] = "using"
  /\ client' = [client EXCEPT ![c] = "leaving"]
  /\ UNCHANGED <<managerVars, stopping, confVars, paths, pathVars, sourceVars,
                 given>>

Removed(c) ==
  /\ client[c] = "leaving"
  /\ client' = [client EXCEPT ![c] = "idle"]
  /\ given' = [given EXCEPT ![c] = Nobody]
  /\ UNCHANGED <<managerVars, stopping, confVars, paths, name, confName, conf,
                 cancelled, late, sourceVars>>
  /\ \E i \in Instances, tells \in BOOLEAN :
       given[c] = i /\ loop[i] = "select" /\ EventEnds(i, tells)

(* The context of the path ends the call, or the session. *)
\* Faulty variant: a request that was not taken yet does not look at it.
CallCancelled_NotRequests(c) ==
  /\ client[c] \in {"using", "leaving"} /\ Cancelled(given[c])
  /\ client' = [client EXCEPT ![c] = "idle"]
  /\ given' = [given EXCEPT ![c] = Nobody]
  /\ UNCHANGED <<managerVars, stopping, confVars, paths, pathVars, sourceVars>>

CallCancelled(c) ==
  /\ client[c] # "idle" /\ Cancelled(given[c])
  /\ client' = [client EXCEPT ![c] = "idle"]
  /\ given' = [given EXCEPT ![c] = Nobody]
  /\ UNCHANGED <<managerVars, stopping, confVars, paths, pathVars, sourceVars>>

-----------------------------------------------------------------------------
(* The secondary source of path i.                                         *)

HasSecondary(i) == loop[i] # "done" /\ conf[i].kind = "secondary"

SecondaryIs(i, state, j) ==
  /\ secondary' = [secondary EXCEPT ![i] = state]
  /\ camera' = [camera EXCEPT ![i] = j]

(* The handler runs the source, the first time and after a pause. *)
SecondaryStarts(i) ==
  /\ HasSecondary(i) /\ secondary[i] = "ended" /\ loop[i] # "ending"
  /\ SecondaryIs(i, "calling", Nobody)
  /\ UNCHANGED <<managerVars, stopping, confVars, paths, pathVars, clientVars>>

(* pathManager.AddReader: no context but the one of the manager ends it.   *)
SecondaryCalls(i) ==
  /\ secondary[i] = "calling"
  /\ \/ /\ manager = "serving"
        /\ IF ~Known(pathConfs, PrimaryName)
           THEN /\ SecondaryIs(i, "ended", Nobody)
                /\ UNCHANGED <<paths, pathVars>>
           ELSE \/ /\ paths[PrimaryName] # Nobody
                   /\ SecondaryIs(i, "given", paths[PrimaryName])
                   /\ UNCHANGED <<paths, pathVars>>
                \/ /\ paths[PrimaryName] = Nobody
                   /\ \E j \in Fresh : /\ CreatePath(j, PrimaryName, pathConfs)
                                       /\ SecondaryIs(i, "given", j)
     \/ /\ stopping
        /\ SecondaryIs(i, "ended", Nobody)
        /\ UNCHANGED <<paths, pathVars>>
  /\ UNCHANGED <<managerVars, stopping, confVars, clientVars>>

(* addReader of the primary path: a stream, or none yet. *)
SecondaryServed(i) ==
  /\ secondary[i] = "given"
  /\ UNCHANGED <<managerVars, stopping, confVars, paths, name, confName, conf,
                 cancelled, late, clientVars>>
  /\ \E j \in Instances :
       /\ camera[i] = j
       /\ \/ /\ loop[j] = "select"
             /\ \/ SecondaryIs(i, "reading", j)
                \/ SecondaryIs(i, "pausing", Nobody)
             /\ EventEnds(j, FALSE)
          \/ /\ Cancelled(j)
             /\ SecondaryIs(i, "ended", Nobody)
             /\ UNCHANGED loop

SecondaryPauses(i) ==
  /\ secondary[i] = "pausing"
  /\ SecondaryIs(i, IF loop[i] = "ending" THEN "ended" ELSE "calling", Nobody)
  /\ UNCHANGED <<managerVars, stopping, confVars, paths, pathVars, clientVars>>

(* The primary stream ends, or the source is stopped. *)
SecondaryLeaves(i) ==
  /\ secondary[i] = "reading"
  /\ SecondaryIs(i, "leaving", camera[i])
  /\ UNCHANGED <<managerVars, stopping, confVars, paths, pathVars, clientVars>>

SecondaryRemoved(i) ==
  /\ secondary[i] = "leaving"
  /\ SecondaryIs(i, "ended", Nobody)
  /\ UNCHANGED <<managerVars, stopping, confVars, paths, name, confName, conf,
                 cancelled, late, clientVars>>
  /\ \E j \in Instances :
       /\ camera[i] = j
       /\ \/ Cancelled(j) /\ UNCHANGED loop
          \/ loop[j] = "select" /\ EventEnds(j, FALSE)

-----------------------------------------------------------------------------
(* close(): the context of the manager, and of every path, is cancelled.   *)
Shutdown ==
  /\ ~stopping
  /\ stopping' = TRUE
  /\ UNCHANGED <<managerVars, confVars, paths, pathVars, sourceVars,
                 clientVars>>

ManagerEnds ==
  /\ manager = "serving" /\ stopping
  /\ manager' = "gone"
  /\ UNCHANGED <<subject, resume, stopping, confVars, paths, pathVars,
                 sourceVars, clientVars>>

AllGone == manager = "gone" /\ \A i \in Instances : loop[i] = "done"

Finished ==
  /\ AllGone /\ \A c \in Clients : client[c] = "idle"
  /\ UNCHANGED vars

(* initialize() creates the static paths. *)
Init ==
  /\ pathConfs \in Configs
  /\ incoming = pathConfs
  /\ manager = "serving"
  /\ subject = Nobody
  /\ resume = "serving"
  /\ stopping = FALSE
  /\ todo = {}
  /\ reloads = 0
  /\ paths \in {p \in [Names -> Instances \cup {Nobody}] :
                 /\ \A n \in Names : p[n] # Nobody <=> n \in DOMAIN pathConfs
                 /\ \A n, m \in Names : p[n] = p[m] => n = m \/ p[n] = Nobody}
  /\ name \in [Instances -> Names \cup {Nobody}]
  /\ \A i \in Instances : \/ name[i] # Nobody /\ paths[name[i]] = i
                          \/ name[i] = Nobody /\ \A n \in Names : paths[n] # i
  /\ confName = [i \in Instances |-> IF name[i] = Nobody THEN Pattern
                                    ELSE name[i]]
  /\ conf = [i \in Instances |->
               IF name[i] = Nobody
               THEN Cleared
               ELSE FindPathConf(pathConfs, name[i])]
  /\ cancelled = [i \in Instances |-> name[i] = Nobody]
  /\ loop = [i \in Instances |-> IF name[i] = Nobody THEN "done" ELSE "select"]
  /\ late = [i \in Instances |-> {}]
  /\ secondary = [i \in Instances |-> "ended"]
  /\ camera = [i \in Instances |-> Nobody]
  /\ client = [c \in Clients |-> "idle"]
  /\ given = [c \in Clients |-> Nobody]

ManagerStep ==
  \/ \E C \in Configs : ReceiveReload(C)
  \/ \E n \in Names : VisitPath(n)
  \/ CommitReload
  \/ \E n \in Names : CreateStaticPath(n)
  \/ ReloadOver \/ CloseOver \/ DecideCloseIfIdle \/ ManagerEnds

PathStep(i) ==
  \/ Told(i) \/ CloseIfIdleReceived(i) \/ CloseIfIdleAbandoned(i)
  \/ \E c \in late[i] : ReceiveConf(i, c)
  \/ SourceChanges(i) \/ RunInnerEnds(i) \/ Destroyed(i)

ClientStep(c) ==
  \/ \E n \in Names : GetPath(c, n)
  \/ Served(c) \/ Leaves(c) \/ Removed(c) \/ CallCancelled(c)

SecondaryStep(i) ==
  \/ SecondaryStarts(i) \/ SecondaryCalls(i) \/ SecondaryServed(i)
  \/ SecondaryPauses(i) \/ SecondaryLeaves(i) \/ SecondaryRemoved(i)

Next ==
  \/ ManagerStep
  \/ \E i \in Instances : PathStep(i) \/ SecondaryStep(i)
  \/ \E c \in Clients : ClientStep(c)
  \/ Shutdown
  \/ Finished

Spec == Init /\ [][Next]_vars

(* Whoever can go on does (weak fairness), and a select that finds the     *)
(* same message ready again and again takes it at last (strong fairness,   *)
(* stated where the results need it).  Nothing makes a client arrive or    *)
(* leave, a source change, a reload happen or the server stop.             *)
Fairness ==
  /\ WF_vars(\E n \in Names : VisitPath(n))
  /\ WF_vars(CommitReload)
  /\ WF_vars(\E n \in Names : CreateStaticPath(n))
  /\ WF_vars(ReloadOver) /\ WF_vars(CloseOver) /\ WF_vars(DecideCloseIfIdle)
  /\ SF_vars(ManagerEnds)
  /\ \A i \in Instances :
       /\ SF_vars(RunInnerEnds(i))
       /\ WF_vars(Told(i)) /\ WF_vars(Destroyed(i))
       /\ WF_vars(CloseIfIdleReceived(i)) /\ WF_vars(CloseIfIdleAbandoned(i))
       /\ WF_vars(SecondaryCalls(i)) /\ WF_vars(SecondaryServed(i))
       /\ WF_vars(SecondaryPauses(i)) /\ WF_vars(SecondaryRemoved(i))
       /\ WF_vars(loop[i] = "ending" /\ SecondaryLeaves(i))
  /\ \A c \in Clients : SF_vars(Served(c)) /\ WF_vars(CallCancelled(c))

FairSpec == Spec /\ Fairness

-----------------------------------------------------------------------------
(* Safety.                                                                 *)

Live(i) == loop[i] # "done"

Reloading == manager = "visiting" \/ (manager = "closing" /\ resume = "visiting")

(* "avoid conflicts between sources": a name never has two paths at a      *)
(* time, the one that is tearing down included, so two sources never       *)
(* publish to, or read from, the same place.                               *)
OneLivePath ==
  ~stopping => \A i, j \in Instances :
                 Live(i) /\ Live(j) /\ name[i] = name[j] => i = j

(* The map holds the paths that are open, under their names: a client is   *)
(* never given a path that was closed before it asked, and no path runs    *)
(* that a reload or a shutdown would not find.                             *)
MapIsAccurate ==
  /\ \A n \in Names : paths[n] # Nobody =>
       ~cancelled[paths[n]] /\ name[paths[n]] = n
  /\ \A i \in Instances :
       ~cancelled[i] /\ ~stopping => paths[name[i]] = i

(* The manager knows which entry each path belongs to, before and after    *)
(* each step of a reload: doReloadConf looks the old entry up under this   *)
(* name, and would crash if it were missing.                               *)
ConfNameIsCurrent ==
  \A n \in Names : paths[n] # Nobody =>
    LET C == IF Reloading /\ n \notin todo THEN incoming ELSE pathConfs
    IN  Known(C, n) /\ confName[paths[n]] = Key(C, n)

(* Whatever is in flight, a path never runs with a source that its entry   *)
(* does not have: what cannot be hot reloaded is current.                  *)
SourceIsCurrent ==
  manager = "serving" =>
    \A n \in Names : paths[n] # Nobody =>
      conf[paths[n]].kind = FindPathConf(pathConfs, n).kind

(* What the manager knows of its paths is right: the map, the names of the *)
(* entries and, whenever it serves somebody, the sources.                  *)
MapAgrees ==
  OneLivePath /\ MapIsAccurate /\ ConfNameIsCurrent /\ SourceIsCurrent

(* The manager is a registry of paths: under a name there is one path that *)
(* has not ended, whatever reloads and clients do.                         *)
R == INSTANCE Registry WITH
       Paths <- Instances, None <- Nobody,
       open <- ~stopping, current <- paths, lease <- given,
       living <- [i \in Instances |-> IF Live(i) THEN name[i] ELSE Nobody]

ImplementsRegistry == R!Spec

-----------------------------------------------------------------------------
(* Liveness.                                                               *)

(* The manager never waits for a path for ever: paths that call it while   *)
(* it waits for them are let go.                                           *)
CloseCompletes == manager = "closing" ~> manager # "closing"

(* A client that was given a path is answered.                             *)
ClientIsAnswered == \A c \in Clients : client[c] = "given" ~> client[c] # "given"

(* Neither the manager nor a client waits for a path for ever.             *)
PathsAnswer == CloseCompletes /\ ClientIsAnswered
=============================================================================
