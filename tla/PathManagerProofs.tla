-------------------------- MODULE PathManagerProofs --------------------------
(* Theorems about PathManager, for any names, configurations, clients and   *)
(* number of reloads: the types, what the manager knows of its paths        *)
(* (MapAgrees), and that it implements Registry.                            *)
EXTENDS PathManager, TLAPS

-----------------------------------------------------------------------------
(* The inductive invariant.                                                 *)

Loops == {"select", "telling", "asking", "ending", "done"}

Secondaries == {"ended", "calling", "given", "pausing", "reading", "leaving"}

(* The path is in its loop, and takes events. *)
Up == {"select", "telling", "asking"}

Entries == [key: Keys, kind: Kinds, version: Nat]

(* The configuration that counts for a name: during a reload, the new one   *)
(* for names that have been visited.                                        *)
ConfOf(n) == IF Reloading /\ n \notin todo THEN incoming ELSE pathConfs

(* A path that takes events is in the map, unless it is being closed. *)
Listed ==
  \A i \in Instances :
    loop[i] \in Up /\ ~(manager = "closing" /\ subject = i) => paths[name[i]] = i

Named == \A i \in Instances : loop[i] # "done" => name[i] \in Names

EndedIsCancelled == \A i \in Instances : loop[i] \notin Up => Cancelled(i)

(* The map holds open paths, under their names. *)
MapIsOpen ==
  \A n \in Names : paths[n] # Nobody => ~cancelled[paths[n]] /\ name[paths[n]] = n

(* One path is closed at a time. *)
CancelledIsSubject ==
  ~stopping => \A i \in Instances :
    loop[i] # "done" /\ cancelled[i] => manager = "closing" /\ subject = i

DecidesOnListed ==
  manager = "deciding" =>
    subject \in Instances /\ name[subject] \in Names /\ paths[name[subject]] = subject

(* Nothing takes the name of a path that is being closed. *)
ClosedLeavesGap ==
  manager = "closing" =>
    /\ subject \in Instances /\ name[subject] \in Names
    /\ cancelled[subject] /\ paths[name[subject]] = Nobody

TodoIsListed == Reloading => \A n \in todo : paths[n] # Nobody

(* A path, and every configuration on its way to it, has the kind of the    *)
(* entry that the manager has noted for it.                                 *)
HasEntry(i, C, n) ==
  /\ Known(C, n) /\ confName[i] = Key(C, n)
  /\ conf[i].kind = C[Key(C, n)].kind
  /\ \A c \in late[i] : c.kind = C[Key(C, n)].kind

EntriesAreCurrent ==
  \A n \in Names : paths[n] # Nobody => HasEntry(paths[n], ConfOf(n), n)

MapInv ==
  /\ Listed /\ Named /\ EndedIsCancelled /\ MapIsOpen /\ CancelledIsSubject
  /\ DecidesOnListed /\ ClosedLeavesGap /\ TodoIsListed /\ EntriesAreCurrent

(* Whoever was given a path holds it. *)
ClientsHold == \A c \in Clients : client[c] = "idle" <=> given[c] = Nobody

-----------------------------------------------------------------------------
(* Types.                                                                   *)

(* FindPathConf finds an entry of the configuration. *)
LEMMA FindPathConfType ==
  ASSUME NEW C \in Configs, NEW n \in Names, Known(C, n)
  PROVE  /\ Key(C, n) \in Keys /\ Key(C, n) \in DOMAIN C
         /\ FindPathConf(C, n) \in Entries
         /\ FindPathConf(C, n).key = Key(C, n)
         /\ FindPathConf(C, n).kind = C[Key(C, n)].kind
<1>1. Key(C, n) \in DOMAIN C /\ Key(C, n) \in Keys
  BY DEF Known, Key, Keys
<1>2. C[Key(C, n)] \in PathConfs
  BY <1>1, ConfigsAssumption
<1> QED
  BY <1>1, <1>2 DEF FindPathConf, PathConfs, Entries

(* createPath keeps the types. *)
LEMMA CreatePathType ==
  ASSUME TypeOK, NEW i \in Instances, NEW n \in Names, Known(pathConfs, n),
         CreatePath(i, n, pathConfs)
  PROVE  /\ paths' \in [Names -> Instances \cup {Nobody}]
         /\ name' \in [Instances -> Names \cup {Nobody}]
         /\ confName' \in [Instances -> Keys]
         /\ conf' \in [Instances -> Entries]
         /\ cancelled' \in [Instances -> BOOLEAN]
         /\ loop' \in [Instances -> Loops]
         /\ late' \in [Instances -> SUBSET Entries]
<1>1. /\ FindPathConf(pathConfs, n) \in Entries
      /\ FindPathConf(pathConfs, n).key \in Keys
  BY FindPathConfType DEF TypeOK
<1> QED
  BY <1>1 DEF CreatePath, TypeOK, Loops, Entries

(* The end of an event leaves the path in its loop. *)
LEMMA EventEndsType ==
  ASSUME TypeOK, NEW i, NEW tells, EventEnds(i, tells)
  PROVE  loop' \in [Instances -> Loops]
<1> DEFINE next == IF tells THEN "telling"
                   ELSE IF conf[i].key = Pattern /\ Users(i)' = {} THEN "asking"
                   ELSE "select"
<1>1. loop' = [loop EXCEPT ![i] = next]
  BY DEF EventEnds
<1>2. next \in Loops
  BY DEF Loops
<1> HIDE DEF next
<1> QED
  BY <1>1, <1>2 DEF TypeOK, Loops

(* So does what a secondary source does next. *)
LEMMA SecondaryIsType ==
  ASSUME TypeOK, NEW i \in Instances, NEW state \in Secondaries,
         NEW j \in Instances \cup {Nobody}, SecondaryIs(i, state, j)
  PROVE  /\ secondary' \in [Instances -> Secondaries]
         /\ camera' \in [Instances -> Instances \cup {Nobody}]
BY DEF SecondaryIs, TypeOK, Secondaries

LEMMA TypeInit == Init => TypeOK
<1> SUFFICES ASSUME Init PROVE TypeOK
  OBVIOUS
<1>1. ASSUME NEW i \in Instances, name[i] # Nobody
      PROVE  FindPathConf(pathConfs, name[i]) \in Entries
  <2>1. name[i] \in Names /\ paths[name[i]] = i
    BY <1>1 DEF Init
  <2>2. name[i] \in DOMAIN pathConfs
    BY <2>1, InstancesAssumption DEF Init, Nobody
  <2>3. Known(pathConfs, name[i])
    BY <2>2 DEF Known, Key
  <2> QED
    BY <2>1, <2>3, FindPathConfType DEF Init
<1>2. conf \in [Instances -> Entries]
  <2>1. Cleared \in Entries
    BY DEF Cleared, Entries, Keys, Kinds
  <2> QED
    BY <1>1, <2>1 DEF Init
<1>3. confName \in [Instances -> Keys]
  BY DEF Init, Keys
<1>4. paths \in [Names -> Instances \cup {Nobody}]
  BY DEF Init
<1>5. reloads \in 0..MaxReloads
  BY ReloadsAssumption DEF Init
<1> QED
  BY <1>2, <1>3, <1>4, <1>5 DEF Init, TypeOK, Entries, Nobody

(* Every step keeps the types. *)
LEMMA TypeStep ==
  ASSUME TypeOK, [Next]_vars
  PROVE  TypeOK'
<1>1. ASSUME NEW C \in Configs, ReceiveReload(C) PROVE TypeOK'
  <2>1. reloads' \in 0..MaxReloads
    BY <1>1, ReloadsAssumption DEF ReceiveReload, TypeOK
  <2> QED
    BY <1>1, <2>1 DEF ReceiveReload, TypeOK, pathVars, sourceVars, clientVars
<1>2. ASSUME NEW n \in Names, VisitPath(n) PROVE TypeOK'
  <2> DEFINE i == paths[n]
             new == FindPathConf(incoming, n)
             hot == /\ Known(incoming, n)
                    /\ CanBeUpdated([pathConfs[confName[i]] EXCEPT !.version = 0], new)
  <2>1. CASE ~hot /\ ClosePath(i, "visiting") /\ UNCHANGED <<confName, late>>
    BY <1>2, <2>1 DEF VisitPath, ClosePath, TypeOK, sourceVars, clientVars
  <2>2. CASE hot /\ KeepPath(i, new) /\ UNCHANGED <<managerVars, paths, cancelled>>
    <3>1. new \in Entries /\ new.key \in Keys
      BY <2>2, FindPathConfType DEF TypeOK
    <3>2. confName' \in [Instances -> Keys]
      BY <2>2, <3>1 DEF KeepPath, TypeOK
    <3>3. late' \in [Instances -> SUBSET Entries]
      BY <2>2, <3>1 DEF KeepPath, TypeOK, Entries
    <3> QED
      BY <1>2, <2>2, <3>2, <3>3
         DEF VisitPath, TypeOK, Entries, managerVars, sourceVars, clientVars
  <2>3. CASE UNCHANGED <<managerVars, paths, confName, cancelled, late>>
    BY <1>2, <2>3 DEF VisitPath, TypeOK, managerVars, sourceVars, clientVars
  <2> QED
    BY <1>2, <2>1, <2>2, <2>3 DEF VisitPath
<1>3. ASSUME CommitReload PROVE TypeOK'
  BY <1>3 DEF CommitReload, TypeOK, pathVars, sourceVars, clientVars
<1>4. ASSUME NEW n \in Names, CreateStaticPath(n) PROVE TypeOK'
  <2>1. Known(pathConfs, n)
    BY <1>4 DEF CreateStaticPath, Missing, Known, Key
  <2>2. PICK i \in Instances : CreatePath(i, n, pathConfs)
    BY <1>4 DEF CreateStaticPath
  <2> QED
    BY <1>4, <2>1, <2>2, CreatePathType
       DEF CreateStaticPath, TypeOK, Loops, Entries, managerVars, confVars, sourceVars,
           clientVars
<1>5. ASSUME ReloadOver PROVE TypeOK'
  BY <1>5 DEF ReloadOver, TypeOK, confVars, pathVars, sourceVars, clientVars
<1>6. ASSUME CloseOver PROVE TypeOK'
  <2>1. Cleared \in [key: Keys, kind: Kinds, version: Nat] /\ Pattern \in Keys
    BY DEF Cleared, Keys, Kinds
  <2> QED
    BY <1>6, <2>1 DEF CloseOver, TypeOK, confVars, sourceVars, clientVars
<1>7. ASSUME DecideCloseIfIdle PROVE TypeOK'
  <2>1. CASE ClosePath(subject, "serving")
    BY <1>7, <2>1 DEF DecideCloseIfIdle, ClosePath, TypeOK, confVars, sourceVars, clientVars
  <2>2. CASE /\ manager' = "serving" /\ subject' = Nobody
             /\ UNCHANGED <<resume, paths, cancelled>>
    BY <1>7, <2>2 DEF DecideCloseIfIdle, TypeOK, confVars, sourceVars, clientVars
  <2> QED
    BY <1>7, <2>1, <2>2 DEF DecideCloseIfIdle
<1>8. ASSUME ManagerEnds PROVE TypeOK'
  BY <1>8 DEF ManagerEnds, TypeOK, confVars, pathVars, sourceVars, clientVars
<1>9. ASSUME NEW i \in Instances, PathStep(i) PROVE TypeOK'
  <2>1. CASE Told(i)
    BY <2>1, EventEndsType
       DEF Told, TypeOK, Loops, managerVars, confVars, sourceVars, clientVars
  <2>2. CASE CloseIfIdleReceived(i)
    BY <2>2 DEF CloseIfIdleReceived, TypeOK, confVars, sourceVars, clientVars
  <2>3. CASE CloseIfIdleAbandoned(i)
    BY <2>3 DEF CloseIfIdleAbandoned, TypeOK, managerVars, confVars, sourceVars, clientVars
  <2>4. ASSUME NEW c \in late[i], ReceiveConf(i, c) PROVE TypeOK'
    BY <2>4 DEF ReceiveConf, TypeOK, managerVars, confVars, sourceVars, clientVars
  <2>5. CASE SourceChanges(i)
    BY <2>5, EventEndsType
       DEF SourceChanges, TypeOK, Loops, managerVars, confVars, sourceVars, clientVars
  <2>6. CASE RunInnerEnds(i)
    <3>1. paths' \in [Names -> Instances \cup {Nobody}]
      BY <2>6 DEF RunInnerEnds, TypeOK
    <3> QED
      BY <2>6, <3>1 DEF RunInnerEnds, TypeOK, managerVars, confVars, sourceVars, clientVars
  <2>7. CASE Destroyed(i)
    BY <2>7 DEF Destroyed, TypeOK, managerVars, confVars, sourceVars, clientVars
  <2> QED
    BY <1>9, <2>1, <2>2, <2>3, <2>4, <2>5, <2>6, <2>7 DEF PathStep
<1>10. ASSUME NEW i \in Instances, SecondaryStep(i) PROVE TypeOK'
  <2>1. CASE SecondaryStarts(i)
    BY <2>1 DEF SecondaryStarts, SecondaryIs, TypeOK, managerVars, confVars, pathVars,
                clientVars
  <2>2. CASE SecondaryCalls(i)
    <3>1. /\ secondary' \in [Instances -> Secondaries]
          /\ camera' \in [Instances -> Instances \cup {Nobody}]
      <4>1. PICK state \in Secondaries, j \in Instances \cup {Nobody} :
              SecondaryIs(i, state, j)
        BY <2>2, PrimaryAssumption DEF SecondaryCalls, Secondaries, TypeOK, Fresh
      <4> QED
        BY <4>1, SecondaryIsType
    <3>2. CASE UNCHANGED <<paths, pathVars>>
      BY <2>2, <3>1, <3>2
         DEF SecondaryCalls, TypeOK, Secondaries, managerVars, confVars, pathVars, clientVars
    <3>3. CASE /\ Known(pathConfs, PrimaryName)
               /\ \E j \in Fresh : CreatePath(j, PrimaryName, pathConfs)
      <4>1. PICK j \in Instances : CreatePath(j, PrimaryName, pathConfs)
        BY <3>3 DEF Fresh
      <4> QED
        BY <2>2, <3>1, <3>3, <4>1, CreatePathType, PrimaryAssumption
           DEF SecondaryCalls, TypeOK, Secondaries, Loops, Entries, managerVars, confVars, clientVars
    <3> QED
      BY <2>2, <3>2, <3>3 DEF SecondaryCalls
  <2>3. CASE SecondaryServed(i)
    <3>1. /\ secondary' \in [Instances -> Secondaries]
          /\ camera' \in [Instances -> Instances \cup {Nobody}]
      <4>1. PICK state \in Secondaries, j \in Instances \cup {Nobody} :
              SecondaryIs(i, state, j)
        BY <2>3 DEF SecondaryServed, Secondaries, TypeOK
      <4> QED
        BY <4>1, SecondaryIsType
    <3>2. loop' \in [Instances -> Loops]
      BY <2>3, EventEndsType DEF SecondaryServed, TypeOK, Loops
    <3> QED
      BY <2>3, <3>1, <3>2
         DEF SecondaryServed, TypeOK, Secondaries, Loops, managerVars, confVars, clientVars
  <2>4. CASE SecondaryPauses(i)
    BY <2>4 DEF SecondaryPauses, SecondaryIs, TypeOK, managerVars, confVars, pathVars,
                clientVars
  <2>5. CASE SecondaryLeaves(i)
    BY <2>5 DEF SecondaryLeaves, SecondaryIs, TypeOK, managerVars, confVars, pathVars,
                clientVars
  <2>6. CASE SecondaryRemoved(i)
    <3>1. loop' \in [Instances -> Loops]
      BY <2>6, EventEndsType DEF SecondaryRemoved, TypeOK, Loops
    <3> QED
      BY <2>6, <3>1
         DEF SecondaryRemoved, SecondaryIs, TypeOK, Loops, managerVars, confVars, clientVars
  <2> QED
    BY <1>10, <2>1, <2>2, <2>3, <2>4, <2>5, <2>6 DEF SecondaryStep
<1>11. ASSUME NEW c \in Clients, ClientStep(c) PROVE TypeOK'
  <2>1. ASSUME NEW n \in Names, GetPath(c, n) PROVE TypeOK'
    <3>1. CASE paths[n] # Nobody /\ UNCHANGED <<paths, pathVars>>
               /\ given' = [given EXCEPT ![c] = paths[n]]
      BY <2>1, <3>1 DEF GetPath, TypeOK, managerVars, confVars, pathVars, sourceVars
    <3>2. ASSUME NEW i \in Fresh, CreatePath(i, n, pathConfs),
                 given' = [given EXCEPT ![c] = i]
          PROVE  TypeOK'
      <4>1. i \in Instances /\ Known(pathConfs, n)
        BY <2>1, <3>2 DEF Fresh, GetPath
      <4> QED
        BY <2>1, <3>2, <4>1, CreatePathType
           DEF GetPath, TypeOK, Loops, Entries, managerVars, confVars, sourceVars
    <3> QED
      BY <2>1, <3>1, <3>2 DEF GetPath
  <2>2. CASE Served(c)
    <3>1. loop' \in [Instances -> Loops]
      BY <2>2, EventEndsType DEF Served
    <3>2. /\ client' \in [Clients -> {"idle", "given", "using", "leaving"}]
          /\ given' \in [Clients -> Instances \cup {Nobody}]
      BY <2>2 DEF Served, TypeOK
    <3> QED
      BY <2>2, <3>1, <3>2 DEF Served, TypeOK, Loops, managerVars, confVars, sourceVars
  <2>3. CASE Leaves(c)
    BY <2>3 DEF Leaves, TypeOK, managerVars, confVars, pathVars, sourceVars
  <2>4. CASE Removed(c)
    <3>1. loop' \in [Instances -> Loops]
      BY <2>4, EventEndsType DEF Removed
    <3> QED
      BY <2>4, <3>1 DEF Removed, TypeOK, Loops, managerVars, confVars, sourceVars
  <2>5. CASE CallCancelled(c)
    BY <2>5 DEF CallCancelled, TypeOK, managerVars, confVars, pathVars, sourceVars
  <2> QED
    BY <1>11, <2>1, <2>2, <2>3, <2>4, <2>5 DEF ClientStep
<1>12. ASSUME Shutdown PROVE TypeOK'
  BY <1>12 DEF Shutdown, TypeOK, managerVars, confVars, pathVars, sourceVars, clientVars
<1>13. ASSUME UNCHANGED vars PROVE TypeOK'
  BY <1>13 DEF vars, TypeOK, managerVars, confVars, pathVars, sourceVars, clientVars
<1> QED
  BY <1>1, <1>2, <1>3, <1>4, <1>5, <1>6, <1>7, <1>8, <1>9, <1>10, <1>11, <1>12, <1>13
     DEF Next, ManagerStep, Finished

(* path_manager.go: every variable of the manager keeps its type.           *)
THEOREM TypeCorrect == Spec => []TypeOK
BY TypeInit, TypeStep, PTL DEF Spec


-----------------------------------------------------------------------------
(* The map.                                                                 *)

(* What does not concern the manager: paths go on, tear down, and take the  *)
(* configurations that are on their way.                                    *)
LEMMA PathsGoOn ==
  ASSUME TypeOK, TypeOK', MapInv,
         UNCHANGED <<managerVars, stopping, pathConfs, incoming, todo, paths, name,
                     confName, cancelled>>,
         \A i \in Instances :
           /\ loop'[i] \in Up => loop[i] \in Up
           /\ loop[i] \in Up => loop'[i] \in Up \/ Cancelled(i)
           /\ loop[i] = "done" => loop'[i] = "done"
           /\ conf'[i] \in {conf[i]} \cup late[i]
           /\ late'[i] \subseteq late[i]
  PROVE  MapInv'
<1>2. Listed'
  BY DEF MapInv, Listed, managerVars
<1>3. Named'
  BY DEF MapInv, Named
<1>4. EndedIsCancelled'
  BY DEF MapInv, EndedIsCancelled, Cancelled
<1>5. MapIsOpen'
  BY DEF MapInv, MapIsOpen
<1>6. CancelledIsSubject'
  BY DEF MapInv, CancelledIsSubject, managerVars
<1>7. DecidesOnListed' /\ ClosedLeavesGap'
  BY DEF MapInv, DecidesOnListed, ClosedLeavesGap, managerVars
<1>8. TodoIsListed'
  BY DEF MapInv, TodoIsListed, Reloading, managerVars
<1>9. EntriesAreCurrent'
  <2> SUFFICES ASSUME NEW n \in Names, paths[n] # Nobody
               PROVE  HasEntry(paths[n], ConfOf(n), n)'
    BY DEF EntriesAreCurrent
  <2>1. ConfOf(n)' = ConfOf(n)
    BY DEF ConfOf, Reloading, managerVars
  <2>2. HasEntry(paths[n], ConfOf(n), n) /\ paths[n] \in Instances
    BY DEF MapInv, EntriesAreCurrent, TypeOK
  <2> DEFINE C == ConfOf(n)
  <2>3. /\ conf'[paths[n]].kind = C[Key(C, n)].kind
        /\ \A c \in late'[paths[n]] : c.kind = C[Key(C, n)].kind
    BY <2>2 DEF HasEntry
  <2> QED
    BY <2>1, <2>2, <2>3 DEF HasEntry, Known, Key
<1> QED
  BY <1>2, <1>3, <1>4, <1>5, <1>6, <1>7, <1>8, <1>9 DEF MapInv

(* doClosePath, of a path of the map. *)
LEMMA PathIsClosed ==
  ASSUME TypeOK, TypeOK', MapInv, NEW i \in Instances, NEW n \in Names, NEW after,
         paths[n] = i, manager # "closing", ClosePath(i, after),
         UNCHANGED <<stopping, pathConfs, incoming, name, confName, conf, loop, late>>,
         Reloading' <=> Reloading, todo' \ {n} = todo \ {n},
         Reloading => n \notin todo'
  PROVE  MapInv'
<1>1. name[i] = n /\ ~cancelled[i]
  BY InstancesAssumption DEF MapInv, MapIsOpen, Nobody
<1>2. /\ manager' = "closing" /\ subject' = i
      /\ paths'[n] = Nobody /\ \A m \in Names \ {n} : paths'[m] = paths[m]
      /\ cancelled'[i] /\ \A j \in Instances \ {i} : cancelled'[j] = cancelled[j]
  BY <1>1 DEF ClosePath, TypeOK
<1>3. \A m \in Names \ {n} : paths[m] # i
  BY <1>1, InstancesAssumption DEF MapInv, MapIsOpen, Nobody
<1>4. Listed'
  <2> SUFFICES ASSUME NEW j \in Instances, loop[j] \in Up, j # i
               PROVE  paths'[name[j]] = j
    BY <1>2 DEF Listed
  <2>1. paths[name[j]] = j
    BY DEF MapInv, Listed
  <2>2. name[j] \in Names
    BY DEF MapInv, Named, Up
  <2> QED
    BY <1>2, <2>1, <2>2
<1>5. Named'
  BY DEF MapInv, Named
<1>6. EndedIsCancelled'
  BY <1>2 DEF MapInv, EndedIsCancelled, Cancelled, TypeOK
<1>7. MapIsOpen'
  BY <1>2, <1>3 DEF MapInv, MapIsOpen, TypeOK
<1>8. CancelledIsSubject'
  BY <1>2 DEF MapInv, CancelledIsSubject
<1>9. DecidesOnListed' /\ ClosedLeavesGap'
  BY <1>1, <1>2 DEF DecidesOnListed, ClosedLeavesGap
<1>10. TodoIsListed'
  <2> SUFFICES ASSUME Reloading, NEW m \in todo' PROVE paths'[m] # Nobody
    BY DEF TodoIsListed
  <2>1. m \in todo /\ m \in Names \ {n}
    BY DEF TypeOK
  <2> QED
    BY <1>2, <2>1 DEF MapInv, TodoIsListed
<1>11. EntriesAreCurrent'
  <2> SUFFICES ASSUME NEW m \in Names, paths'[m] # Nobody
               PROVE  HasEntry(paths[m], ConfOf(m), m)'
    BY DEF EntriesAreCurrent
  <2>1. m # n /\ paths'[m] = paths[m]
    BY <1>2
  <2>2. ConfOf(m)' = ConfOf(m)
    BY <2>1 DEF ConfOf
  <2>3. HasEntry(paths[m], ConfOf(m), m)
    BY <2>1 DEF MapInv, EntriesAreCurrent
  <2> QED
    BY <2>1, <2>2, <2>3 DEF HasEntry, Known, Key
<1> QED
  BY <1>4, <1>5, <1>6, <1>7, <1>8, <1>9, <1>10, <1>11 DEF MapInv

(* createPath, for a name that has no path. *)
LEMMA PathIsCreated ==
  ASSUME TypeOK, TypeOK', MapInv, NEW i \in Instances, NEW n \in Names,
         manager \in {"serving", "creating"}, Known(pathConfs, n), paths[n] = Nobody,
         CreatePath(i, n, pathConfs), UNCHANGED <<managerVars, stopping, confVars>>
  PROVE  MapInv'
<1>1. /\ loop[i] = "done" /\ \A m \in Names : paths[m] # i
      /\ paths'[n] = i /\ \A m \in Names \ {n} : paths'[m] = paths[m]
      /\ name'[i] = n /\ \A j \in Instances \ {i} : name'[j] = name[j]
      /\ ~cancelled'[i] /\ \A j \in Instances \ {i} : cancelled'[j] = cancelled[j]
      /\ loop'[i] = "select" /\ \A j \in Instances \ {i} : loop'[j] = loop[j]
  BY DEF CreatePath, Fresh, TypeOK
<1>2. Listed'
  <2> SUFFICES ASSUME NEW j \in Instances, loop'[j] \in Up, j # i
               PROVE  paths'[name'[j]] = j
    BY <1>1 DEF Listed, managerVars
  <2>1. paths[name[j]] = j /\ name[j] \in Names
    BY <1>1 DEF MapInv, Listed, Named, Up
  <2>2. name[j] # n
    BY <2>1, InstancesAssumption DEF Nobody
  <2> QED
    BY <1>1, <2>1, <2>2
<1>3. Named'
  BY <1>1 DEF MapInv, Named
<1>4. EndedIsCancelled'
  BY <1>1 DEF MapInv, EndedIsCancelled, Cancelled, Up
<1>5. MapIsOpen'
  <2> SUFFICES ASSUME NEW m \in Names, paths'[m] # Nobody, m # n
               PROVE  ~cancelled'[paths'[m]] /\ name'[paths'[m]] = m
    BY <1>1 DEF MapIsOpen
  <2>1. paths'[m] = paths[m] /\ paths[m] \in Instances \ {i}
    BY <1>1 DEF TypeOK
  <2> QED
    BY <1>1, <2>1 DEF MapInv, MapIsOpen
<1>6. CancelledIsSubject'
  BY <1>1 DEF MapInv, CancelledIsSubject, managerVars
<1>7. DecidesOnListed' /\ ClosedLeavesGap' /\ TodoIsListed'
  BY DEF DecidesOnListed, ClosedLeavesGap, TodoIsListed, Reloading, managerVars
<1>8. EntriesAreCurrent'
  <2> SUFFICES ASSUME NEW m \in Names, paths'[m] # Nobody
               PROVE  HasEntry(paths[m], ConfOf(m), m)'
    BY DEF EntriesAreCurrent
  <2>1. ConfOf(m) = pathConfs /\ ConfOf(m)' = pathConfs
    BY DEF ConfOf, Reloading, managerVars, confVars
  <2>2. CASE m = n
    <3> DEFINE c == FindPathConf(pathConfs, n)
    <3>1. c.key = Key(pathConfs, n) /\ c.kind = pathConfs[Key(pathConfs, n)].kind
      BY FindPathConfType DEF TypeOK
    <3>2. confName'[i] = c.key /\ conf'[i] = c /\ late'[i] = {}
      BY DEF CreatePath, TypeOK
    <3> QED
      BY <1>1, <2>1, <2>2, <3>1, <3>2 DEF HasEntry, Known, confVars
  <2>3. CASE m # n
    <3>1. paths'[m] = paths[m] /\ paths[m] \in Instances \ {i}
      BY <1>1, <2>3 DEF TypeOK
    <3>2. HasEntry(paths[m], pathConfs, m)
      BY <2>1, <3>1 DEF MapInv, EntriesAreCurrent
    <3>3. /\ confName'[paths[m]] = confName[paths[m]]
          /\ conf'[paths[m]] = conf[paths[m]] /\ late'[paths[m]] = late[paths[m]]
      BY <3>1 DEF CreatePath, TypeOK
    <3> QED
      BY <2>1, <3>1, <3>2, <3>3 DEF HasEntry, Known, confVars
  <2> QED
    BY <2>2, <2>3
<1> QED
  BY <1>2, <1>3, <1>4, <1>5, <1>6, <1>7, <1>8 DEF MapInv

(* The manager goes from one of these states to another. *)
LEMMA ManagerGoesOn ==
  ASSUME TypeOK, TypeOK', MapInv,
         manager \in {"serving", "creating", "deciding"},
         manager' \in {"serving", "creating", "gone"},
         UNCHANGED <<stopping, confVars, paths, pathVars>>
  PROVE  MapInv'
<1>1. \A i \in Instances : loop[i] \in Up => paths[name[i]] = i
  BY DEF MapInv, Listed
<1>2. ~stopping => \A i \in Instances : loop[i] # "done" => ~cancelled[i]
  BY DEF MapInv, CancelledIsSubject
<1>3. Listed' /\ Named' /\ EndedIsCancelled'
  BY <1>1 DEF MapInv, Listed, Named, EndedIsCancelled, Cancelled, pathVars
<1>4. MapIsOpen' /\ CancelledIsSubject'
  BY <1>2 DEF MapInv, MapIsOpen, CancelledIsSubject, pathVars
<1>5. DecidesOnListed' /\ ClosedLeavesGap' /\ TodoIsListed'
  BY DEF DecidesOnListed, ClosedLeavesGap, TodoIsListed, Reloading
<1>6. EntriesAreCurrent'
  BY DEF MapInv, EntriesAreCurrent, ConfOf, Reloading, HasEntry, Known, Key, confVars,
         pathVars
<1> QED
  BY <1>3, <1>4, <1>5, <1>6 DEF MapInv

(* pa.wait() returns. *)
LEMMA CloseIsOver ==
  ASSUME TypeOK, TypeOK', MapInv, CloseOver
  PROVE  MapInv'
<1>1. /\ manager = "closing" /\ subject \in Instances /\ loop[subject] = "done"
      /\ cancelled[subject] /\ name[subject] \in Names
      /\ manager' = resume /\ resume' = "serving"
  BY DEF CloseOver, MapInv, ClosedLeavesGap
<1>2. \A i \in Instances \ {subject} :
        name'[i] = name[i] /\ confName'[i] = confName[i] /\ conf'[i] = conf[i]
  BY DEF CloseOver, TypeOK
<1>3. UNCHANGED <<stopping, pathConfs, incoming, todo, paths, cancelled, loop, late>>
  BY DEF CloseOver, confVars
<1>4. \A m \in Names : paths[m] # Nobody => paths[m] \in Instances \ {subject}
  BY <1>1 DEF MapInv, MapIsOpen, TypeOK
<1>5. Reloading' <=> Reloading
  BY <1>1 DEF Reloading, TypeOK
<1>6. Listed' /\ Named'
  BY <1>1, <1>2, <1>3 DEF MapInv, Listed, Named, Up
<1>7. EndedIsCancelled'
  BY <1>3 DEF MapInv, EndedIsCancelled, Cancelled
<1>8. MapIsOpen'
  BY <1>2, <1>3, <1>4 DEF MapInv, MapIsOpen
<1>9. CancelledIsSubject'
  BY <1>1, <1>3 DEF MapInv, CancelledIsSubject
<1>10. DecidesOnListed' /\ ClosedLeavesGap'
  BY <1>1 DEF DecidesOnListed, ClosedLeavesGap, TypeOK
<1>11. TodoIsListed'
  BY <1>3, <1>5 DEF MapInv, TodoIsListed
<1>12. EntriesAreCurrent'
  <2> SUFFICES ASSUME NEW m \in Names, paths[m] # Nobody
               PROVE  HasEntry(paths[m], ConfOf(m), m)'
    BY <1>3 DEF EntriesAreCurrent
  <2>1. ConfOf(m)' = ConfOf(m)
    BY <1>3, <1>5 DEF ConfOf
  <2>2. HasEntry(paths[m], ConfOf(m), m)
    BY DEF MapInv, EntriesAreCurrent
  <2> QED
    BY <1>2, <1>3, <1>4, <2>1, <2>2 DEF HasEntry, Known, Key
<1> QED
  BY <1>6, <1>7, <1>8, <1>9, <1>10, <1>11, <1>12 DEF MapInv

(* doReloadConf tells a path, whose configuration can be hot reloaded. *)
LEMMA PathIsKept ==
  ASSUME TypeOK, TypeOK', MapInv, NEW n \in Names, VisitPath(n), UNCHANGED managerVars,
         UNCHANGED <<paths, cancelled>>,
         Known(incoming, n),
         CanBeUpdated([pathConfs[confName[paths[n]]] EXCEPT !.version = 0],
                      FindPathConf(incoming, n)),
         confName'[paths[n]] = Key(incoming, n),
         \A c \in late'[paths[n]] : c \in late[paths[n]] \/ c = FindPathConf(incoming, n),
         \A i \in Instances \ {paths[n]} : confName'[i] = confName[i] /\ late'[i] = late[i]
  PROVE  MapInv'
<1> DEFINE i == paths[n]
           new == FindPathConf(incoming, n)
<1>1. /\ manager = "visiting" /\ n \in todo /\ todo' = todo \ {n}
      /\ UNCHANGED <<stopping, pathConfs, incoming, name, conf, loop>>
  BY DEF VisitPath
<1>2. i \in Instances /\ name[i] = n
  BY <1>1 DEF MapInv, TodoIsListed, Reloading, MapIsOpen, TypeOK
<1>3. Listed' /\ Named' /\ EndedIsCancelled' /\ MapIsOpen' /\ CancelledIsSubject'
  BY <1>1 DEF MapInv, Listed, Named, EndedIsCancelled, Cancelled, MapIsOpen,
              CancelledIsSubject, managerVars
<1>4. DecidesOnListed' /\ ClosedLeavesGap'
  BY <1>1 DEF DecidesOnListed, ClosedLeavesGap, managerVars
<1>5. TodoIsListed'
  BY <1>1 DEF MapInv, TodoIsListed, Reloading, managerVars
<1>6. Reloading /\ Reloading'
  BY <1>1 DEF Reloading, managerVars
<1>7. HasEntry(i, pathConfs, n)
  BY <1>1, <1>2, <1>6 DEF MapInv, EntriesAreCurrent, ConfOf, TodoIsListed
<1>8. conf[i].kind = new.kind /\ \A c \in late[i] : c.kind = new.kind
  <2>1. pathConfs[confName[i]] \in PathConfs
    BY <1>7, ConfigsAssumption DEF HasEntry, Known, TypeOK
  <2>2. pathConfs[confName[i]].kind = new.kind
    BY <2>1 DEF CanBeUpdated, PathConfs
  <2> QED
    BY <1>7, <2>2 DEF HasEntry
<1>9. EntriesAreCurrent'
  <2> SUFFICES ASSUME NEW m \in Names, paths[m] # Nobody
               PROVE  HasEntry(paths[m], ConfOf(m), m)'
    BY DEF EntriesAreCurrent
  <2>1. CASE m = n
    <3>1. ConfOf(m)' = incoming
      BY <1>1, <1>6, <2>1 DEF ConfOf
    <3>2. new.kind = incoming[Key(incoming, n)].kind
      BY DEF FindPathConf
    <3> QED
      BY <1>1, <1>8, <2>1, <3>1, <3>2 DEF HasEntry
  <2>2. CASE m # n
    <3>1. paths[m] \in Instances \ {i}
      BY <1>2, <2>2 DEF MapInv, MapIsOpen, TypeOK
    <3>2. ConfOf(m)' = ConfOf(m)
      BY <1>1, <1>6, <2>2 DEF ConfOf
    <3>3. HasEntry(paths[m], ConfOf(m), m)
      BY DEF MapInv, EntriesAreCurrent
    <3> QED
      BY <1>1, <3>1, <3>2, <3>3 DEF HasEntry, Known, Key
  <2> QED
    BY <2>1, <2>2
<1> QED
  BY <1>3, <1>4, <1>5, <1>9 DEF MapInv

(* A reload begins: the paths of the map are to be visited. *)
LEMMA ReloadBegins ==
  ASSUME TypeOK, TypeOK', MapInv, NEW C \in Configs, ReceiveReload(C)
  PROVE  MapInv'
<1>1. /\ manager = "serving" /\ manager' = "visiting"
      /\ todo' = {n \in Names : paths[n] # Nobody}
      /\ UNCHANGED <<stopping, pathConfs, paths, name, confName, conf, cancelled, loop, late>>
  BY DEF ReceiveReload, pathVars
<1>2. Listed' /\ Named' /\ EndedIsCancelled' /\ MapIsOpen' /\ CancelledIsSubject'
  BY <1>1 DEF MapInv, Listed, Named, EndedIsCancelled, Cancelled, MapIsOpen,
              CancelledIsSubject
<1>3. DecidesOnListed' /\ ClosedLeavesGap' /\ TodoIsListed'
  BY <1>1 DEF DecidesOnListed, ClosedLeavesGap, TodoIsListed
<1>4. EntriesAreCurrent'
  <2> SUFFICES ASSUME NEW n \in Names, paths[n] # Nobody
               PROVE  HasEntry(paths[n], ConfOf(n), n)'
    BY <1>1 DEF EntriesAreCurrent
  <2>1. ConfOf(n) = pathConfs /\ ConfOf(n)' = pathConfs
    BY <1>1 DEF ConfOf, Reloading
  <2>2. HasEntry(paths[n], pathConfs, n)
    BY <2>1 DEF MapInv, EntriesAreCurrent
  <2> QED
    BY <1>1, <2>1, <2>2 DEF HasEntry
<1> QED
  BY <1>2, <1>3, <1>4 DEF MapInv

(* All have been visited: the new configuration is that of all of them. *)
LEMMA ReloadIsCommitted ==
  ASSUME TypeOK, TypeOK', MapInv, CommitReload
  PROVE  MapInv'
<1>1. /\ manager = "visiting" /\ manager' = "creating" /\ todo = {}
      /\ pathConfs' = incoming
      /\ UNCHANGED <<stopping, paths, name, confName, conf, cancelled, loop, late>>
  BY DEF CommitReload, pathVars
<1>2. Listed' /\ Named' /\ EndedIsCancelled' /\ MapIsOpen' /\ CancelledIsSubject'
  BY <1>1 DEF MapInv, Listed, Named, EndedIsCancelled, Cancelled, MapIsOpen,
              CancelledIsSubject
<1>3. DecidesOnListed' /\ ClosedLeavesGap' /\ TodoIsListed'
  BY <1>1 DEF DecidesOnListed, ClosedLeavesGap, TodoIsListed, Reloading
<1>4. EntriesAreCurrent'
  <2> SUFFICES ASSUME NEW n \in Names, paths[n] # Nobody
               PROVE  HasEntry(paths[n], ConfOf(n), n)'
    BY <1>1 DEF EntriesAreCurrent
  <2>1. ConfOf(n) = incoming /\ ConfOf(n)' = incoming
    BY <1>1 DEF ConfOf, Reloading
  <2>2. HasEntry(paths[n], incoming, n)
    BY <2>1 DEF MapInv, EntriesAreCurrent
  <2> QED
    BY <1>1, <2>1, <2>2 DEF HasEntry
<1> QED
  BY <1>2, <1>3, <1>4 DEF MapInv

(* The manager takes the question of a path that nobody uses. *)
LEMMA QuestionIsTaken ==
  ASSUME TypeOK, TypeOK', MapInv, NEW i \in Instances, CloseIfIdleReceived(i)
  PROVE  MapInv'
<1>1. /\ manager = "serving" /\ manager' = "deciding" /\ subject' = i
      /\ loop[i] = "asking" /\ loop'[i] = "select"
      /\ \A j \in Instances \ {i} : loop'[j] = loop[j]
      /\ UNCHANGED <<stopping, pathConfs, incoming, todo, paths, name, confName, conf,
                     cancelled, late>>
  BY DEF CloseIfIdleReceived, confVars, TypeOK
<1>2. Listed' /\ Named' /\ EndedIsCancelled'
  BY <1>1 DEF MapInv, Listed, Named, EndedIsCancelled, Cancelled, Up
<1>3. MapIsOpen' /\ CancelledIsSubject'
  BY <1>1 DEF MapInv, MapIsOpen, CancelledIsSubject
<1>4. DecidesOnListed'
  BY <1>1 DEF MapInv, Listed, Named, DecidesOnListed, Up
<1>5. ClosedLeavesGap' /\ TodoIsListed'
  BY <1>1 DEF ClosedLeavesGap, TodoIsListed, Reloading
<1>6. EntriesAreCurrent'
  BY <1>1 DEF MapInv, EntriesAreCurrent, ConfOf, Reloading, HasEntry, Known, Key
<1> QED
  BY <1>2, <1>3, <1>4, <1>5, <1>6 DEF MapInv

(* close() *)
LEMMA ShutdownBegins ==
  ASSUME TypeOK, TypeOK', MapInv, Shutdown
  PROVE  MapInv'
<1>1. /\ stopping'
      /\ UNCHANGED <<manager, subject, resume, pathConfs, incoming, todo, paths, name,
                     confName, conf, cancelled, loop, late>>
  BY DEF Shutdown, managerVars, confVars, pathVars
<1>2. Listed' /\ Named' /\ EndedIsCancelled' /\ MapIsOpen' /\ CancelledIsSubject'
  BY <1>1 DEF MapInv, Listed, Named, EndedIsCancelled, Cancelled, MapIsOpen,
              CancelledIsSubject
<1>3. DecidesOnListed' /\ ClosedLeavesGap' /\ TodoIsListed'
  BY <1>1 DEF MapInv, DecidesOnListed, ClosedLeavesGap, TodoIsListed, Reloading
<1>4. EntriesAreCurrent'
  BY <1>1 DEF MapInv, EntriesAreCurrent, ConfOf, Reloading, HasEntry, Known, Key
<1> QED
  BY <1>2, <1>3, <1>4 DEF MapInv

(* runInner returns, and the path reaches the manager: then the manager is  *)
(* being closed.                                                            *)
LEMMA PathIsRemoved ==
  ASSUME TypeOK, TypeOK', MapInv, NEW i \in Instances, RunInnerEnds(i),
         manager = "serving", paths' = [paths EXCEPT ![name[i]] = Nobody]
  PROVE  MapInv'
<1>1. /\ loop[i] = "select" /\ loop'[i] = "ending" /\ name[i] \in Names
      /\ \A j \in Instances \ {i} : loop'[j] = loop[j]
      /\ paths'[name[i]] = Nobody
      /\ \A m \in Names \ {name[i]} : paths'[m] = paths[m]
      /\ UNCHANGED <<manager, subject, resume, stopping, pathConfs, incoming, todo, name,
                     confName, conf, cancelled, late>>
  BY DEF RunInnerEnds, MapInv, Named, managerVars, confVars, TypeOK
<1>2. stopping
  BY <1>1 DEF RunInnerEnds, Cancelled, MapInv, CancelledIsSubject
<1>3. paths[name[i]] = i
  BY <1>1 DEF MapInv, Listed, Up
<1>4. Listed'
  <2> SUFFICES ASSUME NEW j \in Instances, loop'[j] \in Up, j # i
               PROVE  paths'[name[j]] = j
    BY <1>1 DEF Listed, Up
  <2>1. paths[name[j]] = j /\ name[j] \in Names
    BY <1>1 DEF MapInv, Listed, Named, Up
  <2> QED
    BY <1>1, <1>3, <2>1
<1>5. Named' /\ EndedIsCancelled' /\ CancelledIsSubject'
  BY <1>1, <1>2 DEF MapInv, Named, EndedIsCancelled, Cancelled, CancelledIsSubject
<1>6. MapIsOpen'
  BY <1>1 DEF MapInv, MapIsOpen
<1>7. DecidesOnListed' /\ ClosedLeavesGap' /\ TodoIsListed'
  BY <1>1 DEF DecidesOnListed, ClosedLeavesGap, TodoIsListed, Reloading
<1>8. EntriesAreCurrent'
  <2> SUFFICES ASSUME NEW n \in Names, paths'[n] # Nobody
               PROVE  HasEntry(paths[n], ConfOf(n), n)'
    BY DEF EntriesAreCurrent
  <2>1. paths'[n] = paths[n] /\ ConfOf(n)' = ConfOf(n)
    BY <1>1 DEF ConfOf, Reloading
  <2>2. HasEntry(paths[n], ConfOf(n), n)
    BY <2>1 DEF MapInv, EntriesAreCurrent
  <2> QED
    BY <1>1, <2>1, <2>2 DEF HasEntry, Known, Key
<1> QED
  BY <1>4, <1>5, <1>6, <1>7, <1>8 DEF MapInv

LEMMA MapInit == Init => MapInv
<1> SUFFICES ASSUME Init PROVE MapInv
  OBVIOUS
<1>1. TypeOK
  BY TypeInit
<1>2. \A i \in Instances : loop[i] # "done" =>
        /\ name[i] \in Names /\ paths[name[i]] = i /\ loop[i] = "select" /\ ~cancelled[i]
  BY <1>1 DEF Init, TypeOK, Nobody
<1>3. \A n \in Names : paths[n] # Nobody =>
        /\ paths[n] \in Instances /\ name[paths[n]] = n /\ loop[paths[n]] = "select"
        /\ ~cancelled[paths[n]]
  <2> SUFFICES ASSUME NEW n \in Names, paths[n] # Nobody
               PROVE  name[paths[n]] = n /\ paths[n] \in Instances
    BY <1>1, InstancesAssumption DEF Init, TypeOK, Nobody
  <2>1. paths[n] \in Instances
    BY <1>1 DEF TypeOK
  <2>2. name[paths[n]] # Nobody /\ paths[name[paths[n]]] = paths[n]
    BY <2>1 DEF Init
  <2>3. name[paths[n]] \in Names
    BY <1>1, <2>1, <2>2 DEF TypeOK
  <2> QED
    BY <2>1, <2>2, <2>3 DEF Init
<1>4. Listed /\ Named
  BY <1>2 DEF Listed, Named, Up
<1>5. EndedIsCancelled
  BY <1>2 DEF EndedIsCancelled, Cancelled, Up, Init
<1>6. MapIsOpen /\ CancelledIsSubject
  BY <1>2, <1>3 DEF MapIsOpen, CancelledIsSubject
<1>7. DecidesOnListed /\ ClosedLeavesGap /\ TodoIsListed
  BY DEF Init, DecidesOnListed, ClosedLeavesGap, TodoIsListed, Reloading
<1>8. EntriesAreCurrent
  <2> SUFFICES ASSUME NEW n \in Names, paths[n] # Nobody
               PROVE  HasEntry(paths[n], pathConfs, n)
    BY DEF EntriesAreCurrent, ConfOf, Reloading, Init
  <2> DEFINE i == paths[n]
  <2>1. i \in Instances /\ name[i] = n /\ n # Nobody
    BY <1>3, InstancesAssumption DEF Nobody
  <2>2. n \in DOMAIN pathConfs
    BY DEF Init
  <2>3. confName[i] = n /\ conf[i] = FindPathConf(pathConfs, n) /\ late[i] = {}
    BY <2>1 DEF Init
  <2> QED
    BY <2>2, <2>3 DEF HasEntry, Known, Key, FindPathConf
<1> QED
  BY <1>4, <1>5, <1>6, <1>7, <1>8 DEF MapInv

(* The end of an event leaves every path where it is, or in its loop. *)
LEMMA EventEndsInLoop ==
  ASSUME TypeOK, NEW i, loop[i] \in Up, NEW tells, EventEnds(i, tells)
  PROVE  \A j \in Instances :
           loop'[j] = loop[j] \/ (loop[j] \in Up /\ loop'[j] \in Up)
<1> DEFINE next == IF tells THEN "telling"
                   ELSE IF conf[i].key = Pattern /\ Users(i)' = {} THEN "asking"
                   ELSE "select"
<1>1. loop' = [loop EXCEPT ![i] = next]
  BY DEF EventEnds
<1>2. next \in Up
  BY DEF Up
<1> HIDE DEF next
<1> QED
  BY <1>1, <1>2 DEF TypeOK, Up

(* Every step keeps what is known of the map. *)
LEMMA MapStep ==
  ASSUME TypeOK, MapInv, [Next]_vars
  PROVE  MapInv'
<1> TypeOK'
  BY TypeStep
<1> DEFINE Apart == UNCHANGED <<managerVars, stopping, pathConfs, incoming, todo, paths,
                                name, confName, conf, cancelled, late>>
<1>0. ASSUME Apart, UNCHANGED loop PROVE MapInv'
  BY <1>0, PathsGoOn
<1>1. ASSUME Apart, NEW i, NEW tells, loop[i] \in Up, EventEnds(i, tells)
      PROVE  MapInv'
  <2>1. \A j \in Instances :
          loop'[j] = loop[j] \/ (loop[j] \in Up /\ loop'[j] \in Up)
    BY <1>1, EventEndsInLoop
  <2> QED
    BY <1>1, <2>1, PathsGoOn DEF Up
<1>2. ASSUME NEW i \in Instances, NEW n \in Names, manager \in {"serving", "creating"},
             Known(pathConfs, n), paths[n] = Nobody, CreatePath(i, n, pathConfs),
             UNCHANGED <<managerVars, stopping, confVars>>
      PROVE  MapInv'
  BY <1>2, PathIsCreated
<1>3. ASSUME NEW C \in Configs, ReceiveReload(C) PROVE MapInv'
  BY <1>3, ReloadBegins
<1>4. ASSUME NEW n \in Names, VisitPath(n) PROVE MapInv'
  <2> DEFINE i == paths[n]
             new == FindPathConf(incoming, n)
             hot == /\ Known(incoming, n)
                    /\ CanBeUpdated([pathConfs[confName[i]] EXCEPT !.version = 0], new)
             changed == \/ new.key # confName[i]
                        \/ pathConfs[confName[i]] # incoming[new.key]
  <2>1. /\ manager = "visiting" /\ Reloading /\ n \in todo /\ todo' = todo \ {n}
        /\ i \in Instances
        /\ UNCHANGED <<stopping, pathConfs, incoming, name, conf, loop>>
    BY <1>4 DEF VisitPath, Reloading, MapInv, TodoIsListed, TypeOK
  <2>2. CASE ClosePath(i, "visiting") /\ UNCHANGED <<confName, late>>
    <3>1. Reloading'
      BY <2>2 DEF ClosePath, Reloading
    <3> QED
      BY <2>1, <2>2, <3>1, PathIsClosed
  <2>3. CASE hot /\ changed /\ KeepPath(i, new) /\ UNCHANGED <<managerVars, paths, cancelled>>
    <3>1. /\ confName'[i] = Key(incoming, n)
          /\ \A c \in late'[i] : c \in late[i] \/ c = new
          /\ \A j \in Instances \ {i} : confName'[j] = confName[j] /\ late'[j] = late[j]
      BY <2>1, <2>3 DEF KeepPath, FindPathConf, TypeOK
    <3> QED
      BY <1>4, <2>3, <3>1, PathIsKept
  <2>4. CASE hot /\ ~changed /\ UNCHANGED <<managerVars, paths, confName, cancelled, late>>
    <3>1. confName'[i] = Key(incoming, n)
      BY <2>4 DEF FindPathConf
    <3> QED
      BY <1>4, <2>4, <3>1, PathIsKept
  <2> QED
    BY <1>4, <2>2, <2>3, <2>4 DEF VisitPath
<1>5. CASE CommitReload
  BY <1>5, ReloadIsCommitted
<1>6. ASSUME NEW n \in Names, CreateStaticPath(n) PROVE MapInv'
  <2>1. Known(pathConfs, n) /\ paths[n] = Nobody
    BY <1>6 DEF CreateStaticPath, Missing, Known, Key
  <2> QED
    BY <1>2, <1>6, <2>1 DEF CreateStaticPath
<1>7. CASE ReloadOver
  BY <1>7, ManagerGoesOn DEF ReloadOver
<1>8. CASE CloseOver
  BY <1>8, CloseIsOver
<1>9. CASE DecideCloseIfIdle
  <2>1. CASE ClosePath(subject, "serving")
    <3>1. /\ manager = "deciding" /\ subject \in Instances /\ name[subject] \in Names
          /\ paths[name[subject]] = subject
      BY <1>9 DEF DecideCloseIfIdle, MapInv, DecidesOnListed
    <3>2. ~Reloading /\ ~Reloading'
      BY <2>1, <3>1 DEF ClosePath, Reloading
    <3> QED
      BY <1>9, <2>1, <3>1, <3>2, PathIsClosed DEF DecideCloseIfIdle, confVars
  <2>2. CASE manager' = "serving" /\ UNCHANGED <<paths, cancelled>>
    BY <1>9, <2>2, ManagerGoesOn DEF DecideCloseIfIdle, pathVars
  <2> QED
    BY <1>9, <2>1, <2>2 DEF DecideCloseIfIdle
<1>10. CASE ManagerEnds
  BY <1>10, ManagerGoesOn DEF ManagerEnds
<1>11. ASSUME NEW i \in Instances, PathStep(i) PROVE MapInv'
  <2>1. CASE Told(i)
    <3>1. Apart /\ loop[i] \in Up /\ EventEnds(i, FALSE)
      BY <2>1 DEF Told, confVars, Up
    <3> QED
      BY <3>1, <1>1
  <2>2. CASE CloseIfIdleReceived(i)
    BY <2>2, QuestionIsTaken
  <2>3. CASE CloseIfIdleAbandoned(i)
    BY <2>3, PathsGoOn DEF CloseIfIdleAbandoned, confVars, Up, TypeOK
  <2>4. ASSUME NEW c \in late[i], ReceiveConf(i, c) PROVE MapInv'
    BY <2>4, PathsGoOn DEF ReceiveConf, confVars, TypeOK
  <2>5. CASE SourceChanges(i)
    <3>1. Apart /\ loop[i] \in Up /\ EventEnds(i, TRUE)
      BY <2>5 DEF SourceChanges, confVars, Up
    <3> QED
      BY <3>1, <1>1
  <2>6. CASE RunInnerEnds(i) /\ UNCHANGED paths
    BY <2>6, PathsGoOn DEF RunInnerEnds, confVars, Up, TypeOK
  <2>7. CASE RunInnerEnds(i) /\ manager = "serving" /\ paths' = [paths EXCEPT ![name[i]] = Nobody]
    BY <2>7, PathIsRemoved
  <2>8. CASE Destroyed(i)
    BY <2>8, PathsGoOn DEF Destroyed, confVars, Up, TypeOK
  <2> QED
    BY <1>11, <2>1, <2>2, <2>3, <2>4, <2>5, <2>6, <2>7, <2>8 DEF PathStep, RunInnerEnds
<1>12. ASSUME NEW i \in Instances, SecondaryStep(i) PROVE MapInv'
  <2>1. CASE SecondaryStarts(i) \/ SecondaryPauses(i) \/ SecondaryLeaves(i)
    BY <1>0, <2>1
       DEF SecondaryStarts, SecondaryPauses, SecondaryLeaves, confVars, pathVars
  <2>2. CASE SecondaryCalls(i)
    <3>1. CASE UNCHANGED <<paths, pathVars>>
      BY <1>0, <2>2, <3>1 DEF SecondaryCalls, confVars, pathVars
    <3>2. CASE /\ manager = "serving" /\ Known(pathConfs, PrimaryName)
               /\ paths[PrimaryName] = Nobody
               /\ \E j \in Fresh : CreatePath(j, PrimaryName, pathConfs)
      BY <1>2, <2>2, <3>2, PrimaryAssumption DEF SecondaryCalls, Fresh
    <3> QED
      BY <2>2, <3>1, <3>2 DEF SecondaryCalls
  <2>3. CASE SecondaryServed(i)
    <3>1. Apart
      BY <2>3 DEF SecondaryServed, confVars
    <3>2. PICK j \in Instances :
            UNCHANGED loop \/ (loop[j] \in Up /\ EventEnds(j, FALSE))
      BY <2>3 DEF SecondaryServed, Up
    <3>3. CASE UNCHANGED loop
      BY <3>1, <3>3, <1>0
    <3>4. CASE loop[j] \in Up /\ EventEnds(j, FALSE)
      BY <3>1, <3>4, <1>1
    <3> QED
      BY <3>2, <3>3, <3>4
  <2>4. CASE SecondaryRemoved(i)
    <3>1. Apart
      BY <2>4 DEF SecondaryRemoved, confVars
    <3>2. PICK j \in Instances :
            UNCHANGED loop \/ (loop[j] \in Up /\ EventEnds(j, FALSE))
      BY <2>4 DEF SecondaryRemoved, Up
    <3>3. CASE UNCHANGED loop
      BY <3>1, <3>3, <1>0
    <3>4. CASE loop[j] \in Up /\ EventEnds(j, FALSE)
      BY <3>1, <3>4, <1>1
    <3> QED
      BY <3>2, <3>3, <3>4
  <2> QED
    BY <1>12, <2>1, <2>2, <2>3, <2>4 DEF SecondaryStep
<1>13. ASSUME NEW c \in Clients, ClientStep(c) PROVE MapInv'
  <2>1. ASSUME NEW n \in Names, GetPath(c, n) PROVE MapInv'
    <3>1. CASE UNCHANGED <<paths, pathVars>>
      BY <1>0, <2>1, <3>1 DEF GetPath, confVars, pathVars
    <3>2. CASE paths[n] = Nobody /\ \E i \in Fresh : CreatePath(i, n, pathConfs)
      BY <1>2, <2>1, <3>2 DEF GetPath, Fresh
    <3> QED
      BY <2>1, <3>1, <3>2 DEF GetPath
  <2>2. CASE Served(c)
    <3>1. Apart
      BY <2>2 DEF Served, confVars
    <3>2. PICK i \in Instances, tells \in BOOLEAN : loop[i] \in Up /\ EventEnds(i, tells)
      BY <2>2 DEF Served, Up
    <3> QED
      BY <3>1, <3>2, <1>1
  <2>3. CASE Leaves(c) \/ CallCancelled(c)
    BY <1>0, <2>3 DEF Leaves, CallCancelled, confVars, pathVars
  <2>4. CASE Removed(c)
    <3>1. Apart
      BY <2>4 DEF Removed, confVars
    <3>2. PICK i \in Instances, tells \in BOOLEAN : loop[i] \in Up /\ EventEnds(i, tells)
      BY <2>4 DEF Removed, Up
    <3> QED
      BY <3>1, <3>2, <1>1
  <2> QED
    BY <1>13, <2>1, <2>2, <2>3, <2>4 DEF ClientStep
<1>14. CASE Shutdown
  BY <1>14, ShutdownBegins
<1>15. CASE UNCHANGED vars
  BY <1>0, <1>15 DEF vars, confVars, pathVars
<1> QED
  BY <1>3, <1>4, <1>5, <1>6, <1>7, <1>8, <1>9, <1>10, <1>11, <1>12, <1>13, <1>14, <1>15
     DEF Next, ManagerStep, Finished

(* What is known of the map tells that the manager knows its paths. *)
LEMMA MapSuffices == TypeOK /\ MapInv => MapAgrees
<1> SUFFICES ASSUME TypeOK, MapInv PROVE MapAgrees
  OBVIOUS
<1>1. \A i \in Instances :
        ~stopping /\ Live(i) /\ ~(manager = "closing" /\ subject = i) =>
          name[i] \in Names /\ paths[name[i]] = i
  BY DEF MapInv, Named, Listed, EndedIsCancelled, Cancelled, CancelledIsSubject, Live
<1>2. manager = "closing" => paths[name[subject]] = Nobody /\ cancelled[subject]
  BY DEF MapInv, ClosedLeavesGap
<1>3. OneLivePath
  BY <1>1, <1>2, InstancesAssumption DEF OneLivePath, Nobody
<1>4. MapIsAccurate
  <2>1. \A i \in Instances : ~cancelled[i] /\ ~stopping => Live(i)
    BY DEF MapInv, EndedIsCancelled, Cancelled, Live, Up
  <2> QED
    BY <1>1, <1>2, <2>1 DEF MapIsAccurate, MapInv, MapIsOpen
<1>5. ConfNameIsCurrent
  BY DEF ConfNameIsCurrent, MapInv, EntriesAreCurrent, HasEntry, ConfOf
<1>6. SourceIsCurrent
  BY DEF SourceIsCurrent, MapInv, EntriesAreCurrent, HasEntry, ConfOf, Reloading,
         FindPathConf
<1> QED
  BY <1>3, <1>4, <1>5, <1>6 DEF MapAgrees

(* path_manager.go: a name never has two paths at a time, the map holds     *)
(* the paths that are open, and the manager knows the entry, and so the     *)
(* kind of source, of each of them.                                         *)
THEOREM MapCorrect == Spec => []MapAgrees
<1>1. Init => TypeOK /\ MapInv
  BY TypeInit, MapInit
<1>2. TypeOK /\ MapInv /\ [Next]_vars => (TypeOK /\ MapInv)'
  BY TypeStep, MapStep
<1> QED
  BY <1>1, <1>2, MapSuffices, PTL DEF Spec

-----------------------------------------------------------------------------
(* The registry.                                                            *)

LEMMA ClientsInit == Init => ClientsHold
BY DEF Init, ClientsHold

(* Every step keeps a client that holds a path and one that does not apart. *)
LEMMA ClientsStep ==
  ASSUME TypeOK, ClientsHold, [Next]_vars
  PROVE  ClientsHold'
<1>1. CASE UNCHANGED clientVars
  BY <1>1 DEF ClientsHold, clientVars
<1>2. ASSUME NEW c \in Clients, ClientStep(c) PROVE ClientsHold'
  <2>1. ASSUME NEW n \in Names, GetPath(c, n) PROVE ClientsHold'
    <3>1. PICK i \in Instances : given' = [given EXCEPT ![c] = i]
      BY <2>1 DEF GetPath, Fresh, TypeOK
    <3> QED
      BY <2>1, <3>1, InstancesAssumption DEF GetPath, ClientsHold, TypeOK, Nobody
  <2>2. CASE Served(c)
    BY <2>2 DEF Served, ClientsHold, TypeOK
  <2>3. CASE Leaves(c) \/ Removed(c) \/ CallCancelled(c)
    BY <2>3 DEF Leaves, Removed, CallCancelled, ClientsHold, TypeOK
  <2> QED
    BY <1>2, <2>1, <2>2, <2>3 DEF ClientStep
<1>3. CASE ManagerStep
  BY <1>1, <1>3 DEF ManagerStep, ReceiveReload, VisitPath, CommitReload, CreateStaticPath,
                    ReloadOver, CloseOver, DecideCloseIfIdle, ManagerEnds
<1>4. ASSUME NEW i \in Instances, PathStep(i) PROVE ClientsHold'
  BY <1>1, <1>4 DEF PathStep, Told, CloseIfIdleReceived, CloseIfIdleAbandoned, ReceiveConf,
                    SourceChanges, RunInnerEnds, Destroyed
<1>5. ASSUME NEW i \in Instances, SecondaryStep(i) PROVE ClientsHold'
  BY <1>1, <1>5 DEF SecondaryStep, SecondaryStarts, SecondaryCalls, SecondaryServed,
                    SecondaryPauses, SecondaryLeaves, SecondaryRemoved
<1> QED
  BY <1>1, <1>2, <1>3, <1>4, <1>5 DEF Next, Shutdown, Finished, vars

(* The name of each path that has not ended, as the registry sees it. *)
Living == [i \in Instances |-> IF Live(i) THEN name[i] ELSE Nobody]

(* The registry stays as it is. *)
LEMMA Stutters ==
  ASSUME UNCHANGED <<stopping, paths, given>>,
         \A i \in Instances : /\ Live(i)' <=> Live(i)
                              /\ Live(i) => name'[i] = name[i]
  PROVE  UNCHANGED R!vars
<1>1. Living' = Living
  BY DEF Living
<1> QED
  BY <1>1 DEF R!vars, Living

(* A path that is closed leaves the registry. *)
LEMMA Withdraws ==
  ASSUME TypeOK, UNCHANGED <<stopping, name, given>>, NEW n \in Names, paths[n] # Nobody,
         paths' = [paths EXCEPT ![n] = Nobody],
         \A i \in Instances : Live(i)' <=> Live(i)
  PROVE  R!Next
<1>1. Living' = Living
  BY DEF Living
<1>2. R!Withdraw(n)
  BY <1>1 DEF R!Withdraw, Living
<1> QED
  BY <1>2 DEF R!Next

(* A path that is made enters it. *)
LEMMA Registers ==
  ASSUME TypeOK, MapInv, NEW i \in Instances, NEW n \in Names,
         manager \in {"serving", "creating"}, paths[n] = Nobody,
         CreatePath(i, n, pathConfs), UNCHANGED stopping
  PROVE  R!Register(n, i)
<1>1. /\ loop[i] = "done" /\ loop'[i] = "select" /\ name'[i] = n
      /\ \A j \in Instances \ {i} : loop'[j] = loop[j] /\ name'[j] = name[j]
      /\ paths' = [paths EXCEPT ![n] = i]
  BY DEF CreatePath, Fresh, TypeOK
<1>2. Living' = [Living EXCEPT ![i] = n] /\ Living[i] = Nobody
  BY <1>1 DEF Living, Live
<1>3. ~stopping => \A j \in Instances : Living[j] # n
  <2> SUFFICES ASSUME ~stopping, NEW j \in Instances, Living[j] = n PROVE FALSE
    OBVIOUS
  <2>1. Live(j) /\ name[j] = n
    BY InstancesAssumption DEF Living, Nobody
  <2>2. loop[j] \in Up
    BY <2>1 DEF MapInv, EndedIsCancelled, CancelledIsSubject, Cancelled, Live
  <2>3. paths[n] = j
    BY <2>1, <2>2 DEF MapInv, Listed
  <2> QED
    BY <2>3, InstancesAssumption DEF Nobody
<1> QED
  BY <1>1, <1>2, <1>3 DEF R!Register, Living

(* Every step of the manager is one of the registry, or none. *)
LEMMA RegistryStep ==
  ASSUME TypeOK, MapInv, ClientsHold, [Next]_vars
  PROVE  [R!Next]_R!vars
<1> TypeOK'
  BY TypeStep
<1> DEFINE Still == UNCHANGED <<stopping, paths, name>>
<1>1. ASSUME Still, UNCHANGED <<loop, given>> PROVE UNCHANGED R!vars
  BY <1>1, Stutters DEF Live
<1>2. ASSUME Still, UNCHANGED given, NEW i, NEW tells, loop[i] \in Up, EventEnds(i, tells)
      PROVE  UNCHANGED R!vars
  <2>1. \A j \in Instances : Live(j)' <=> Live(j)
    BY <1>2, EventEndsInLoop DEF Live, Up
  <2> QED
    BY <1>2, <2>1, Stutters
<1>3. ASSUME NEW c \in Clients, Still, given[c] # Nobody,
             given' = [given EXCEPT ![c] = Nobody],
             \A j \in Instances : Live(j)' <=> Live(j)
      PROVE  R!Next
  <2>1. Living' = Living
    BY <1>3 DEF Living
  <2>2. R!Return(c)
    BY <1>3, <2>1 DEF R!Return, Living
  <2> QED
    BY <2>2 DEF R!Next
<1>4. ASSUME NEW i \in Instances, NEW n \in Names, manager \in {"serving", "creating"},
             paths[n] = Nobody, CreatePath(i, n, pathConfs), UNCHANGED <<stopping, given>>
      PROVE  R!Next
  BY <1>4, Registers DEF R!Next
<1>5. ASSUME NEW n \in Names, VisitPath(n) PROVE [R!Next]_R!vars
  <2>1. UNCHANGED <<stopping, name, loop, given>>
    BY <1>5 DEF VisitPath, clientVars
  <2>2. CASE UNCHANGED paths
    BY <1>1, <2>1, <2>2
  <2>3. CASE ClosePath(paths[n], "visiting")
    <3>1. paths[n] # Nobody /\ name[paths[n]] = n
      BY <1>5 DEF VisitPath, Reloading, MapInv, TodoIsListed, MapIsOpen
    <3>2. paths' = [paths EXCEPT ![n] = Nobody]
      BY <2>3, <3>1 DEF ClosePath
    <3> QED
      BY <2>1, <3>1, <3>2, Withdraws DEF Live
  <2> QED
    BY <1>5, <2>2, <2>3 DEF VisitPath
<1>6. ASSUME NEW n \in Names, CreateStaticPath(n) PROVE [R!Next]_R!vars
  <2>1. manager = "creating" /\ paths[n] = Nobody /\ UNCHANGED <<stopping, given>>
    BY <1>6 DEF CreateStaticPath, Missing, clientVars
  <2>2. PICK i \in Instances : CreatePath(i, n, pathConfs)
    BY <1>6 DEF CreateStaticPath
  <2> QED
    BY <1>4, <2>1, <2>2
<1>7. CASE CloseOver
  <2>1. /\ UNCHANGED <<stopping, paths, given, loop>> /\ loop[subject] = "done"
        /\ \A i \in Instances \ {subject} : name'[i] = name[i]
    BY <1>7 DEF CloseOver, clientVars, TypeOK
  <2> QED
    BY <2>1, Stutters DEF Live
<1>8. CASE DecideCloseIfIdle
  <2>1. UNCHANGED <<stopping, name, loop, given>>
    BY <1>8 DEF DecideCloseIfIdle, clientVars
  <2>2. CASE UNCHANGED paths
    BY <1>1, <2>1, <2>2
  <2>3. CASE ClosePath(subject, "serving")
    <3>1. /\ subject \in Instances /\ name[subject] \in Names
          /\ paths[name[subject]] = subject
      BY <1>8 DEF DecideCloseIfIdle, MapInv, DecidesOnListed
    <3>2. /\ paths[name[subject]] # Nobody
          /\ paths' = [paths EXCEPT ![name[subject]] = Nobody]
      BY <2>3, <3>1, InstancesAssumption DEF ClosePath, Nobody
    <3> QED
      BY <2>1, <3>1, <3>2, Withdraws DEF Live
  <2> QED
    BY <1>8, <2>2, <2>3 DEF DecideCloseIfIdle
<1>9. ASSUME \/ \E C \in Configs : ReceiveReload(C)
             \/ CommitReload \/ ReloadOver \/ ManagerEnds \/ UNCHANGED vars
      PROVE  [R!Next]_R!vars
  BY <1>1, <1>9 DEF ReceiveReload, CommitReload, ReloadOver, ManagerEnds, vars, pathVars,
                    clientVars
<1>10. ASSUME NEW i \in Instances, PathStep(i) PROVE [R!Next]_R!vars
  <2>1. CASE Told(i)
    <3>1. Still /\ UNCHANGED given /\ loop[i] \in Up /\ EventEnds(i, FALSE)
      BY <2>1 DEF Told, clientVars, Up
    <3> QED
      BY <1>2, <3>1
  <2>2. CASE CloseIfIdleReceived(i) \/ CloseIfIdleAbandoned(i)
    <3>1. \A j \in Instances : Live(j)' <=> Live(j)
      BY <2>2 DEF CloseIfIdleReceived, CloseIfIdleAbandoned, Live, TypeOK
    <3> QED
      BY <2>2, <3>1, Stutters DEF CloseIfIdleReceived, CloseIfIdleAbandoned, clientVars
  <2>3. ASSUME NEW c \in late[i], ReceiveConf(i, c) PROVE [R!Next]_R!vars
    BY <1>1, <2>3 DEF ReceiveConf, clientVars
  <2>4. CASE SourceChanges(i)
    <3>1. Still /\ UNCHANGED given /\ loop[i] \in Up /\ EventEnds(i, TRUE)
      BY <2>4 DEF SourceChanges, clientVars, Up
    <3> QED
      BY <1>2, <3>1
  <2>5. CASE RunInnerEnds(i)
    <3>1. /\ UNCHANGED <<stopping, name, given>> /\ name[i] \in Names
          /\ \A j \in Instances : Live(j)' <=> Live(j)
      BY <2>5 DEF RunInnerEnds, clientVars, Live, TypeOK, MapInv, Named
    <3>2. CASE UNCHANGED paths
      BY <3>1, <3>2, Stutters
    <3>3. CASE paths[name[i]] = i /\ paths' = [paths EXCEPT ![name[i]] = Nobody]
      BY <3>1, <3>3, Withdraws, InstancesAssumption DEF Nobody
    <3> QED
      BY <2>5, <3>2, <3>3 DEF RunInnerEnds
  <2>6. CASE Destroyed(i)
    <3>1. /\ UNCHANGED <<stopping, paths, name, given>> /\ name[i] \in Names
          /\ loop[i] = "ending" /\ loop' = [loop EXCEPT ![i] = "done"]
      BY <2>6 DEF Destroyed, clientVars, MapInv, Named
    <3>2. Living' = [Living EXCEPT ![i] = Nobody]
      BY <3>1 DEF Living, Live, TypeOK
    <3>3. Living[i] # Nobody
      BY <3>1, InstancesAssumption DEF Living, Live, Nobody
    <3>4. ~stopping => \A n \in Names : paths[n] # i
      BY <3>1, InstancesAssumption
         DEF MapInv, EndedIsCancelled, Cancelled, MapIsOpen, Up, Nobody
    <3>5. R!Ends(i)
      BY <3>1, <3>2, <3>3, <3>4 DEF R!Ends, Living
    <3> QED
      BY <3>5 DEF R!Next
  <2> QED
    BY <1>10, <2>1, <2>2, <2>3, <2>4, <2>5, <2>6 DEF PathStep
<1>11. ASSUME NEW i \in Instances, SecondaryStep(i) PROVE [R!Next]_R!vars
  <2>1. CASE SecondaryStarts(i) \/ SecondaryPauses(i) \/ SecondaryLeaves(i)
    BY <1>1, <2>1
       DEF SecondaryStarts, SecondaryPauses, SecondaryLeaves, clientVars, pathVars
  <2>2. CASE SecondaryCalls(i)
    <3>1. CASE UNCHANGED <<paths, pathVars>>
      BY <1>1, <2>2, <3>1 DEF SecondaryCalls, clientVars, pathVars
    <3>2. CASE /\ manager = "serving" /\ paths[PrimaryName] = Nobody
               /\ \E j \in Fresh : CreatePath(j, PrimaryName, pathConfs)
      <4>1. PICK j \in Instances : CreatePath(j, PrimaryName, pathConfs)
        BY <3>2 DEF Fresh
      <4>2. UNCHANGED <<stopping, given>>
        BY <2>2 DEF SecondaryCalls, clientVars
      <4> QED
        BY <1>4, <3>2, <4>1, <4>2, PrimaryAssumption
    <3> QED
      BY <2>2, <3>1, <3>2 DEF SecondaryCalls
  <2>3. CASE SecondaryServed(i) \/ SecondaryRemoved(i)
    <3>1. Still /\ UNCHANGED given
      BY <2>3 DEF SecondaryServed, SecondaryRemoved, clientVars
    <3>2. PICK j \in Instances :
            UNCHANGED loop \/ (loop[j] \in Up /\ EventEnds(j, FALSE))
      BY <2>3 DEF SecondaryServed, SecondaryRemoved, Up
    <3>3. CASE UNCHANGED loop
      BY <1>1, <3>1, <3>3
    <3>4. CASE loop[j] \in Up /\ EventEnds(j, FALSE)
      BY <1>2, <3>1, <3>4
    <3> QED
      BY <3>2, <3>3, <3>4
  <2> QED
    BY <1>11, <2>1, <2>2, <2>3 DEF SecondaryStep
<1>12. ASSUME NEW c \in Clients, ClientStep(c) PROVE [R!Next]_R!vars
  <2>1. ASSUME NEW n \in Names, GetPath(c, n) PROVE R!Next
    <3>1. given[c] = Nobody /\ manager = "serving" /\ UNCHANGED stopping
      BY <2>1 DEF GetPath, ClientsHold
    <3>2. CASE /\ paths[n] # Nobody /\ given' = [given EXCEPT ![c] = paths[n]]
               /\ UNCHANGED <<paths, pathVars>>
      <4>1. Living' = Living
        BY <3>2 DEF Living, Live, pathVars
      <4>2. R!Give(c, n)
        BY <3>1, <3>2, <4>1 DEF R!Give, Living
      <4> QED
        BY <4>2 DEF R!Next
    <3>3. ASSUME NEW i \in Fresh, paths[n] = Nobody, CreatePath(i, n, pathConfs),
                 given' = [given EXCEPT ![c] = i]
          PROVE  R!Next
      <4>1. i \in Instances /\ R!Register(n, i)
        BY <3>1, <3>3, Registers DEF Fresh
      <4>2. paths'[n] = i
        BY <3>3 DEF CreatePath, TypeOK
      <4>3. R!Give(c, n)
        BY <3>1, <3>3, <4>1, <4>2 DEF R!Give
      <4> QED
        BY <4>3 DEF R!Next
    <3> QED
      BY <2>1, <3>2, <3>3 DEF GetPath
  <2>2. CASE Served(c)
    <3>1. Still /\ given[c] # Nobody
      BY <2>2 DEF Served, ClientsHold
    <3>2. PICK i \in Instances, tells \in BOOLEAN : loop[i] \in Up /\ EventEnds(i, tells)
      BY <2>2 DEF Served, Up
    <3>3. \A j \in Instances : Live(j)' <=> Live(j)
      BY <3>2, EventEndsInLoop DEF Live, Up
    <3>4. UNCHANGED given \/ given' = [given EXCEPT ![c] = Nobody]
      BY <2>2 DEF Served
    <3> QED
      BY <1>2, <1>3, <3>1, <3>2, <3>3, <3>4
  <2>3. CASE Leaves(c)
    BY <1>1, <2>3 DEF Leaves, pathVars
  <2>4. CASE Removed(c)
    <3>1. Still /\ given[c] # Nobody /\ given' = [given EXCEPT ![c] = Nobody]
      BY <2>4 DEF Removed, ClientsHold
    <3>2. PICK i \in Instances, tells \in BOOLEAN : loop[i] \in Up /\ EventEnds(i, tells)
      BY <2>4 DEF Removed, Up
    <3>3. \A j \in Instances : Live(j)' <=> Live(j)
      BY <3>2, EventEndsInLoop DEF Live, Up
    <3> QED
      BY <1>3, <3>1, <3>3
  <2>5. CASE CallCancelled(c)
    <3>1. Still /\ given[c] # Nobody /\ given' = [given EXCEPT ![c] = Nobody] /\ UNCHANGED loop
      BY <2>5 DEF CallCancelled, ClientsHold, pathVars
    <3> QED
      BY <1>3, <3>1 DEF Live
  <2> QED
    BY <1>12, <2>1, <2>2, <2>3, <2>4, <2>5 DEF ClientStep
<1>13. CASE Shutdown
  <2>1. Living' = Living
    BY <1>13 DEF Shutdown, Living, Live, pathVars
  <2>2. R!Shut
    BY <1>13, <2>1 DEF Shutdown, R!Shut, Living, clientVars
  <2> QED
    BY <2>2 DEF R!Next
<1> QED
  BY <1>5, <1>6, <1>7, <1>8, <1>9, <1>10, <1>11, <1>12, <1>13
     DEF Next, ManagerStep, Finished

LEMMA RegistryInit == Init => R!Init
<1> SUFFICES ASSUME Init PROVE R!Init
  OBVIOUS
<1>1. TypeOK
  BY TypeInit
<1>2. Living \in [Instances -> Names \cup {Nobody}]
  BY <1>1 DEF Living, TypeOK
<1>3. \A i \in Instances : Living[i] = name[i]
  BY DEF Living, Live, Init
<1>4. ASSUME NEW n \in Names, NEW i \in Instances PROVE paths[n] = i <=> name[i] = n
  <2>1. n # Nobody /\ i # Nobody
    BY InstancesAssumption DEF Nobody
  <2>2. ASSUME paths[n] = i PROVE name[i] = n
    <3>1. name[i] # Nobody /\ paths[name[i]] = i
      BY <2>2 DEF Init
    <3>2. name[i] \in Names
      BY <1>1, <3>1 DEF TypeOK
    <3> QED
      BY <2>1, <2>2, <3>1, <3>2 DEF Init
  <2>3. ASSUME name[i] = n PROVE paths[n] = i
    BY <2>1, <2>3 DEF Init
  <2> QED
    BY <2>2, <2>3
<1> QED
  BY <1>1, <1>2, <1>3, <1>4 DEF R!Init, Init, TypeOK, Living

(* path_manager.go: whatever reloads, idle paths and clients do, the        *)
(* manager is a registry: each name has at most one path that has not       *)
(* ended, and whoever asks is given the one of the moment.                  *)
THEOREM RegistryCorrect == Spec => ImplementsRegistry
<1>1. Init => TypeOK /\ MapInv /\ ClientsHold
  BY TypeInit, MapInit, ClientsInit
<1>2. TypeOK /\ MapInv /\ ClientsHold /\ [Next]_vars => (TypeOK /\ MapInv /\ ClientsHold)'
  BY TypeStep, MapStep, ClientsStep
<1>3. TypeOK /\ MapInv /\ ClientsHold /\ [Next]_vars => [R!Next]_R!vars
  BY RegistryStep
<1> QED
  BY <1>1, <1>2, <1>3, RegistryInit, PTL DEF Spec, ImplementsRegistry, R!Spec
==============================================================================
