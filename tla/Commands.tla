------------------------------ MODULE Commands ------------------------------
(***************************************************************************)
(* External commands and hooks (backend/core/internal/externalcmd, hooks). *)
(* A hook is opened by a connection, a session or a path and closed by it  *)
(* once: on opening it starts a command, runOnX, that may have to be       *)
(* restarted whenever it exits; on closing it closes that command and      *)
(* launches another, runOnUnX, that nobody closes.  Each command has a     *)
(* goroutine, and Core waits for all of them in Pool.Close, once whatever  *)
(* opens hooks has been closed.                                            *)
(*                                                                         *)
(* On Unix a command is ended with SIGINT, sent to its process group; on   *)
(* Windows by closing the job it has been added to.  The processes, and    *)
(* whether they obey SIGINT, are external.                                 *)
(***************************************************************************)
EXTENDS Naturals, FiniteSets

CONSTANTS
  Hooks,
  HookConfs,    \* [on, restart, after] considered: which commands are set
  Systems,      \* "unix", "windows"
  MaxLaunches   \* bound: processes of a command

VARIABLES
  system, conf,
  owner,      \* of each hook
  routine,    \* the goroutine of each command
  process,    \* the process it waits for
  strays,     \* processes of the command that are in no job
  launches,   \* of each command
  waiting     \* Pool.Close

vars == <<system, conf, owner, routine, process, strays, launches, waiting>>

Commands == Hooks \X {"on", "after"}

(* Cmd.Close has been called: only a hook does it, for its first command. *)
Terminated(c) == c[2] = "on" /\ owner[c[1]] = "closed"
Restart(c) == c[2] = "on" /\ conf[c[1]].restart

(* Pool.wg *)
Busy == {c \in Commands : routine[c] \notin {"none", "done"}}

SetRoutine(c, to) == routine' = [routine EXCEPT ![c] = to]

-----------------------------------------------------------------------------
(* Hooks.                                                                  *)

Open(h) ==
  /\ owner[h] = "out" /\ waiting = "no"
  /\ owner' = [owner EXCEPT ![h] = "open"]
  /\ IF conf[h].on THEN SetRoutine(<<h, "on">>, "launching") ELSE UNCHANGED routine
  /\ UNCHANGED <<system, conf, process, strays, launches, waiting>>

(* The function that the hook has returned. *)
CloseHook(h) ==
  /\ owner[h] = "open"
  /\ owner' = [owner EXCEPT ![h] = "closed"]
  /\ IF conf[h].after THEN SetRoutine(<<h, "after">>, "launching") ELSE UNCHANGED routine
  /\ UNCHANGED <<system, conf, process, strays, launches, waiting>>

-----------------------------------------------------------------------------
(* The goroutine of a command.                                             *)

(* runOSSpecific returns an error or nil: again after a pause, or the end. *)
Exited(c) == SetRoutine(c, IF Restart(c) THEN "paused" ELSE "done")

Started(c) == launches[c] < MaxLaunches /\ launches' = [launches EXCEPT ![c] = @ + 1]

(* The command is not valid, or cannot be started. *)
StartFails(c) ==
  /\ routine[c] = "launching"
  /\ Exited(c)
  /\ UNCHANGED <<system, conf, owner, process, strays, launches, waiting>>

StartProcess(c) ==
  /\ routine[c] = "launching" /\ Started(c)
  /\ SetRoutine(c, "running")
  /\ process' = [process EXCEPT ![c] = "alive"]
  /\ UNCHANGED <<system, conf, owner, strays, waiting>>

(* Windows: the process runs already when it is added to its job. *)
AddProcessFails(c) ==
  /\ system = "windows" /\ routine[c] = "launching" /\ Started(c)
  /\ strays' = [strays EXCEPT ![c] = @ + 1]
  /\ Exited(c)
  /\ UNCHANGED <<system, conf, owner, process, waiting>>

(* The process ends by itself, as do those that are in no job. *)
ProcessEnds(c) ==
  /\ process[c] = "alive"
  /\ process' = [process EXCEPT ![c] = "dead"]
  /\ UNCHANGED <<system, conf, owner, routine, strays, launches, waiting>>

StrayEnds(c) ==
  /\ strays[c] > 0
  /\ strays' = [strays EXCEPT ![c] = @ - 1]
  /\ UNCHANGED <<system, conf, owner, routine, process, launches, waiting>>

(* cmdDone: between an end and a termination, the choice is open. *)
Noticed(c) ==
  /\ routine[c] = "running" /\ process[c] = "dead"
  /\ Exited(c)
  /\ process' = [process EXCEPT ![c] = "none"]
  /\ UNCHANGED <<system, conf, owner, strays, launches, waiting>>

(* terminate: SIGINT to the group, or the end of the job. *)
\* Faulty variant: the goroutine does not wait for the process.
Terminate_NoWait(c) ==
  /\ routine[c] = "running" /\ Terminated(c)
  /\ SetRoutine(c, "done")
  /\ UNCHANGED <<system, conf, owner, process, strays, launches, waiting>>

Terminate(c) ==
  /\ routine[c] = "running" /\ Terminated(c)
  /\ SetRoutine(c, "killing")
  /\ process' = [process EXCEPT ![c] = IF system = "windows" THEN "dead" ELSE @]
  /\ UNCHANGED <<system, conf, owner, strays, launches, waiting>>

(* SIGINT is obeyed; the goroutine has waited for it. *)
Obey(c) ==
  /\ routine[c] = "killing" /\ process[c] = "alive"
  /\ process' = [process EXCEPT ![c] = "dead"]
  /\ UNCHANGED <<system, conf, owner, routine, strays, launches, waiting>>

Killed(c) ==
  /\ routine[c] = "killing" /\ process[c] = "dead"
  /\ SetRoutine(c, "done")
  /\ process' = [process EXCEPT ![c] = "none"]
  /\ UNCHANGED <<system, conf, owner, strays, launches, waiting>>

(* The pause after an exit ends, or is cut short.  If both come at once    *)
(* and the former is noticed, it may as well have come first.              *)
PauseEnds(c) ==
  /\ routine[c] = "paused" /\ ~Terminated(c)
  /\ launches[c] < MaxLaunches
  /\ SetRoutine(c, "launching")
  /\ UNCHANGED <<system, conf, owner, process, strays, launches, waiting>>

\* Faulty variant: the pause is not left.
PauseCut_Never(c) ==
  /\ routine[c] = "paused" /\ Terminated(c) /\ launches[c] < MaxLaunches
  /\ SetRoutine(c, "launching")
  /\ UNCHANGED <<system, conf, owner, process, strays, launches, waiting>>

PauseCut(c) ==
  /\ routine[c] = "paused" /\ Terminated(c)
  /\ SetRoutine(c, "done")
  /\ UNCHANGED <<system, conf, owner, process, strays, launches, waiting>>

-----------------------------------------------------------------------------
(* Core closes the servers and the paths, then the pool. *)
ClosePool ==
  /\ waiting = "no" /\ \A h \in Hooks : owner[h] # "open"
  /\ waiting' = "yes"
  /\ UNCHANGED <<system, conf, owner, routine, process, strays, launches>>

PoolClosed ==
  /\ waiting = "yes" /\ Busy = {}
  /\ waiting' = "over"
  /\ UNCHANGED <<system, conf, owner, routine, process, strays, launches>>

Init ==
  /\ system \in Systems
  /\ conf \in [Hooks -> HookConfs]
  /\ owner = [h \in Hooks |-> "out"]
  /\ routine = [c \in Commands |-> "none"]
  /\ process = [c \in Commands |-> "none"]
  /\ strays = [c \in Commands |-> 0]
  /\ launches = [c \in Commands |-> 0]
  /\ waiting = "no"

CommandStep(c) ==
  \/ StartFails(c) \/ StartProcess(c) \/ AddProcessFails(c) \/ ProcessEnds(c)
  \/ StrayEnds(c) \/ Noticed(c) \/ Terminate(c) \/ Obey(c) \/ Killed(c)
  \/ PauseEnds(c) \/ PauseCut(c)

Next ==
  \/ \E h \in Hooks : Open(h) \/ CloseHook(h)
  \/ \E c \in Commands : CommandStep(c)
  \/ ClosePool \/ PoolClosed

(* Commands that nobody closes end by themselves, the others obey SIGINT.  *)
Fairness ==
  /\ WF_vars(PoolClosed)
  /\ \A c \in Commands :
       /\ WF_vars(StartFails(c) \/ StartProcess(c) \/ AddProcessFails(c))
       /\ WF_vars(c[2] = "after" /\ ProcessEnds(c))
       /\ WF_vars(Noticed(c) \/ Terminate(c)) /\ WF_vars(Obey(c)) /\ WF_vars(Killed(c))
       /\ WF_vars(PauseEnds(c)) /\ WF_vars(PauseCut(c))

Spec == Init /\ [][Next]_vars /\ Fairness

-----------------------------------------------------------------------------
TypeOK ==
  /\ system \in Systems /\ conf \in [Hooks -> HookConfs]
  /\ owner \in [Hooks -> {"out", "open", "closed"}]
  /\ routine \in [Commands -> {"none", "launching", "running", "killing", "paused", "done"}]
  /\ process \in [Commands -> {"none", "alive", "dead"}]
  /\ \A c \in Commands : launches[c] \in 0..MaxLaunches /\ strays[c] \in 0..launches[c]
  /\ waiting \in {"no", "yes", "over"}

(* A command has one process at a time, that its goroutine looks after;    *)
(* once the server has waited for the commands none is left, except, on    *)
(* Windows, those that could not be added to a job.  A command is launched *)
(* again only if it is to be restarted, and those of a closed hook follow  *)
(* its opening.                                                            *)
NoProcessIsLeft ==
  /\ \A c \in Commands :
       /\ process[c] # "none" => routine[c] \in {"running", "killing"}
       /\ strays[c] > 0 => system = "windows"
       /\ launches[c] > 1 => Restart(c)
       /\ routine[c] = "none" => launches[c] = 0
       /\ c[2] = "after" /\ routine[c] # "none" => owner[c[1]] = "closed"
  /\ waiting = "over" => \A c \in Commands : process[c] = "none"

(* A closed hook ends its command, whatever that was doing, and Pool.Close *)
(* comes back.                                                             *)
CommandsEnd ==
  /\ \A h \in Hooks :
       owner[h] = "closed" ~> routine[<<h, "on">>] \in {"none", "done"}
  /\ waiting = "yes" ~> waiting = "over"
=============================================================================
