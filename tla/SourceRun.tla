----------------------------- MODULE SourceRun -----------------------------
(***************************************************************************)
(* What the handler of a static source (SourceHandler) relies on in a call *)
(* of Run, and what the Run of every protocol (StaticSources, WhepSource)  *)
(* has to provide: the contract of the interface StaticSource              *)
(* (backend/core/internal/defs/static_source.go).                          *)
(*                                                                         *)
(* Run asks SetReady at most once, tells SetNotReady before it returns     *)
(* whenever SetReady was granted, and returns once its context is          *)
(* cancelled.                                                              *)
(***************************************************************************)
VARIABLES
    state,      \* off, spawned, connecting, the calls to the parent, returning
    open,       \* the context of the call
    quiet       \* it does not tell SetNotReady (the secondary camera source)

vars == <<state, open, quiet>>

Init == state \in {"off", "spawned", "connecting"} /\ open \in BOOLEAN /\ quiet \in BOOLEAN

Goes(from, to) == state \in from /\ state' \in to /\ UNCHANGED <<open, quiet>>

Spawn == state = "off" /\ state' = "spawned" /\ open' = TRUE /\ UNCHANGED quiet
Begin == Goes({"spawned"}, {"connecting"})
AskReady == Goes({"connecting"}, {"readyCall"})
Heard == Goes({"readyCall"}, {"readyWait"}) \/ Goes({"notReadyCall"}, {"notReadyWait"})
Granted == Goes({"readyWait"}, {"streaming"})
Refused == Goes({"readyCall", "readyWait"}, {"returning"})
Ends ==
    \/ Goes({"connecting"}, {"returning"})
    \/ Goes({"streaming"}, IF quiet THEN {"returning"} ELSE {"notReadyCall"})
Told == Goes({"notReadyCall", "notReadyWait"}, {"returning"})

(* The handler cancels the context, or takes note that Run has returned. *)
Cancel == open' = FALSE /\ UNCHANGED <<state, quiet>>
Gone == state = "returning" /\ state' = "off" /\ open' \in {open, FALSE} /\ UNCHANGED quiet

Next ==
    \/ Spawn \/ Begin \/ AskReady \/ Heard \/ Granted \/ Refused \/ Ends \/ Told
    \/ Cancel \/ Gone

Step == Next \/ UNCHANGED vars

(* A call that is cancelled does not stay where it is; one that is refused *)
(* returns.                                                                *)
Ending == state = "connecting" \/ (state = "streaming" /\ ~quiet)
Cancelled == ~open /\ Ending ~> ~Ending

Spec == Init /\ [][Next]_vars /\ Cancelled
=============================================================================
