------------------------------ MODULE Registry ------------------------------
(***************************************************************************)
(* What the path manager promises: a registry of paths.  Under a name      *)
(* there is at most one path that has not ended, closed ones included,     *)
(* whoever looks a name up is given the path of the moment, and a path     *)
(* ends only after it has left the registry.  How the registry is kept     *)
(* (reloads, idle paths, waiting for a path that closes) is the business   *)
(* of PathManager, which implements this module.  Once the registry is     *)
(* shut down, paths end as they like.                                      *)
(***************************************************************************)
CONSTANTS Names, Paths, Clients, None

VARIABLES
  open,       \* the registry has not been shut down
  current,    \* the path under each name
  living,     \* the name of each path that has not ended
  lease       \* the path that each client was given

vars == <<open, current, living, lease>>

Init ==
  /\ open = TRUE
  /\ current \in [Names -> Paths \cup {None}]
  /\ living \in [Paths -> Names \cup {None}]
  /\ \A n \in Names, i \in Paths : current[n] = i <=> living[i] = n
  /\ lease = [c \in Clients |-> None]

(* A path enters, under a name that no other path lives under. *)
Register(n, i) ==
  /\ current[n] = None /\ living[i] = None
  /\ open => \A j \in Paths : living[j] # n
  /\ current' = [current EXCEPT ![n] = i]
  /\ living' = [living EXCEPT ![i] = n]
  /\ UNCHANGED open

(* A path leaves: nobody is given it any more. *)
Withdraw(n) ==
  /\ current[n] # None
  /\ current' = [current EXCEPT ![n] = None]
  /\ UNCHANGED <<open, living, lease>>

(* It ends. *)
Ends(i) ==
  /\ living[i] # None
  /\ open => \A n \in Names : current[n] # i
  /\ living' = [living EXCEPT ![i] = None]
  /\ UNCHANGED <<open, current, lease>>

(* A client is given the path of a name, made for it if there is none. *)
Give(c, n) ==
  /\ lease[c] = None
  /\ \/ current[n] # None /\ UNCHANGED <<open, current, living>>
     \/ \E i \in Paths : Register(n, i)
  /\ lease' = [lease EXCEPT ![c] = current'[n]]

Return(c) ==
  /\ lease[c] # None
  /\ lease' = [lease EXCEPT ![c] = None]
  /\ UNCHANGED <<open, current, living>>

Shut ==
  /\ open /\ open' = FALSE
  /\ UNCHANGED <<current, living, lease>>

Next ==
  \/ \E n \in Names, i \in Paths : Register(n, i) /\ UNCHANGED lease
  \/ \E n \in Names : Withdraw(n)
  \/ \E i \in Paths : Ends(i)
  \/ \E c \in Clients, n \in Names : Give(c, n)
  \/ \E c \in Clients : Return(c)
  \/ Shut

Spec == Init /\ [][Next]_vars
=============================================================================
