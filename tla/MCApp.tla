------------------------------- MODULE MCApp -------------------------------
(* Instances of App for TLC.  The viewers and the recordings share nothing *)
(* with what the queries race about, so that two instances do: in "races"  *)
(* two queries meet over two streams, and in "clients" one query and one   *)
(* stream come and go below a viewer and the recordings.                   *)
EXTENDS App, TLC

CONSTANTS n1, n2, s1, s2, q1

\* The streams have short names of their own, or share one.
Apart == n1 :> s1 @@ n2 :> s2
Alike == n1 :> s1 @@ n2 :> s1
MCShortOfs == {Apart, Alike}

VARIABLE instance

MCInit == Init /\ instance \in {"races", "clients"}

Races ==
  \/ \E n \in Names : Publish(n) \/ Unpublish(n)
  \/ \E q \in Queries : QueryStep(q)
  \/ \E b \in Outputs : OutputStep(b)

Clients ==
  \/ Publish(n1) \/ Unpublish(n1) \/ QueryStep(q1)
  \/ \E b \in Outputs : OutputStep(b)
  \/ \E v \in Viewers : ViewerStep(v)
  \/ DvrStep

MCNext ==
  /\ UNCHANGED instance
  /\ \/ instance = "races" /\ Races
     \/ instance = "clients" /\ Clients

MCSpec ==
  /\ MCInit /\ [][MCNext]_<<vars, instance>>
  /\ \A q \in Queries : instance = "races" \/ q = q1 => QueryIsFair(q)
=============================================================================
