------------------------------ MODULE Delivery ------------------------------
(***************************************************************************)
(* What synchronising a row towards one side promises, without any of the  *)
(* files, statements and failures that carry it out: a version is written, *)
(* at some time received, and only then acknowledged to its author.        *)
(* Acknowledgements may be forgotten; receiving is never undone.           *)
(***************************************************************************)
EXTENDS Naturals

VARIABLES written, received, acked
vars == <<written, received, acked>>

Init == written = {0} /\ received = {0} /\ acked \subseteq received

\* A new version, written where it must go to or elsewhere.
Write(v) ==
  /\ v \in Nat
  /\ written' = written \cup {v}
  /\ received' \in {received, received \cup {v}}
  /\ acked' \subseteq acked

\* Versions arrive, in any number and any number of times.
Receive ==
  /\ received \subseteq received' /\ received' \subseteq written
  /\ acked' \subseteq acked
  /\ UNCHANGED written

\* What has arrived is acknowledged.
Acknowledge ==
  /\ acked' \subseteq acked \cup received
  /\ UNCHANGED <<written, received>>

Next == (\E v \in written' \ written : Write(v)) \/ Receive \/ Acknowledge
Spec == Init /\ [][Next]_vars

\* Nothing is acknowledged before it was received, or received before written.
InOrder == acked \subseteq received /\ received \subseteq written
=============================================================================
