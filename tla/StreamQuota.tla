----------------------------- MODULE StreamQuota -----------------------------
(***************************************************************************)
(* What the two budgets of the remote half promise together, whatever      *)
(* counters they keep: a set of admitted requests that never exceeds the   *)
(* shared budget, nor any certificate's cap.                               *)
(***************************************************************************)
EXTENDS Naturals, FiniteSets

CONSTANTS Requests, Serials, MaxConcurrentStreams, MaxStreamsPerCert

VARIABLE admitted   \* pairs of a request in flight and its certificate's serial

Of(k) == {q \in admitted : q[2] = k}

Init == admitted = {}

Admit(r, k) ==
  /\ \A j \in Serials : <<r, j>> \notin admitted
  /\ Cardinality(admitted) < MaxConcurrentStreams
  /\ MaxStreamsPerCert = 0 \/ Cardinality(Of(k)) < MaxStreamsPerCert
  /\ admitted' = admitted \cup {<<r, k>>}

Leave(r, k) ==
  /\ <<r, k>> \in admitted
  /\ admitted' = admitted \ {<<r, k>>}

Next == \E r \in Requests, k \in Serials : Admit(r, k) \/ Leave(r, k)

Spec == Init /\ [][Next]_admitted
=============================================================================
