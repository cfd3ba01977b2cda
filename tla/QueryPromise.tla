---------------------------- MODULE QueryPromise ----------------------------
(***************************************************************************)
(* What the transport promises the application about its queries: one that *)
(* was accepted is concluded, once and for one reason, and at most Capacity *)
(* are waiting at any time.  How the answers find their queries, and who   *)
(* counts the time, is left to the implementation.                         *)
(***************************************************************************)
EXTENDS Naturals, FiniteSets

CONSTANTS Queries, Capacity

VARIABLE status    \* what became of each query

Outcomes == {"answered", "discarded", "timeout"}

PromiseTypeOK == status \in [Queries -> {"idle", "pending"} \cup Outcomes]

Pending == {q \in Queries : status[q] = "pending"}

Init == status = [q \in Queries |-> "idle"]

\* A query is accepted; its identity may have been used before.
Accept(q) ==
  /\ q \notin Pending
  /\ Cardinality(Pending) < Capacity
  /\ status' = [status EXCEPT ![q] = "pending"]

\* A frame concludes one query.
Answered(q) ==
  /\ q \in Pending
  /\ \E how \in {"answered", "discarded"} : status' = [status EXCEPT ![q] = how]

\* The clock concludes some of the queries together.
TimedOut(S) ==
  /\ S \subseteq Pending
  /\ S # {}
  /\ status' = [q \in Queries |-> IF q \in S THEN "timeout" ELSE status[q]]

Concludes(q) == Answered(q) \/ \E S \in SUBSET Pending : q \in S /\ TimedOut(S)

Next == \E q \in Queries : Accept(q) \/ Concludes(q)

Spec == Init /\ [][Next]_status

FairSpec == Spec /\ \A q \in Queries : WF_status(Concludes(q))
=============================================================================
