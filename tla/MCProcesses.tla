----------------------------- MODULE MCProcesses -----------------------------
(* Urgencies the instances of the scheduler are checked with; init gives the *)
(* main program urgency 0.                                                  *)
EXTENDS Processes

CONSTANTS p1, p2, p3

OneUrgency == [p \in Process |-> 0]

\* One process above the main program and its peers, as in the manual's example.
OneAbove == [p \in Process |-> IF p = p1 THEN 1 ELSE 0]

ThreeUrgencies == [p \in Process |-> IF p = p1 THEN 1 ELSE IF p = p2 THEN 2 ELSE 0]
=============================================================================
