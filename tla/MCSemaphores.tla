----------------------------- MODULE MCSemaphores -----------------------------
(* Instances of the semaphores: processes of one urgency, or one above the   *)
(* main program, as in the manual's example.                                 *)
EXTENDS Semaphores

CONSTANTS p1, p2, p3, s1

OneUrgency == [p \in Process |-> 0]
OneAbove == [p \in Process |-> IF p = p1 THEN 1 ELSE 0]

\* Release, Claim, CondClaim and Destroy of s1 do what Semaphores.def says, for the
\* processes that really sleep (the semaphores are alike: one stands for all).
Promise == INSTANCE SemaphoreSpec
             WITH exists <- alive[s1], count <- cnt[s1], waiting <- Sleeping(s1)
ImplementsSemaphore == Promise!Spec
=============================================================================
