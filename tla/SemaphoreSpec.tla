---------------------------- MODULE SemaphoreSpec ----------------------------
(***************************************************************************)
(* What lib/src/isodef/Semaphores.def promises of one semaphore: a count,  *)
(* and the processes its Claim keeps suspended until it is released.       *)
(***************************************************************************)
EXTENDS Integers

CONSTANT Process

VARIABLES
  exists,    \* the semaphore has been created and not yet destroyed
  count,     \* its associated count
  waiting    \* the processes suspended in Claim

Init == ~exists /\ count = 0 /\ waiting = {}

Create ==
  /\ ~exists /\ exists' /\ count' \in Nat /\ waiting' = {}

Claim(p) ==
  /\ exists
  /\ \/ count > 0 /\ count' = count - 1 /\ UNCHANGED waiting
     \/ count = 0 /\ p \notin waiting /\ waiting' = waiting \cup {p} /\ UNCHANGED count
  /\ UNCHANGED exists

\* CondClaim never suspends: with a zero count it changes nothing.
CondClaim ==
  /\ exists /\ count > 0 /\ count' = count - 1 /\ UNCHANGED <<exists, waiting>>

\* One waiting process becomes ready, or the count is incremented; never both.
Release ==
  /\ exists
  /\ \/ waiting = {} /\ count' = count + 1 /\ UNCHANGED waiting
     \/ \E p \in waiting : waiting' = waiting \ {p} /\ UNCHANGED count
  /\ UNCHANGED exists

\* The resources are recovered once no process waits.
Destroy ==
  /\ exists /\ waiting = {} /\ ~exists' /\ UNCHANGED <<count, waiting>>

Next == Create \/ CondClaim \/ Release \/ Destroy \/ \E p \in Process : Claim(p)

svars == <<exists, count, waiting>>
Spec == Init /\ [][Next]_svars
=============================================================================
