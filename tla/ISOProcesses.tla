---------------------------- MODULE ISOProcesses -----------------------------
(***************************************************************************)
(* What lib/src/isodef/Processes.def promises a program: every process has *)
(* a status, at most one executes, the scheduler always picks a ready      *)
(* process of the highest urgency, and only the process named in a call,   *)
(* the caller, and the one picked change status.                           *)
(***************************************************************************)
EXTENDS Integers

CONSTANTS Process, Main, Urgency

VARIABLE status   \* absent, passive, waiting, ready, current or terminated

Status == {"absent", "passive", "waiting", "ready", "current", "terminated"}

Init == status = [p \in Process |-> IF p = Main THEN "current" ELSE "absent"]

ReadySet == {p \in Process : status[p] = "ready"}
MostUrgentIn(S) == {p \in S : \A q \in S : Urgency[q] <= Urgency[p]}

\* c leaves the processor with status s, and one of the processes in S, which
\* become or are ready, is picked; if there is none the processor idles.
Leave(c, s, S) ==
  LET st == [p \in Process |-> IF p = c THEN s
                               ELSE IF p \in S THEN "ready" ELSE status[p]]
  IN  IF S = {} THEN status' = st
      ELSE \E p \in MostUrgentIn(S) : status' = [st EXCEPT ![p] = "current"]

\* p becomes ready; it takes the processor only from a less urgent process.
MakeReady(c, p) ==
  status' = IF Urgency[c] < Urgency[p]
            THEN [status EXCEPT ![p] = "current", ![c] = "ready"]
            ELSE [status EXCEPT ![p] = "ready"]

Suspended(p) == status[p] \in {"passive", "waiting"}

Create(p) == status[p] = "absent" /\ status' = [status EXCEPT ![p] = "passive"]
Start(c, p) == status[p] = "absent" /\ MakeReady(c, p)
Activate(c, p) == Suspended(p) /\ MakeReady(c, p)
StopMe(c) == Leave(c, "terminated", ReadySet)
SuspendMe(c) == Leave(c, "passive", ReadySet)
Wait(c) == Leave(c, "waiting", ReadySet)
SuspendMeAndActivate(c, p) == Suspended(p) /\ Leave(c, "passive", ReadySet \cup {p})
Switch(c, p) ==
  Suspended(p) /\ status' = [status EXCEPT ![p] = "current", ![c] = "passive"]

Next ==
  \E c \in {q \in Process : status[q] = "current"} :
    \/ StopMe(c) \/ SuspendMe(c) \/ Wait(c)
    \/ \E p \in Process : \/ Create(p) \/ Start(c, p) \/ Activate(c, p)
                          \/ SuspendMeAndActivate(c, p) \/ Switch(c, p)

Spec == Init /\ [][Next]_status
=============================================================================
