------------------------------- MODULE Threads -------------------------------
(***************************************************************************)
(* Processes of a multi-threaded program on POSIX threads: the semaphores  *)
(* of lib/src/os/POSIX/xosThreads.c, the processes and their ring of       *)
(* lib/src/xr/xrThreads.mod under the mutex plock (module Mutex), and the  *)
(* operations lib/src/isoimp/Processes.mod and Semaphores.mod make of them.*)
(*                                                                         *)
(* A body of a semaphore operation runs under the lock of the semaphore    *)
(* and is one step; pthread_cond_wait ends one step, "asleep", and begins  *)
(* another when it has been woken, by a signal or for no reason.           *)
(***************************************************************************)
EXTENDS Mutex, FiniteSets

CONSTANTS
  Main,      \* the process of the main program
  MaxCount   \* m->max of the counting semaphore

ASSUME ThreadsAssumption == Main \in Thread /\ MaxCount \in Nat \ {0}

VARIABLES
  pc,         \* what a process does
  on,         \* the semaphore it acquires
  state,      \* m->state of a boolean, m->count of the counting semaphore
  live,       \* the semaphores that have been created and not deleted
  ring,       \* the processes linked from prs
  activated   \* history: was a passive process activated?

threadVars == <<pc, on, state, live, ring, activated>>
allVars == <<mutexVars, threadVars>>

Control(t) == <<t, "controll">>     \* p^.controll: is p activated?
Control1(t) == <<t, "controll1">>   \* p^.controll1: has p registered itself?
Counting == <<Nobody, "semaphore">> \* a semaphore of Semaphores.mod
Semaphore == {Control(t) : t \in Thread} \cup {Control1(t) : t \in Thread} \cup {Counting}

Acquiring == {"acquire", "asleep", "woken"}
Registering == {"register", "registered"}
Ending == {"unregister", "unregistered"}
Does == {"none", "run", "suspend", "ended"} \cup Acquiring \cup Registering \cup Ending

Asleep(s) == {t \in Thread : pc[t] = "asleep" /\ on[t] = s}
Waiters(s) == {t \in Thread : pc[t] \in {"asleep", "woken"} /\ on[t] = s}   \* m->waiters

Passive(t) == pc[t] \in Acquiring /\ on[t] = Control(t)
Created(t) == Control(t) \in live /\ \A c \in Thread : pc[c] \in Acquiring => on[c] # Control1(t)

\* t runs its program, and not inside X2C_EnterMutex or X2C_ExitMutex.
Runs(t) == pc[t] = "run" /\ at[t] = "outside"
Free(t) == Runs(t) /\ depth[t] = 0

\* What t does next, when the processes in W are woken.
Next(t, W, p) == pc' = [u \in Thread |-> IF u = t THEN p ELSE IF u \in W THEN "woken" ELSE pc[u]]
-----------------------------------------------------------------------------
(* The semaphores *)

\* Mutant: nobody is woken.
SetBoolSemaphoreOnly(t, s, p) ==
  state' = [state EXCEPT ![s] = 1] /\ Next(t, {}, p) /\ UNCHANGED ring

\* pthread_cond_broadcast wakes whoever sleeps; t goes on with p.
SetBoolSemaphore(t, s, p) ==
  state' = [state EXCEPT ![s] = 1] /\ Next(t, Asleep(s), p) /\ UNCHANGED ring

ResetBoolSemaphore(t, s) == state' = [state EXCEPT ![s] = 0]

\* t goes on in its program, with a permit less, or without the semaphore by which
\* a new process has told that it is registered.
Acquired(t, s) ==
  /\ Next(t, {}, "run")
  /\ state' = IF s = Counting THEN [state EXCEPT ![s] = @ - 1] ELSE state
  /\ live' = IF s \in {Control(t), Counting} THEN live ELSE live \ {s}
  /\ on' = [on EXCEPT ![t] = Control(t)]
  /\ activated' = [activated EXCEPT ![t] = "no"]

Sleep(t) == Next(t, {}, "asleep") /\ UNCHANGED <<state, live, on, activated>>

\* A turn of the loop of X2C_AcquireBoolSemaphore and X2C_AcquireSemaphore.
Acquire(t) ==
  /\ pc[t] \in {"acquire", "woken"}
  /\ \/ state[on[t]] = 0 /\ Sleep(t)
     \/ state[on[t]] > 0 /\ Acquired(t, on[t])
  /\ UNCHANGED <<ring, mutexVars>>

\* pthread_cond_wait may return without a signal.
WakeSpuriously(t) ==
  /\ pc[t] = "asleep" /\ Next(t, {}, "woken")
  /\ UNCHANGED <<on, state, live, ring, activated, mutexVars>>

Claim(t) ==
  /\ Free(t) /\ Next(t, {}, "acquire") /\ on' = [on EXCEPT ![t] = Counting]
  /\ UNCHANGED <<state, live, ring, activated, mutexVars>>

\* nowait: with a count of zero the call changes nothing.
CondClaim(t) ==
  /\ Free(t) /\ state[Counting] > 0
  /\ state' = [state EXCEPT ![Counting] = @ - 1]
  /\ UNCHANGED <<pc, on, live, ring, activated, mutexVars>>

\* Mutant: a signal only when the count leaves zero.
ReleaseFromZero(t) ==
  /\ Free(t)
  /\ IF Asleep(Counting) = {} \/ state[Counting] > 0 THEN UNCHANGED pc
     ELSE \E w \in Asleep(Counting) : Next(w, {}, "woken")
  /\ state' = [state EXCEPT ![Counting] = IF @ < MaxCount THEN @ + 1 ELSE @]
  /\ UNCHANGED <<on, live, ring, activated, mutexVars>>

\* pthread_cond_signal wakes one that sleeps, if there is a waiter at all; the
\* count grows in any case, so that somebody else may take the permit first.
Release(t) ==
  /\ Free(t)
  /\ IF Waiters(Counting) = {} \/ Asleep(Counting) = {} THEN UNCHANGED pc
     ELSE \E w \in Asleep(Counting) : Next(w, {}, "woken")
  /\ state' = [state EXCEPT ![Counting] = IF @ < MaxCount THEN @ + 1 ELSE @]
  /\ UNCHANGED <<on, live, ring, activated, mutexVars>>
-----------------------------------------------------------------------------
(* The life of a process *)

\* X2C_CreateISOProcess: the thread of u runs at once, and t waits for controll1.
Create(t, u) ==
  /\ Free(t) /\ pc[u] = "none"
  /\ pc' = [pc EXCEPT ![t] = "acquire", ![u] = "register"]
  /\ on' = [on EXCEPT ![t] = Control1(u), ![u] = Control(u)]
  /\ live' = live \cup {Control(u), Control1(u)}
  /\ UNCHANGED <<state, ring, activated, mutexVars>>

\* Mutant: the ring is changed without plock.
LinkAnyway(t) ==
  \/ pc[t] = "register" /\ Next(t, {}, "registered") /\ ring' = ring \cup {t}
  \/ pc[t] = "unregister" /\ Next(t, {}, "unregistered") /\ ring' = ring \ {t}

\* X2C_RegisterThread and X2C_UnregisterThread, with plock.
Link(t) ==
  /\ depth[t] = 1
  /\ \/ pc[t] = "register" /\ Next(t, {}, "registered") /\ ring' = ring \cup {t}
     \/ pc[t] = "unregister" /\ Next(t, {}, "unregistered") /\ ring' = ring \ {t}

Linked(t) == at[t] = "outside" /\ Link(t) /\ UNCHANGED <<on, state, live, activated, mutexVars>>

\* startThread tells the creator and waits to be activated.
Started(t) ==
  /\ pc[t] = "registered" /\ at[t] = "outside" /\ depth[t] = 0
  /\ SetBoolSemaphore(t, Control1(t), "acquire")
  /\ UNCHANGED <<on, live, activated, mutexVars>>

\* Processes.StopMe, and the end of startThread: X2C_DeleteISOProcess.
StopMe(t) ==
  /\ Free(t) /\ Next(t, {}, "unregister")
  /\ UNCHANGED <<on, state, live, ring, activated, mutexVars>>

Ended(t) ==
  /\ pc[t] = "unregistered" /\ at[t] = "outside" /\ depth[t] = 0
  /\ live' = live \ {Control(t)} /\ Next(t, {}, "ended")
  /\ UNCHANGED <<on, state, ring, activated, mutexVars>>

\* The calls of plock: those of X2C_RegisterThread and X2C_UnregisterThread, and
\* those of a program that iterates over the ring (Handler, the collector).
Calls(t) ==
  \/ EnterMutex(t) /\ (pc[t] = "run" \/ (pc[t] \in {"register", "unregister"} /\ depth[t] = 0))
  \/ ExitMutex(t) /\ depth[t] > 0 /\ pc[t] \in {"run", "registered", "unregistered"}

MutexCall(t) == (Calls(t) \/ MutexStep(t)) /\ UNCHANGED threadVars
-----------------------------------------------------------------------------
(* Processes.mod *)

\* Programs activate processes that exist and go on.
Activatable(u) == Created(u) /\ pc[u] \notin Ending

\* An Activate that finds u between its own Activate and SuspendMe comes too early,
\* and one that finds it not passive changes nothing.
Activated(u) == CASE pc[u] = "suspend" -> "early" [] Passive(u) -> "yes" [] OTHER -> activated[u]

Activate(t, u) ==
  /\ Free(t) /\ Activatable(u)
  /\ SetBoolSemaphore(t, Control(u), "run")
  /\ activated' = [activated EXCEPT ![u] = Activated(u)]
  /\ UNCHANGED <<on, live, mutexVars>>

\* Mutant: the semaphore is not reset.
SuspendAtOnce(t) == Next(t, {}, "acquire") /\ on' = [on EXCEPT ![t] = Control(t)] /\ UNCHANGED state

\* SuspendMe's first half, the reset.
Suspend(t) ==
  /\ ResetBoolSemaphore(t, Control(t))
  /\ Next(t, {}, "acquire") /\ on' = [on EXCEPT ![t] = Control(t)]

SuspendMe(t) ==
  /\ Free(t) /\ Suspend(t)
  /\ UNCHANGED <<live, ring, activated, mutexVars>>

\* SuspendMeAndActivate and Switch: the Activate, and then SuspendMe.
HandOff(t, u) ==
  /\ Free(t) /\ u # t /\ Activatable(u)
  /\ SetBoolSemaphore(t, Control(u), "suspend")
  /\ activated' = [activated EXCEPT ![u] = Activated(u)]
  /\ UNCHANGED <<on, live, mutexVars>>

HandedOff(t) ==
  /\ pc[t] = "suspend" /\ Suspend(t)
  /\ UNCHANGED <<live, ring, activated, mutexVars>>
-----------------------------------------------------------------------------
\* X2C_InitThreads: the main program is in the ring and has its semaphore.
Init ==
  /\ MutexInit
  /\ pc = [t \in Thread |-> IF t = Main THEN "run" ELSE "none"]
  /\ on = [t \in Thread |-> Control(t)]
  /\ state = [s \in Semaphore |-> 0]
  /\ live = {Control(Main), Counting}
  /\ ring = {Main}
  /\ activated = [t \in Thread |-> "no"]

Step(t) ==
  \/ MutexCall(t) \/ Linked(t) \/ Started(t) \/ Ended(t)
  \/ Acquire(t) \/ WakeSpuriously(t) \/ Claim(t) \/ CondClaim(t) \/ Release(t)
  \/ StopMe(t) \/ SuspendMe(t) \/ HandedOff(t)
  \/ \E u \in Thread : Create(t, u) \/ Activate(t, u) \/ HandOff(t, u)

Spec == Init /\ [][\E t \in Thread : Step(t)]_allVars

\* A thread that is woken gets the lock of the semaphore and looks at it.
FairSpec == Spec /\ \A t \in Thread : WF_allVars(Acquire(t))
-----------------------------------------------------------------------------
TypeOK ==
  /\ MutexTypeOK
  /\ pc \in [Thread -> Does]
  /\ on \in [Thread -> Semaphore]
  /\ state \in [Semaphore -> 0..MaxCount]
  /\ live \subseteq Semaphore
  /\ ring \subseteq Thread
  /\ activated \in [Thread -> {"no", "yes", "early"}]

\* SuspendMe returns, and the body of a new process begins, only after an Activate:
\* neither an old activation nor a wake-up for no reason lets a process go on.
OnlyActivatedReturn ==
  [][\A t \in Thread : Passive(t) /\ pc'[t] = "run" => activated[t] # "no"]_allVars

\* A passive process does not sleep through an Activate, but for one that came
\* between the two halves of its own hand-off.
ActivationsKept == \A t \in Thread : t \in Asleep(Control(t)) => activated[t] # "yes"

\* A passive process that is activated goes on.
ActivatedRuns == \A t \in Thread : Passive(t) /\ activated[t] = "yes" ~> ~Passive(t)

\* While a claimant sleeps there are no more permits than claimants that have been
\* woken to take them: no Release is lost, however they race with Claim.
WakeupsSuffice ==
  Asleep(Counting) # {} =>
    state[Counting] <= Cardinality(Waiters(Counting) \ Asleep(Counting))

\* A program that iterates over the ring finds the same processes all the time.
Iterates(t) == pc[t] = "run" /\ depth[t] > 0
IterationsSeeOneRing ==
  [][\A t \in Thread : Iterates(t) /\ Iterates(t)' => ring' = ring]_allVars

\* Processes.def:51, "an atomic sequence of SuspendMe() and Activate": a process
\* that hands the processor over does not sleep through an Activate either.
HandOffKept == \A t \in Thread : t \in Asleep(Control(t)) => activated[t] = "no"
=============================================================================
