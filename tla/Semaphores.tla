------------------------------ MODULE Semaphores ------------------------------
(***************************************************************************)
(* The single-threaded counting semaphores of the ISO library,             *)
(* lib/src/isoimp/Semaphores.mod lines 102-210, running on the scheduler   *)
(* of module Processes.                                                    *)
(*                                                                         *)
(* s^.lst, a circular list of ItemRecs that live on the stacks of the      *)
(* claimants, is a sequence of processes (ItemRec.prs), first item first.  *)
(* A coroutine parked inside Claim or Destroy is recorded in waitsFor and  *)
(* destroys: they stand for the return address on its stack.               *)
(***************************************************************************)
EXTENDS Processes

CONSTANTS
  Semaphore,      \* the semaphore descriptors
  MaxCount,       \* bound on cnt in the checked instances
  PassiveClaims   \* may the last ready process call a Claim that must wait?

ASSUME SemaphoreAssumption ==
  MaxCount \in Nat /\ PassiveClaims \in BOOLEAN /\ Nil \notin Semaphore

VARIABLES
  alive,     \* s^.magic = magic_s
  cnt,       \* s^.cnt
  lst,       \* s^.lst
  waitsFor,  \* the semaphore whose Claim a coroutine is parked in
  destroys,  \* the semaphore whose Destroy a coroutine executes
  permits    \* history: initial count + Releases - Claims that succeeded

semVars == <<alive, cnt, lst, waitsFor, destroys, permits>>
allVars == <<vars, semVars>>

Free == Running /\ destroys[running] = Nil

\* The coroutines a step lets continue have returned from their Claim.
ClaimsReturn == waitsFor' = [p \in Process |-> IF at'[p] = "live" THEN Nil ELSE waitsFor[p]]
Granted(s) == {p \in Process : waitsFor[p] = s /\ at'[p] = "live"}

\* The step gives d permits to s, and the Claims that return take theirs.  Nothing
\* is accounted for a semaphore that is being destroyed.
Account(s, d) ==
  permits' = [t \in Semaphore |->
                IF \E p \in Process : destroys'[p] = t THEN 0
                ELSE IF ~alive'[t] THEN 0
                ELSE permits[t] + (IF t = s THEN d ELSE 0) - Cardinality(Granted(t))]

\* Activate(i^.prs): a ready process is left alone, an invalid one raises.
Wake(p) == IF Activatable(p) THEN Activate(p) ELSE UNCHANGED vars

\* Mutant of WakeFirst: the item stays linked.
WakeLinked(s) == Wake(Head(lst[s])) /\ UNCHANGED lst

\* UnTie the first item.  An item left behind by a Claim that has ended is dead
\* stack memory: it may still be intact, or its magic may be overwritten.
WakeFirst(s) ==
  LET p == Head(lst[s])
  IN  /\ lst' = [lst EXCEPT ![s] = Tail(@)]
      /\ \/ Wake(p)
         \/ /\ waitsFor[p] # s
            /\ outcome' = "assert"
            /\ UNCHANGED <<ring, running, state, body, info, at, corpse, events, hcnt>>
-----------------------------------------------------------------------------
\* NEW returns a descriptor that no stack refers to any more.
SemCreate(s, n) ==
  /\ Free
  /\ ~alive[s]
  /\ \A p \in Process : s \notin {waitsFor[p], destroys[p]}
  /\ alive' = [alive EXCEPT ![s] = TRUE]
  /\ cnt' = [cnt EXCEPT ![s] = n]
  /\ lst' = [lst EXCEPT ![s] = <<>>]
  /\ UNCHANGED <<waitsFor, destroys>>
  /\ UNCHANGED vars
  /\ Account(s, n)

\* Take a permit without waiting: the common part of Claim and CondClaim.
TakePermit(s) ==
  /\ cnt[s] > 0
  /\ cnt' = [cnt EXCEPT ![s] = @ - 1]
  /\ UNCHANGED <<alive, lst, waitsFor, destroys>>
  /\ UNCHANGED vars
  /\ Account(s, -1)

\* Tie the item of the caller and SuspendMe.  If that raises passiveProgram the
\* call ends without taking the item out of the list again.
ClaimWait(s) ==
  /\ cnt[s] = 0
  /\ PassiveClaims \/ Len(ring) > 1 \/ hcnt > 0
  /\ lst' = [lst EXCEPT ![s] = Append(@, Me)]
  /\ SuspendMe
  /\ waitsFor' = [p \in Process |-> IF at'[p] = "live" THEN Nil
                                    ELSE IF p = running THEN s ELSE waitsFor[p]]
  /\ UNCHANGED <<alive, cnt, destroys>>
  /\ Account(s, 0)

Claim(s) == Free /\ alive[s] /\ (TakePermit(s) \/ ClaimWait(s))

\* With cnt = 0 the call returns FALSE and changes nothing.
CondClaim(s) == Free /\ alive[s] /\ TakePermit(s)

\* Mutant of Release: the count grows even when a claimant is woken.
ReleaseBoth(s) ==
  /\ Free
  /\ alive[s]
  /\ cnt[s] < MaxCount
  /\ cnt' = [cnt EXCEPT ![s] = @ + 1]
  /\ IF lst[s] = <<>> THEN UNCHANGED lst /\ UNCHANGED vars ELSE WakeFirst(s)
  /\ ClaimsReturn
  /\ UNCHANGED <<alive, destroys>>
  /\ Account(s, 1)

Release(s) ==
  /\ Free
  /\ alive[s]
  /\ IF lst[s] = <<>>
     THEN /\ cnt[s] < MaxCount
          /\ cnt' = [cnt EXCEPT ![s] = @ + 1]
          /\ UNCHANGED <<lst, waitsFor>>
          /\ UNCHANGED vars
     ELSE /\ WakeFirst(s)
          /\ ClaimsReturn
          /\ UNCHANGED cnt
  /\ UNCHANGED <<alive, destroys>>
  /\ Account(s, 1)

\* One turn of Destroy's loop, or its end.  Activate may hand the processor to a
\* more urgent claimant, and then the loop goes on when the caller runs again.
\* One process at a time destroys a semaphore.
Destroy(s) ==
  /\ Running
  /\ destroys[running] \in {Nil, s}
  /\ alive[s]
  /\ \A p \in Process : destroys[p] = s => p = running
  /\ IF lst[s] = <<>>
     THEN /\ alive' = [alive EXCEPT ![s] = FALSE]
          /\ destroys' = [destroys EXCEPT ![running] = Nil]
          /\ UNCHANGED <<lst, waitsFor>>
          /\ UNCHANGED vars
     ELSE /\ IF cnt[s] = 0 THEN WakeFirst(s)
             ELSE /\ outcome' = "assert"
                  /\ UNCHANGED <<lst, ring, running, state, body, info, at, corpse>>
                  /\ UNCHANGED <<events, hcnt>>
          /\ destroys' = [destroys EXCEPT ![running] = s]
          /\ UNCHANGED alive
          /\ ClaimsReturn
  /\ UNCHANGED cnt
  /\ Account(s, 0)

\* The operations of Processes.  Programs leave a process that waits in Claim to
\* Release, and end a process only outside Destroy.
Scheduling ==
  /\ Free
  /\ \/ \E p \in Process : Create(p) \/ Start(p)
     \/ \E p \in Process : /\ waitsFor[p] = Nil
                           /\ Activate(p) \/ SuspendMeAndActivate(p) \/ Switch(p)
     \/ StopMe \/ SuspendMe \/ Wait
     \/ \E e \in Sources : Attach(e) \/ Detach(e)
  /\ ClaimsReturn
  /\ UNCHANGED <<alive, cnt, lst, destroys>>
  /\ Account(Nil, 0)
-----------------------------------------------------------------------------
SemInit ==
  /\ Init
  /\ alive = [s \in Semaphore |-> FALSE]
  /\ cnt = [s \in Semaphore |-> 0]
  /\ lst = [s \in Semaphore |-> <<>>]
  /\ waitsFor = [p \in Process |-> Nil]
  /\ destroys = [p \in Process |-> Nil]
  /\ permits = [s \in Semaphore |-> 0]

SemNext ==
  \/ Scheduling
  \/ \E s \in Semaphore : \/ \E n \in 0..MaxCount : SemCreate(s, n)
                          \/ Claim(s)
                          \/ CondClaim(s)
                          \/ Release(s)
                          \/ Destroy(s)

SemSpec == SemInit /\ [][SemNext]_allVars
-----------------------------------------------------------------------------
\* No wakeup is lost or given to a stranger: a process sleeps in Claim(s) exactly
\* when its item is linked in s^.lst, once, and then it is nowhere else; and nobody
\* sleeps while there is a permit (the assertion of Destroy, at every moment).
SleepersAreQueued ==
  \A s \in Semaphore :
    /\ \A i, j \in 1..Len(lst[s]) : lst[s][i] = lst[s][j] => i = j
    /\ ToSet(lst[s]) = {p \in Process : waitsFor[p] = s /\ ~Ready(p)}
    /\ lst[s] # <<>> => cnt[s] = 0

\* A semaphore gives out what it has: its count, plus the permits of the claimants
\* already woken that have not run yet, is what the calls so far leave.  (Destroy
\* wakes claimants without a permit, so this is about semaphores in use.)
PermitsConserved ==
  \A s \in Semaphore :
    alive[s] /\ (\A p \in Process : destroys[p] # s) /\ Running =>
      permits[s] = cnt[s] + Cardinality({p \in Process : waitsFor[p] = s /\ Ready(p)})

\* The processes that sleep in Claim(s).
Sleeping(s) == {p \in Process : waitsFor[p] = s /\ ~Ready(p)}
=============================================================================
