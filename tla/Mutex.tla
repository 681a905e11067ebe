-------------------------------- MODULE Mutex --------------------------------
(***************************************************************************)
(* X2C_Mutex, lib/src/os/POSIX/xosThreads.c:30-273: a pthread mutex made   *)
(* recursive by an owner and a count that X2C_EnterMutex and X2C_ExitMutex *)
(* read before they have the lock.  Every read and every write of          *)
(* m->thread and m->count that another thread can see is a step.           *)
(***************************************************************************)
EXTENDS Integers

CONSTANTS
  Thread,    \* the threads of the program
  Nobody,    \* no thread
  MaxDepth   \* bound on how deep a thread nests its calls of X2C_EnterMutex

ASSUME MutexAssumption == Nobody \notin Thread /\ MaxDepth \in Nat

VARIABLES
  lock,     \* the thread that has m->mutex, the pthread mutex
  thread,   \* m->thread
  count,    \* m->count
  at,       \* where a thread is in X2C_EnterMutex or X2C_ExitMutex
  depth     \* history: the calls of X2C_EnterMutex a thread has not undone

mutexVars == <<lock, thread, count, at, depth>>

Places == {"outside", "compare", "lock", "own", "count", "mine", "unlock"}

Goto(t, from, to) == at[t] = from /\ at' = [at EXCEPT ![t] = to]
Nested(t, d) == depth' = [depth EXCEPT ![t] = @ + d] /\ count' = count + d
-----------------------------------------------------------------------------
(* X2C_EnterMutex *)

\* m->count > 0: only then m->thread is looked at.
EnterMutex(t) ==
  /\ depth[t] < MaxDepth
  /\ Goto(t, "outside", IF count > 0 THEN "compare" ELSE "lock")
  /\ UNCHANGED <<lock, thread, count, depth>>

\* pthread_equal (self, m->thread): then it is a nested call.
Compare(t) ==
  /\ IF thread = t THEN Goto(t, "compare", "outside") /\ Nested(t, 1)
     ELSE Goto(t, "compare", "lock") /\ UNCHANGED <<count, depth>>
  /\ UNCHANGED <<lock, thread>>

Lock(t) ==
  /\ lock = Nobody /\ Goto(t, "lock", "own") /\ lock' = t
  /\ UNCHANGED <<thread, count, depth>>

\* Mutant: m->count is written before m->thread.
TakeCountFirst(t) ==
  \/ /\ Goto(t, "own", "count") /\ count' = count + 1
     /\ UNCHANGED <<lock, thread, depth>>
  \/ /\ Goto(t, "count", "outside") /\ thread' = t
     /\ depth' = [depth EXCEPT ![t] = @ + 1]
     /\ UNCHANGED <<lock, count>>

\* The owner is written before the count.
Take(t) ==
  \/ /\ Goto(t, "own", "count") /\ thread' = t
     /\ UNCHANGED <<lock, count, depth>>
  \/ /\ Goto(t, "count", "outside") /\ Nested(t, 1)
     /\ UNCHANGED <<lock, thread>>
-----------------------------------------------------------------------------
(* X2C_ExitMutex; a thread that does not have the mutex gets EPERM. *)

ExitMutex(t) ==
  /\ Goto(t, "outside", IF count > 0 THEN "mine" ELSE "outside")
  /\ UNCHANGED <<lock, thread, count, depth>>

Mine(t) ==
  /\ IF thread = t
     THEN /\ Goto(t, "mine", IF count > 1 THEN "outside" ELSE "unlock")
          /\ Nested(t, -1)
     ELSE Goto(t, "mine", "outside") /\ UNCHANGED <<count, depth>>
  /\ UNCHANGED <<lock, thread>>

Unlock(t) ==
  /\ Goto(t, "unlock", "outside") /\ lock' = Nobody
  /\ UNCHANGED <<thread, count, depth>>
-----------------------------------------------------------------------------
\* X2C_CreateMutex leaves m->thread uninitialised.
MutexInit ==
  /\ lock = Nobody /\ thread \in Thread \cup {Nobody} /\ count = 0
  /\ at = [t \in Thread |-> "outside"]
  /\ depth = [t \in Thread |-> 0]

\* What goes on inside a call once it has begun.
MutexStep(t) == Compare(t) \/ Lock(t) \/ Take(t) \/ Mine(t) \/ Unlock(t)

MutexNext == \E t \in Thread : EnterMutex(t) \/ ExitMutex(t) \/ MutexStep(t)

MutexSpec == MutexInit /\ [][MutexNext]_mutexVars
-----------------------------------------------------------------------------
MutexTypeOK ==
  /\ lock \in Thread \cup {Nobody}
  /\ thread \in Thread \cup {Nobody}
  /\ count \in Nat
  /\ at \in [Thread -> Places]
  /\ depth \in [Thread -> Nat]

\* Between its outermost X2C_EnterMutex and the X2C_ExitMutex that undoes it a
\* thread has the pthread mutex, and so nobody else is there: what EnterMutex and
\* ExitMutex read without it is never another thread's, nor an old owner's.
MutualExclusion ==
  \A t \in Thread : depth[t] > 0 => lock = t /\ thread = t /\ count = depth[t]
=============================================================================
