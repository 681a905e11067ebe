---------------------------- MODULE ThreadsProofs ----------------------------
(***************************************************************************)
(* Processes on threads, for any number of them and any counts.            *)
(*                                                                         *)
(* First the recursive mutex: X2C_EnterMutex and X2C_ExitMutex exclude one *)
(* another for any depth of nesting, although they read m->count and       *)
(* m->thread without the lock.  MutualExclusion alone is not inductive:    *)
(* what matters is what a thread may still conclude from a count it has    *)
(* read before.  A thread that goes on to compare the owner, after it has  *)
(* seen a count above zero, is either the owner or not the thread that     *)
(* m->thread names (NoOldOwner).                                           *)
(*                                                                         *)
(* Then the program: what it does with plock is what module Mutex says, so *)
(* that the mutex excludes and iterations over the ring see one ring; no   *)
(* Activate is lost, nothing else ends SuspendMe, and no Release is lost.  *)
(***************************************************************************)
EXTENDS Threads, FiniteSetTheorems, TLAPS

-----------------------------------------------------------------------------
(* The mutex *)

\* The places where a thread has the pthread mutex and the count is zero.
Inside == {"own", "count", "unlock"}

\* Who has the pthread mutex, and what m->thread and m->count are while he has.
Owners ==
  /\ \A t \in Thread : at[t] \in Inside => lock = t /\ count = 0 /\ depth[t] = 0
  /\ \A t \in Thread : at[t] = "count" => thread = t
  /\ count > 0 => lock \in Thread /\ depth[lock] = count
  /\ lock = Nobody => count = 0

\* A thread that has seen a count above zero does not take itself for an old owner.
NoOldOwner == \A t \in Thread : at[t] \in {"compare", "mine"} => depth[t] > 0 \/ thread # t

\* The inductive invariant.
MutexInv == MutexTypeOK /\ MutualExclusion /\ Owners /\ NoOldOwner

\* No thread but t changes its place or its depth in a step of t.
LEMMA OnlyMine ==
  ASSUME MutexTypeOK, NEW t \in Thread, NEW from, NEW to, Goto(t, from, to), to \in Places
  PROVE  /\ at' \in [Thread -> Places] /\ at[t] = from /\ at'[t] = to
         /\ \A u \in Thread : u # t => at'[u] = at[u]
BY DEF MutexTypeOK, Goto

LEMMA NestedStep ==
  ASSUME MutexTypeOK, NEW t \in Thread, NEW d \in {-1, 1}, Nested(t, d), depth[t] + d >= 0,
         count + d >= 0
  PROVE  /\ depth' \in [Thread -> Nat] /\ depth'[t] = depth[t] + d
         /\ count' \in Nat /\ count' = count + d
         /\ \A u \in Thread : u # t => depth'[u] = depth[u]
BY DEF MutexTypeOK, Nested

\* The mutex is created without an owner.
LEMMA MutexInitInv == MutexInit => MutexInv
BY MutexAssumption DEF MutexInit, MutexInv, MutexTypeOK, MutualExclusion, Owners, NoOldOwner, Places, Inside

\* Every step of EnterMutex and ExitMutex keeps the invariant.
LEMMA MutexStepInv == MutexInv /\ [MutexNext]_mutexVars => MutexInv'
<1> SUFFICES ASSUME MutexInv, [MutexNext]_mutexVars PROVE MutexInv'
  OBVIOUS
<1> USE MutexAssumption DEF MutexInv
<1>0. CASE UNCHANGED mutexVars
  BY <1>0 DEF mutexVars, MutexTypeOK, MutualExclusion, Owners, NoOldOwner
<1>1. ASSUME NEW t \in Thread, EnterMutex(t) PROVE MutexInv'
  <2>1. PICK to \in {"compare", "lock"} : Goto(t, "outside", to) /\ (to = "compare" => count > 0)
    BY <1>1 DEF EnterMutex
  <2>2. /\ at' \in [Thread -> Places] /\ at[t] = "outside" /\ at'[t] = to
        /\ \A u \in Thread : u # t => at'[u] = at[u]
    BY <2>1, OnlyMine DEF Places
  <2>3. UNCHANGED <<lock, thread, count, depth>>
    BY <1>1 DEF EnterMutex
  <2>4. MutexTypeOK' /\ MutualExclusion'
    BY <2>2, <2>3 DEF MutexTypeOK, MutualExclusion
  <2>5. Owners'
    BY <2>1, <2>2, <2>3 DEF Owners, Inside
  <2>6. to = "compare" => depth[t] > 0 \/ thread # t
    BY <2>1 DEF Owners, MutualExclusion, MutexTypeOK
  <2>7. NoOldOwner'
    BY <2>1, <2>2, <2>3, <2>6 DEF NoOldOwner
  <2> QED BY <2>4, <2>5, <2>7
<1>2. ASSUME NEW t \in Thread, Compare(t) PROVE MutexInv'
  <2>1. CASE thread = t
    <3>1. Goto(t, "compare", "outside") /\ Nested(t, 1) /\ UNCHANGED <<lock, thread>>
      BY <1>2, <2>1 DEF Compare
    <3>2. /\ at' \in [Thread -> Places] /\ at[t] = "compare" /\ at'[t] = "outside"
          /\ \A u \in Thread : u # t => at'[u] = at[u]
      BY <3>1, OnlyMine DEF Places
    <3>3. depth[t] > 0 /\ lock = t /\ count = depth[t]
      BY <2>1, <3>2 DEF NoOldOwner, MutualExclusion
    <3>4. /\ depth' \in [Thread -> Nat] /\ depth'[t] = depth[t] + 1
          /\ count' \in Nat /\ count' = count + 1
          /\ \A u \in Thread : u # t => depth'[u] = depth[u]
      BY <3>1, <3>3, NestedStep DEF MutexTypeOK
    <3>5. \A u \in Thread : u # t => depth[u] = 0
      BY <3>3 DEF MutualExclusion, MutexTypeOK
    <3>6. MutexTypeOK' /\ MutualExclusion'
      BY <2>1, <3>1, <3>2, <3>3, <3>4, <3>5 DEF MutexTypeOK, MutualExclusion
    <3>7. \A u \in Thread : at[u] \notin Inside
      BY <3>3 DEF Owners, MutexTypeOK
    <3>8. Owners'
      BY <3>1, <3>2, <3>3, <3>4, <3>7 DEF Owners, Inside, MutexTypeOK
    <3>9. NoOldOwner'
      BY <2>1, <3>1, <3>2, <3>4 DEF NoOldOwner, MutexTypeOK
    <3> QED BY <3>6, <3>8, <3>9
  <2>2. CASE thread # t
    <3>1. Goto(t, "compare", "lock") /\ UNCHANGED <<lock, thread, count, depth>>
      BY <1>2, <2>2 DEF Compare
    <3>2. /\ at' \in [Thread -> Places] /\ at[t] = "compare" /\ at'[t] = "lock"
          /\ \A u \in Thread : u # t => at'[u] = at[u]
      BY <3>1, OnlyMine DEF Places
    <3> QED BY <3>1, <3>2 DEF MutexTypeOK, MutualExclusion, Owners, NoOldOwner, Inside
  <2> QED BY <2>1, <2>2
<1>3. ASSUME NEW t \in Thread, Lock(t) PROVE MutexInv'
  <2>1. lock = Nobody /\ Goto(t, "lock", "own") /\ lock' = t /\ UNCHANGED <<thread, count, depth>>
    BY <1>3 DEF Lock
  <2>2. /\ at' \in [Thread -> Places] /\ at[t] = "lock" /\ at'[t] = "own"
        /\ \A u \in Thread : u # t => at'[u] = at[u]
    BY <2>1, OnlyMine DEF Places
  <2>3. count = 0 /\ \A u \in Thread : depth[u] = 0 /\ at[u] \notin Inside
    BY <2>1 DEF Owners, MutualExclusion, MutexTypeOK
  <2> QED BY <2>1, <2>2, <2>3 DEF MutexTypeOK, MutualExclusion, Owners, NoOldOwner, Inside
<1>4. ASSUME NEW t \in Thread, Take(t) PROVE MutexInv'
  <2>1. CASE Goto(t, "own", "count") /\ thread' = t /\ UNCHANGED <<lock, count, depth>>
    <3>1. /\ at' \in [Thread -> Places] /\ at[t] = "own" /\ at'[t] = "count"
          /\ \A u \in Thread : u # t => at'[u] = at[u]
      BY <2>1, OnlyMine DEF Places
    <3>2. lock = t /\ count = 0 /\ \A u \in Thread : depth[u] = 0 /\ (u # t => at[u] \notin Inside)
      BY <3>1 DEF Owners, Inside, MutualExclusion, MutexTypeOK
    <3> QED BY <2>1, <3>1, <3>2 DEF MutexTypeOK, MutualExclusion, Owners, NoOldOwner, Inside
  <2>2. CASE Goto(t, "count", "outside") /\ Nested(t, 1) /\ UNCHANGED <<lock, thread>>
    <3>1. /\ at' \in [Thread -> Places] /\ at[t] = "count" /\ at'[t] = "outside"
          /\ \A u \in Thread : u # t => at'[u] = at[u]
      BY <2>2, OnlyMine DEF Places
    <3>2. lock = t /\ thread = t /\ count = 0
          /\ \A u \in Thread : depth[u] = 0 /\ (u # t => at[u] \notin Inside)
      BY <3>1 DEF Owners, Inside, MutualExclusion, MutexTypeOK
    <3>3. /\ depth' \in [Thread -> Nat] /\ depth'[t] = 1
          /\ count' \in Nat /\ count' = 1
          /\ \A u \in Thread : u # t => depth'[u] = depth[u]
      BY <2>2, <3>2, NestedStep
    <3> QED BY <2>2, <3>1, <3>2, <3>3
         DEF MutexTypeOK, MutualExclusion, Owners, NoOldOwner, Inside
  <2> QED BY <1>4, <2>1, <2>2 DEF Take
<1>5. ASSUME NEW t \in Thread, ExitMutex(t) PROVE MutexInv'
  <2>1. PICK to \in {"mine", "outside"} : Goto(t, "outside", to) /\ (to = "mine" => count > 0)
    BY <1>5 DEF ExitMutex
  <2>2. /\ at' \in [Thread -> Places] /\ at[t] = "outside" /\ at'[t] = to
        /\ \A u \in Thread : u # t => at'[u] = at[u]
    BY <2>1, OnlyMine DEF Places
  <2>3. UNCHANGED <<lock, thread, count, depth>>
    BY <1>5 DEF ExitMutex
  <2>4. MutexTypeOK' /\ MutualExclusion'
    BY <2>2, <2>3 DEF MutexTypeOK, MutualExclusion
  <2>5. Owners'
    BY <2>1, <2>2, <2>3 DEF Owners, Inside
  <2>6. to = "mine" => depth[t] > 0 \/ thread # t
    BY <2>1 DEF Owners, MutualExclusion, MutexTypeOK
  <2>7. NoOldOwner'
    BY <2>1, <2>2, <2>3, <2>6 DEF NoOldOwner
  <2> QED BY <2>4, <2>5, <2>7
<1>6. ASSUME NEW t \in Thread, Mine(t) PROVE MutexInv'
  <2>1. CASE thread = t
    <3>1. PICK to \in {"outside", "unlock"} :
            Goto(t, "mine", to) /\ (to = "outside" <=> count > 1)
      BY <1>6, <2>1 DEF Mine
    <3>2. Nested(t, -1) /\ UNCHANGED <<lock, thread>>
      BY <1>6, <2>1 DEF Mine
    <3>3. /\ at' \in [Thread -> Places] /\ at[t] = "mine" /\ at'[t] = to
          /\ \A u \in Thread : u # t => at'[u] = at[u]
      BY <3>1, OnlyMine DEF Places
    <3>4. depth[t] > 0 /\ lock = t /\ count = depth[t]
      BY <2>1, <3>3 DEF NoOldOwner, MutualExclusion
    <3>5. /\ depth' \in [Thread -> Nat] /\ depth'[t] = depth[t] - 1
          /\ count' \in Nat /\ count' = count - 1
          /\ \A u \in Thread : u # t => depth'[u] = depth[u]
      BY <3>2, <3>4, NestedStep DEF MutexTypeOK
    <3>6. \A u \in Thread : (u # t => depth[u] = 0) /\ at[u] \notin Inside
      BY <3>4 DEF MutualExclusion, Owners, MutexTypeOK
    <3>7. MutexTypeOK' /\ MutualExclusion'
      BY <2>1, <3>2, <3>3, <3>4, <3>5, <3>6 DEF MutexTypeOK, MutualExclusion
    <3>8. Owners'
      BY <3>1, <3>2, <3>3, <3>4, <3>5, <3>6 DEF Owners, Inside, MutexTypeOK
    <3>9. NoOldOwner'
      BY <2>1, <3>1, <3>2, <3>3, <3>5 DEF NoOldOwner, MutexTypeOK
    <3> QED BY <3>7, <3>8, <3>9
  <2>2. CASE thread # t
    <3>1. Goto(t, "mine", "outside") /\ UNCHANGED <<lock, thread, count, depth>>
      BY <1>6, <2>2 DEF Mine
    <3>2. /\ at' \in [Thread -> Places] /\ at[t] = "mine" /\ at'[t] = "outside"
          /\ \A u \in Thread : u # t => at'[u] = at[u]
      BY <3>1, OnlyMine DEF Places
    <3> QED BY <3>1, <3>2 DEF MutexTypeOK, MutualExclusion, Owners, NoOldOwner, Inside
  <2> QED BY <2>1, <2>2
<1>7. ASSUME NEW t \in Thread, Unlock(t) PROVE MutexInv'
  <2>1. Goto(t, "unlock", "outside") /\ lock' = Nobody /\ UNCHANGED <<thread, count, depth>>
    BY <1>7 DEF Unlock
  <2>2. /\ at' \in [Thread -> Places] /\ at[t] = "unlock" /\ at'[t] = "outside"
        /\ \A u \in Thread : u # t => at'[u] = at[u]
    BY <2>1, OnlyMine DEF Places
  <2>3. count = 0 /\ \A u \in Thread : depth[u] = 0 /\ (u # t => at[u] \notin Inside)
    BY <2>2 DEF Owners, Inside, MutualExclusion, MutexTypeOK
  <2> QED BY <2>1, <2>2, <2>3 DEF MutexTypeOK, MutualExclusion, Owners, NoOldOwner, Inside
<1> QED BY <1>0, <1>1, <1>2, <1>3, <1>4, <1>5, <1>6, <1>7 DEF MutexNext, MutexStep

LEMMA MutexInvariant == MutexSpec => []MutexInv
BY MutexInitInv, MutexStepInv, PTL DEF MutexSpec

\* X2C_EnterMutex and X2C_ExitMutex keep the fields of the mutex in their ranges.
THEOREM MutexTyped == MutexSpec => []MutexTypeOK
<1>1. MutexInv => MutexTypeOK
  BY DEF MutexInv
<1> QED BY <1>1, MutexInvariant, PTL

\* Whatever the interleaving of their unlocked reads and their writes, no two
\* threads are between X2C_EnterMutex and X2C_ExitMutex, and the nesting is counted.
THEOREM MutexExcludes == MutexSpec => []MutualExclusion
<1>1. MutexInv => MutualExclusion
  BY DEF MutexInv
<1> QED BY <1>1, MutexInvariant, PTL

-----------------------------------------------------------------------------
(* The mutex within the program *)

\* X2C_InitThreads creates plock as X2C_CreateMutex does.
LEMMA InitMutex == Init => MutexInit
BY DEF Init

\* A step of the program makes at most one access to plock.
LEMMA StepMutex == [\E t \in Thread : Step(t)]_allVars => [MutexNext]_mutexVars
<1> SUFFICES ASSUME [\E t \in Thread : Step(t)]_allVars PROVE MutexNext \/ UNCHANGED mutexVars
  OBVIOUS
<1>1. CASE UNCHANGED allVars
  BY <1>1 DEF allVars
<1>2. ASSUME NEW t \in Thread, Step(t) PROVE MutexNext \/ UNCHANGED mutexVars
  <2>1. CASE MutexCall(t)
    BY <2>1 DEF MutexCall, Calls, MutexNext
  <2>2. CASE Linked(t) \/ Started(t) \/ Ended(t)
    BY <2>2 DEF Linked, Started, Ended
  <2>3. CASE \/ Acquire(t) \/ WakeSpuriously(t) \/ Claim(t) \/ CondClaim(t) \/ Release(t)
             \/ StopMe(t) \/ SuspendMe(t) \/ HandedOff(t)
    BY <2>3 DEF Acquire, WakeSpuriously, Claim, CondClaim, Release, StopMe, SuspendMe, HandedOff
  <2>4. CASE \E u \in Thread : Create(t, u) \/ Activate(t, u) \/ HandOff(t, u)
    BY <2>4 DEF Create, Activate, HandOff
  <2> QED BY <1>2, <2>1, <2>2, <2>3, <2>4 DEF Step
<1> QED BY <1>1, <1>2

\* The program uses the recursive mutex as its specification allows.
THEOREM UsesMutex == Spec => MutexSpec
BY InitMutex, StepMutex, PTL DEF Spec, MutexSpec

LEMMA ProgramMutexInv == Spec => []MutexInv
BY UsesMutex, MutexInvariant, PTL

\* In the program too, whoever is between X2C_EnterMutex (plock) and the
\* X2C_ExitMutex that undoes it is there alone.
THEOREM ProgramExcludes == Spec => []MutualExclusion
BY UsesMutex, MutexExcludes, PTL

\* Only X2C_RegisterThread and X2C_UnregisterThread change the ring, with plock.
LEMMA RingStep ==
  ASSUME [\E t \in Thread : Step(t)]_allVars, ring' # ring
  PROVE  \E t \in Thread : depth[t] = 1 /\ pc[t] \in {"register", "unregister"}
<1>1. PICK t \in Thread : Step(t)
  BY DEF allVars, threadVars
<1>2. Linked(t)
  <2>1. ~MutexCall(t)
    BY DEF MutexCall, threadVars
  <2>2. ~Started(t) /\ ~Ended(t)
    BY DEF Started, Ended, SetBoolSemaphore
  <2>3. ~(\/ Acquire(t) \/ WakeSpuriously(t) \/ Claim(t) \/ CondClaim(t) \/ Release(t)
          \/ StopMe(t) \/ SuspendMe(t) \/ HandedOff(t))
    BY DEF Acquire, WakeSpuriously, Claim, CondClaim, Release, StopMe, SuspendMe, HandedOff
  <2>4. ~\E u \in Thread : Create(t, u) \/ Activate(t, u) \/ HandOff(t, u)
    BY DEF Create, Activate, HandOff, SetBoolSemaphore
  <2> QED BY <1>1, <2>1, <2>2, <2>3, <2>4 DEF Step
<1> QED BY <1>2 DEF Linked, Link

\* Handler, the collector and whoever else goes through the ring between
\* X2C_StartIterateThreads and its end finds the same processes all the time.
THEOREM IterationsAreSafe == Spec => IterationsSeeOneRing
<1> DEFINE Same == \A t \in Thread : Iterates(t) /\ Iterates(t)' => ring' = ring
<1>1. MutexInv /\ [\E t \in Thread : Step(t)]_allVars => Same
  <2> SUFFICES ASSUME MutexInv, [\E t \in Thread : Step(t)]_allVars,
                      NEW t \in Thread, Iterates(t), ring' # ring
               PROVE  FALSE
    OBVIOUS
  <2>1. PICK u \in Thread : depth[u] = 1 /\ pc[u] \in {"register", "unregister"}
    BY RingStep
  <2>2. lock = u /\ lock = t
    BY <2>1 DEF MutexInv, MutualExclusion, Iterates
  <2> QED BY <2>1, <2>2 DEF Iterates
<1>2. MutexInv /\ [\E t \in Thread : Step(t)]_allVars => [Same]_allVars
  BY <1>1
<1> QED BY <1>2, ProgramMutexInv, PTL DEF Spec, IterationsSeeOneRing
-----------------------------------------------------------------------------
(* Semaphores and the control of a process *)

LEMMA SemaphoreFacts ==
  /\ Counting \in Semaphore
  /\ \A t \in Thread : Control(t) \in Semaphore /\ Control1(t) \in Semaphore
  /\ \A t \in Thread : Control(t) # Counting /\ Control1(t) # Counting
  /\ \A t, u \in Thread : Control(t) # Control1(u)
  /\ \A t, u \in Thread : (Control(t) = Control(u) => t = u) /\ (Control1(t) = Control1(u) => t = u)
BY DEF Counting, Control, Control1, Semaphore

\* Nobody but t and those who are woken goes on.
LEMMA NextStep ==
  ASSUME NEW t \in Thread, NEW W, NEW p \in Does, pc \in [Thread -> Does], Next(t, W, p)
  PROVE  /\ pc' \in [Thread -> Does] /\ pc'[t] = p
         /\ \A u \in Thread : u # t /\ u \in W => pc'[u] = "woken"
         /\ \A u \in Thread : u # t /\ u \notin W => pc'[u] = pc[u]
BY DEF Next, Does, Acquiring

ControlTypeOK ==
  /\ pc \in [Thread -> Does]
  /\ on \in [Thread -> Semaphore]
  /\ state \in [Semaphore -> 0..MaxCount]
  /\ live \subseteq Semaphore
  /\ ring \subseteq Thread
  /\ activated \in [Thread -> {"no", "yes", "early"}]

\* A process that has not been created, or is not in the ring yet, has not been
\* activated; of the latter the creator still waits to hear.
NotYet(t) == state[Control(t)] = 0 /\ state[Control1(t)] = 0
Unborn == \A t \in Thread : pc[t] = "none" => NotYet(t) /\ Control(t) \notin live
Newborn ==
  \A t \in Thread : pc[t] \in Registering =>
    NotYet(t) /\ \E c \in Thread : pc[c] \in Acquiring /\ on[c] = Control1(t)

\* An Activate of a passive process opens its semaphore, and nobody closes it
\* before the process has gone on.
OpenWhenActivated ==
  \A t \in Thread : activated[t] = "yes" => Passive(t) /\ state[Control(t)] > 0 /\ pc[t] # "asleep"
OnlyActivatedOpen ==
  \A t \in Thread : Passive(t) /\ state[Control(t)] > 0 => activated[t] # "no"

\* The inductive invariant.
ControlInv == ControlTypeOK /\ Unborn /\ Newborn /\ OpenWhenActivated /\ OnlyActivatedOpen

LEMMA ControlInit == Init => ControlInv
BY SemaphoreFacts, ThreadsAssumption
   DEF Init, ControlInv, ControlTypeOK, Unborn, Newborn, OpenWhenActivated, OnlyActivatedOpen,
       NotYet, Passive, Does, Acquiring, Registering, Ending

\* Every operation keeps it.
LEMMA ControlStep == ControlInv /\ [\E t \in Thread : Step(t)]_allVars => ControlInv'
<1> SUFFICES ASSUME ControlInv, [\E t \in Thread : Step(t)]_allVars PROVE ControlInv'
  OBVIOUS
<1> USE SemaphoreFacts, ThreadsAssumption
<1> USE DEF ControlInv, ControlTypeOK, Unborn, Newborn, OpenWhenActivated, OnlyActivatedOpen,
            NotYet, Passive
<1>0. CASE UNCHANGED threadVars
  BY <1>0 DEF threadVars
<1>1. ASSUME NEW t \in Thread, Linked(t) PROVE ControlInv'
  <2>1. PICK p \in {"registered", "unregistered"} :
          Next(t, {}, p) /\ (IF p = "registered" THEN pc[t] = "register" ELSE pc[t] = "unregister")
    BY <1>1 DEF Linked, Link
  <2>2. /\ pc' \in [Thread -> Does] /\ pc'[t] = p
        /\ \A u \in Thread : u # t => pc'[u] = pc[u]
    BY <2>1, NextStep DEF Does, Registering, Ending
  <2>3. UNCHANGED <<on, state, live, activated>> /\ ring' \subseteq Thread
    BY <1>1 DEF Linked, Link
  <2> QED BY <2>1, <2>2, <2>3 DEF Registering, Acquiring
<1>2. ASSUME NEW t \in Thread, Started(t) PROVE ControlInv'
  <2>1. /\ pc[t] = "registered" /\ Next(t, Asleep(Control1(t)), "acquire")
        /\ state' = [state EXCEPT ![Control1(t)] = 1] /\ UNCHANGED <<ring, on, live, activated>>
    BY <1>2 DEF Started, SetBoolSemaphore
  <2>2. /\ pc' \in [Thread -> Does] /\ pc'[t] = "acquire"
        /\ \A u \in Thread : u # t => pc'[u] = pc[u] \/ (pc[u] = "asleep" /\ pc'[u] = "woken")
    BY <2>1, NextStep DEF Does, Acquiring, Asleep
  <2> QED BY <2>1, <2>2 DEF Registering, Acquiring
<1>3. ASSUME NEW t \in Thread, Ended(t) PROVE ControlInv'
  <2>1. /\ pc[t] = "unregistered" /\ Next(t, {}, "ended")
        /\ live' \subseteq live /\ UNCHANGED <<on, state, ring, activated>>
    BY <1>3 DEF Ended
  <2>2. /\ pc' \in [Thread -> Does] /\ pc'[t] = "ended"
        /\ \A u \in Thread : u # t => pc'[u] = pc[u]
    BY <2>1, NextStep DEF Does
  <2> QED BY <2>1, <2>2 DEF Registering, Acquiring
<1>4. ASSUME NEW t \in Thread, Acquire(t) PROVE ControlInv'
  <2>1. CASE state[on[t]] = 0 /\ Sleep(t)
    <3>1. /\ pc[t] \in {"acquire", "woken"} /\ Next(t, {}, "asleep")
          /\ UNCHANGED <<on, state, live, activated, ring>>
      BY <1>4, <2>1 DEF Acquire, Sleep
    <3>2. /\ pc' \in [Thread -> Does] /\ pc'[t] = "asleep"
          /\ \A u \in Thread : u # t => pc'[u] = pc[u]
      BY <3>1, NextStep DEF Does, Acquiring
    <3> QED BY <2>1, <3>1, <3>2 DEF Registering, Acquiring
  <2>2. CASE state[on[t]] > 0 /\ Acquired(t, on[t])
    <3>1. /\ pc[t] \in {"acquire", "woken"} /\ Next(t, {}, "run")
          /\ state' = IF on[t] = Counting THEN [state EXCEPT ![Counting] = @ - 1] ELSE state
          /\ live' \subseteq live
          /\ on' = [on EXCEPT ![t] = Control(t)]
          /\ activated' = [activated EXCEPT ![t] = "no"] /\ ring' = ring
      BY <1>4, <2>2 DEF Acquire, Acquired
    <3>2. /\ pc' \in [Thread -> Does] /\ pc'[t] = "run"
          /\ \A u \in Thread : u # t => pc'[u] = pc[u]
      BY <3>1, NextStep DEF Does
    <3>3. /\ state' \in [Semaphore -> 0..MaxCount]
          /\ \A u \in Thread : state'[Control(u)] = state[Control(u)] /\ state'[Control1(u)] = state[Control1(u)]
      BY <2>2, <3>1
    <3>4. \A u \in Thread : pc[u] \in Registering => on[t] # Control1(u)
      BY <2>2
    <3>5. /\ on' \in [Thread -> Semaphore] /\ \A u \in Thread : u # t => on'[u] = on[u]
          /\ activated' \in [Thread -> {"no", "yes", "early"}] /\ activated'[t] = "no"
          /\ \A u \in Thread : u # t => activated'[u] = activated[u]
      BY <3>1
    <3>6. ControlTypeOK' /\ Unborn'
      BY <3>1, <3>2, <3>3, <3>5
    <3>7. Newborn'
      <4> SUFFICES ASSUME NEW u \in Thread, pc'[u] \in Registering
                   PROVE  NotYet(u)' /\ \E c \in Thread : pc'[c] \in Acquiring /\ on'[c] = Control1(u)
        OBVIOUS
      <4>1. pc[u] \in Registering
        BY <3>2 DEF Registering
      <4>2. PICK c \in Thread : pc[c] \in Acquiring /\ on[c] = Control1(u)
        BY <4>1
      <4>3. c # t
        BY <3>4, <4>1, <4>2
      <4> QED BY <3>2, <3>3, <3>5, <4>1, <4>2, <4>3
    <3>8. OpenWhenActivated' /\ OnlyActivatedOpen'
      BY <3>2, <3>3, <3>5 DEF Acquiring
    <3> QED BY <3>6, <3>7, <3>8
  <2> QED BY <1>4, <2>1, <2>2 DEF Acquire
<1>5. ASSUME NEW t \in Thread, WakeSpuriously(t) PROVE ControlInv'
  <2>1. pc[t] = "asleep" /\ Next(t, {}, "woken") /\ UNCHANGED <<on, state, live, ring, activated>>
    BY <1>5 DEF WakeSpuriously
  <2>2. /\ pc' \in [Thread -> Does] /\ pc'[t] = "woken"
        /\ \A u \in Thread : u # t => pc'[u] = pc[u]
    BY <2>1, NextStep DEF Does, Acquiring
  <2> QED BY <2>1, <2>2 DEF Registering, Acquiring
<1>6. ASSUME NEW t \in Thread, Claim(t) PROVE ControlInv'
  <2>1. /\ pc[t] = "run" /\ Next(t, {}, "acquire") /\ on' = [on EXCEPT ![t] = Counting]
        /\ UNCHANGED <<state, live, ring, activated>>
    BY <1>6 DEF Claim, Free, Runs
  <2>2. /\ pc' \in [Thread -> Does] /\ pc'[t] = "acquire"
        /\ \A u \in Thread : u # t => pc'[u] = pc[u]
    BY <2>1, NextStep DEF Does, Acquiring
  <2> QED BY <2>1, <2>2 DEF Registering, Acquiring
<1>7. ASSUME NEW t \in Thread, CondClaim(t) PROVE ControlInv'
  <2>1. /\ state[Counting] > 0 /\ state' = [state EXCEPT ![Counting] = @ - 1]
        /\ UNCHANGED <<pc, on, live, ring, activated>>
    BY <1>7 DEF CondClaim
  <2>2. /\ state' \in [Semaphore -> 0..MaxCount]
        /\ \A u \in Thread : state'[Control(u)] = state[Control(u)] /\ state'[Control1(u)] = state[Control1(u)]
    BY <2>1
  <2> QED BY <2>1, <2>2
<1>8. ASSUME NEW t \in Thread, Release(t) PROVE ControlInv'
  <2>1. /\ state' \in [Semaphore -> 0..MaxCount] /\ UNCHANGED <<on, live, ring, activated>>
        /\ \A u \in Thread : state'[Control(u)] = state[Control(u)] /\ state'[Control1(u)] = state[Control1(u)]
    BY <1>8 DEF Release
  <2>2. /\ pc' \in [Thread -> Does]
        /\ \A u \in Thread : pc'[u] = pc[u] \/ (pc[u] = "asleep" /\ pc'[u] = "woken")
    <3>1. CASE UNCHANGED pc
      BY <3>1
    <3>2. ASSUME NEW w \in Asleep(Counting), Next(w, {}, "woken")
          PROVE  /\ pc' \in [Thread -> Does]
                 /\ \A u \in Thread : pc'[u] = pc[u] \/ (pc[u] = "asleep" /\ pc'[u] = "woken")
      BY <3>2, NextStep DEF Asleep, Does, Acquiring
    <3> QED BY <1>8, <3>1, <3>2 DEF Release
  <2> QED BY <2>1, <2>2 DEF Registering, Acquiring
<1>9. ASSUME NEW t \in Thread, StopMe(t) PROVE ControlInv'
  <2>1. pc[t] = "run" /\ Next(t, {}, "unregister") /\ UNCHANGED <<on, state, live, ring, activated>>
    BY <1>9 DEF StopMe, Free, Runs
  <2>2. /\ pc' \in [Thread -> Does] /\ pc'[t] = "unregister"
        /\ \A u \in Thread : u # t => pc'[u] = pc[u]
    BY <2>1, NextStep DEF Does, Ending
  <2> QED BY <2>1, <2>2 DEF Registering, Acquiring
<1>10. ASSUME NEW t \in Thread, SuspendMe(t) \/ HandedOff(t) PROVE ControlInv'
  <2>1. /\ pc[t] \in {"run", "suspend"} /\ Next(t, {}, "acquire")
        /\ state' = [state EXCEPT ![Control(t)] = 0] /\ on' = [on EXCEPT ![t] = Control(t)]
        /\ UNCHANGED <<live, ring, activated>>
    BY <1>10 DEF SuspendMe, HandedOff, Suspend, ResetBoolSemaphore, Free, Runs
  <2>2. /\ pc' \in [Thread -> Does] /\ pc'[t] = "acquire"
        /\ \A u \in Thread : u # t => pc'[u] = pc[u]
    BY <2>1, NextStep DEF Does, Acquiring
  <2>3. /\ state' \in [Semaphore -> 0..MaxCount]
        /\ \A u \in Thread : state'[Control1(u)] = state[Control1(u)]
        /\ \A u \in Thread : state'[Control(u)] = IF u = t THEN 0 ELSE state[Control(u)]
    BY <2>1
  <2>4. activated[t] # "yes"
    BY <2>1 DEF Acquiring
  <2>5. on' \in [Thread -> Semaphore] /\ \A u \in Thread : u # t => on'[u] = on[u]
    BY <2>1
  <2>6. ControlTypeOK' /\ Unborn'
    BY <2>1, <2>2, <2>3, <2>5
  <2>7. Newborn'
    BY <2>1, <2>2, <2>3, <2>5 DEF Registering, Acquiring
  <2>8. OpenWhenActivated' /\ OnlyActivatedOpen'
    BY <2>1, <2>2, <2>3, <2>4, <2>5 DEF Acquiring
  <2> QED BY <2>6, <2>7, <2>8
<1>11. ASSUME NEW t \in Thread, NEW u \in Thread, Create(t, u) PROVE ControlInv'
  <2>1. /\ pc[t] = "run" /\ pc[u] = "none" /\ u # t
        /\ pc' = [pc EXCEPT ![t] = "acquire", ![u] = "register"]
        /\ on' = [on EXCEPT ![t] = Control1(u), ![u] = Control(u)]
        /\ live' = live \cup {Control(u), Control1(u)}
        /\ UNCHANGED <<state, ring, activated>>
    BY <1>11 DEF Create, Free, Runs
  <2>2. /\ pc' \in [Thread -> Does] /\ pc'[t] = "acquire" /\ pc'[u] = "register"
        /\ \A v \in Thread : v # t /\ v # u => pc'[v] = pc[v]
    BY <2>1 DEF Does, Acquiring, Registering
  <2>3. /\ on' \in [Thread -> Semaphore] /\ on'[t] = Control1(u) /\ on'[u] = Control(u)
        /\ \A v \in Thread : v # t /\ v # u => on'[v] = on[v]
    BY <2>1
  <2> QED BY <2>1, <2>2, <2>3 DEF Registering, Acquiring
<1>12. ASSUME NEW t \in Thread, NEW u \in Thread, Activate(t, u) \/ HandOff(t, u) PROVE ControlInv'
  <2>1. PICK p \in {"run", "suspend"} : /\ pc[t] = "run" /\ Next(t, Asleep(Control(u)), p)
    BY <1>12 DEF Activate, HandOff, SetBoolSemaphore, Free, Runs
  <2>2. /\ state' = [state EXCEPT ![Control(u)] = 1]
        /\ activated' = [activated EXCEPT ![u] = Activated(u)] /\ UNCHANGED <<ring, on, live>>
    BY <1>12 DEF Activate, HandOff, SetBoolSemaphore
  <2>3. /\ pc' \in [Thread -> Does] /\ pc'[t] = p
        /\ \A v \in Thread : v # t => pc'[v] = pc[v] \/ (pc[v] = "asleep" /\ pc'[v] = "woken")
        /\ \A v \in Thread : v # t /\ v \in Asleep(Control(u)) => pc'[v] = "woken"
    BY <2>1, NextStep DEF Does, Acquiring, Asleep
  <2>4. pc[u] # "none" /\ pc[u] \notin Registering
    BY <1>12 DEF Activate, HandOff, Activatable, Created
  <2>5. /\ state' \in [Semaphore -> 0..MaxCount]
        /\ \A v \in Thread : state'[Control1(v)] = state[Control1(v)]
        /\ \A v \in Thread : state'[Control(v)] = IF v = u THEN 1 ELSE state[Control(v)]
    BY <2>2
  <2>6. /\ Activated(u) \in {"no", "yes", "early"}
        /\ Passive(u) => Activated(u) = "yes"
        /\ Activated(u) = "yes" => Passive(u)
    BY DEF Activated, Acquiring
  <2>7. /\ activated' \in [Thread -> {"no", "yes", "early"}] /\ activated'[u] = Activated(u)
        /\ \A v \in Thread : v # u => activated'[v] = activated[v]
    BY <2>2, <2>6
  <2>8. ControlTypeOK' /\ Unborn'
    BY <2>2, <2>3, <2>4, <2>5, <2>7
  <2>9. Newborn'
    BY <2>1, <2>2, <2>3, <2>4, <2>5 DEF Registering, Acquiring
  <2>10. OpenWhenActivated'
    BY <2>1, <2>2, <2>3, <2>5, <2>6, <2>7 DEF Acquiring, Asleep
  <2>11. OnlyActivatedOpen'
    BY <2>1, <2>2, <2>3, <2>5, <2>6, <2>7 DEF Acquiring
  <2> QED BY <2>8, <2>9, <2>10, <2>11
<1>13. ASSUME NEW t \in Thread, MutexCall(t) PROVE UNCHANGED threadVars
  BY <1>13 DEF MutexCall
<1> QED
  BY <1>0, <1>1, <1>2, <1>3, <1>4, <1>5, <1>6, <1>7, <1>8, <1>9, <1>10, <1>11, <1>12, <1>13
  DEF Step, allVars, threadVars

LEMMA ControlInvariant == Spec => []ControlInv
BY ControlInit, ControlStep, PTL DEF Spec

\* Whatever processes do, states, semaphores and the fields of plock keep their ranges.
THEOREM ProgramTyped == Spec => []TypeOK
<1>1. ControlInv /\ MutexInv => TypeOK
  BY DEF ControlInv, ControlTypeOK, MutexInv, TypeOK
<1> QED BY <1>1, ControlInvariant, ProgramMutexInv, PTL

\* Processes.Activate is never lost: a process that was passive when somebody
\* activated it is not asleep, whatever else happens.
THEOREM ActivationsAreKept == Spec => []ActivationsKept
<1>1. ControlInv => ActivationsKept
  BY DEF ControlInv, OpenWhenActivated, ActivationsKept, Asleep
<1> QED BY <1>1, ControlInvariant, PTL

\* A passive process goes on only by itself, when its semaphore is open.
LEMMA PassiveStep ==
  ASSUME ControlInv, NEW s \in Thread, Step(s), NEW t \in Thread, Passive(t), pc'[t] = "run"
  PROVE  state[Control(t)] > 0
<1> USE DEF ControlInv, ControlTypeOK
<1>1. pc[t] \in Acquiring /\ on[t] = Control(t)
  BY DEF Passive
<1>2. pc'[t] # pc[t] /\ ~(pc[t] = "asleep" /\ pc'[t] = "woken")
  BY <1>1 DEF Acquiring
<1>3. ASSUME NEW p \in Does, NEW W \in SUBSET Thread, Next(s, W, p), \A w \in W : pc[w] = "asleep"
      PROVE  s = t /\ p = "run"
  BY <1>2, <1>3, NextStep
<1>4. ~MutexCall(s)
  BY <1>2 DEF MutexCall, threadVars
<1>5. ~Linked(s) /\ ~Started(s) /\ ~Ended(s)
  BY <1>1, <1>3 DEF Linked, Link, Started, Ended, SetBoolSemaphore, Asleep, Does, Acquiring, Registering, Ending
<1>6. ~WakeSpuriously(s) /\ ~Claim(s) /\ ~StopMe(s) /\ ~SuspendMe(s) /\ ~HandedOff(s)
  BY <1>3 DEF WakeSpuriously, Claim, StopMe, SuspendMe, HandedOff, Suspend, Does, Acquiring, Ending
<1>7. ~CondClaim(s) /\ ~Release(s)
  BY <1>2, NextStep DEF CondClaim, Release, Asleep, Does, Acquiring
<1>8. ASSUME NEW u \in Thread PROVE ~Create(s, u) /\ ~Activate(s, u) /\ ~HandOff(s, u)
  <2>1. ~Create(s, u)
    BY <1>2 DEF Create
  <2>2. ~Activate(s, u)
    BY <1>1, <1>3 DEF Activate, SetBoolSemaphore, Free, Runs, Asleep, Does, Acquiring
  <2>3. ~HandOff(s, u)
    BY <1>3 DEF HandOff, SetBoolSemaphore, Asleep, Does
  <2> QED BY <2>1, <2>2, <2>3
<1>9. Acquire(s)
  BY <1>4, <1>5, <1>6, <1>7, <1>8 DEF Step
<1>10. state[on[s]] > 0 /\ Next(s, {}, "run")
  BY <1>3, <1>9 DEF Acquire, Acquired, Sleep, Does, Acquiring
<1> QED BY <1>1, <1>3, <1>10 DEF Does

\* Processes.SuspendMe returns, and a new process begins, only after an Activate:
\* the semaphore is reset first, and a wake-up for no reason looks at it again.
THEOREM SuspensionsLast == Spec => OnlyActivatedReturn
<1> DEFINE Only == \A t \in Thread : Passive(t) /\ pc'[t] = "run" => activated[t] # "no"
<1>1. ControlInv /\ [\E t \in Thread : Step(t)]_allVars => [Only]_allVars
  <2> SUFFICES ASSUME ControlInv, NEW s \in Thread, Step(s),
                      NEW t \in Thread, Passive(t), pc'[t] = "run"
               PROVE  activated[t] # "no"
    BY DEF allVars, threadVars
  <2> QED BY PassiveStep DEF ControlInv, OnlyActivatedOpen
<1> QED BY <1>1, ControlInvariant, PTL DEF Spec, OnlyActivatedReturn
-----------------------------------------------------------------------------
(* Permits of the counting semaphore *)

\* The claimants that sleep, and those that have been woken and have not looked yet.
Claims(t, p) == pc[t] = p /\ on[t] = Counting
Sleepers == {t \in Thread : Claims(t, "asleep")}
Woken == {t \in Thread : Claims(t, "woken")}

PermitsInv == IsFiniteSet(Woken) /\ (Sleepers # {} => state[Counting] <= Cardinality(Woken))

\* The invariant speaks of the sets of WakeupsSuffice.
LEMMA PermitsSuffice == PermitsInv => WakeupsSuffice
<1>1. Asleep(Counting) = Sleepers /\ Waiters(Counting) \ Asleep(Counting) = Woken
  BY DEF Asleep, Waiters, Sleepers, Woken, Claims
<1> QED BY <1>1 DEF PermitsInv, WakeupsSuffice

\* Nobody is woken at the beginning.
LEMMA PermitsInit == Init => PermitsInv
<1> SUFFICES ASSUME Init PROVE PermitsInv
  OBVIOUS
<1>1. Woken = {} /\ Sleepers = {}
  BY DEF Init, Woken, Sleepers, Claims
<1> QED BY <1>1, FS_EmptySet DEF PermitsInv

\* Steps of others, and permits that are taken without waiting.
LEMMA SameClaimants ==
  ASSUME PermitsInv, ControlTypeOK, ControlTypeOK',
         \A u \in Thread : \A p \in {"asleep", "woken"} : Claims(u, p)' <=> Claims(u, p),
         state'[Counting] <= state[Counting]
  PROVE  PermitsInv'
<1>1. Woken' = Woken /\ Sleepers' = Sleepers
  BY DEF Woken, Sleepers
<1>2. Cardinality(Woken) \in Nat
  BY FS_CardinalityType DEF PermitsInv
<1>3. state[Counting] \in Int /\ state'[Counting] \in Int
  BY SemaphoreFacts, ThreadsAssumption DEF ControlTypeOK
<1> QED BY <1>1, <1>2, <1>3 DEF PermitsInv

\* A claimant is woken, and there is at most one permit more.
LEMMA OneWoken ==
  ASSUME PermitsInv, ControlTypeOK, ControlTypeOK',
         NEW w \in Thread, Claims(w, "asleep"), Claims(w, "woken")',
         \A u \in Thread \ {w} : \A p \in {"asleep", "woken"} : Claims(u, p)' <=> Claims(u, p),
         state'[Counting] <= state[Counting] + 1
  PROVE  PermitsInv'
<1>1. Woken' = Woken \cup {w} /\ w \notin Woken /\ w \in Sleepers
  BY DEF Woken, Sleepers, Claims
<1>2. IsFiniteSet(Woken') /\ Cardinality(Woken') = Cardinality(Woken) + 1 /\ Cardinality(Woken) \in Nat
  BY <1>1, FS_AddElement, FS_CardinalityType DEF PermitsInv
<1>3. state[Counting] \in Int /\ state'[Counting] \in Int
  BY SemaphoreFacts, ThreadsAssumption DEF ControlTypeOK
<1> QED BY <1>1, <1>2, <1>3 DEF PermitsInv

\* A claimant looks: it takes a permit, or there is none.
LEMMA OneLooks ==
  ASSUME PermitsInv, ControlTypeOK, ControlTypeOK',
         NEW t \in Thread, ~Claims(t, "asleep"), ~Claims(t, "woken")',
         \A u \in Thread \ {t} : \A p \in {"asleep", "woken"} : Claims(u, p)' <=> Claims(u, p),
         \/ state'[Counting] = 0
         \/ ~Claims(t, "asleep")' /\ state'[Counting] = state[Counting] - 1
  PROVE  PermitsInv'
<1>1. Woken' = Woken \ {t}
  BY DEF Woken, Claims
<1>2. /\ IsFiniteSet(Woken') /\ Cardinality(Woken') \in Nat /\ Cardinality(Woken) \in Nat
      /\ Cardinality(Woken) <= Cardinality(Woken') + 1
  <2>1. IsFiniteSet(Woken)
    BY DEF PermitsInv
  <2>2. /\ IsFiniteSet(Woken \ {t})
        /\ Cardinality(Woken \ {t}) = IF t \in Woken THEN Cardinality(Woken) - 1 ELSE Cardinality(Woken)
    BY <2>1, FS_RemoveElement
  <2>3. Cardinality(Woken) \in Nat /\ Cardinality(Woken \ {t}) \in Nat
    BY <2>1, <2>2, FS_CardinalityType
  <2>4. Cardinality(Woken) <= Cardinality(Woken \ {t}) + 1
    <3>1. CASE t \in Woken
      BY <2>2, <2>3, <3>1
    <3>2. CASE t \notin Woken
      BY <2>2, <2>3, <3>2
    <3> QED BY <3>1, <3>2
  <2> QED BY <1>1, <2>2, <2>3, <2>4
<1>3. state[Counting] \in Int /\ state'[Counting] \in Int
  BY SemaphoreFacts, ThreadsAssumption DEF ControlTypeOK
<1>4. CASE state'[Counting] = 0
  BY <1>2, <1>4 DEF PermitsInv
<1>5. CASE ~Claims(t, "asleep")' /\ state'[Counting] = state[Counting] - 1
  <2>1. Sleepers' = Sleepers
    BY <1>5 DEF Sleepers
  <2> QED BY <1>2, <1>3, <1>5, <2>1 DEF PermitsInv
<1> QED BY <1>4, <1>5

LEMMA PermitsStep ==
  ControlInv /\ ControlInv' /\ PermitsInv /\ [\E t \in Thread : Step(t)]_allVars => PermitsInv'
<1> SUFFICES ASSUME ControlInv, ControlInv', PermitsInv, [\E t \in Thread : Step(t)]_allVars
             PROVE  PermitsInv'
  OBVIOUS
<1> USE SemaphoreFacts
<1>a. ControlTypeOK /\ ControlTypeOK'
  BY DEF ControlInv
<1>b. state[Counting] \in Int
  BY <1>a, ThreadsAssumption DEF ControlTypeOK
<1>0. CASE UNCHANGED threadVars
  BY <1>0, <1>a, <1>b, SameClaimants DEF threadVars, Claims
<1>1. ASSUME NEW t \in Thread, NEW p \in Does, NEW W, Next(t, W, p),
             \A u \in W : pc[u] = "asleep" /\ on[u] # Counting,
             p \notin {"asleep", "woken"}, ~Claims(t, "asleep"), ~Claims(t, "woken"),
             \A u \in Thread \ {t} : on'[u] = on[u], state'[Counting] <= state[Counting]
      PROVE  PermitsInv'
  <2>1. /\ pc'[t] = p /\ \A u \in Thread : u # t /\ u \in W => pc'[u] = "woken"
        /\ \A u \in Thread : u # t /\ u \notin W => pc'[u] = pc[u]
    BY <1>1, <1>a, NextStep DEF ControlTypeOK
  <2>2. \A u \in Thread : \A q \in {"asleep", "woken"} : Claims(u, q)' <=> Claims(u, q)
    BY <1>1, <2>1 DEF Claims
  <2> QED BY <1>1, <1>a, <2>2, SameClaimants
<1>2. ASSUME NEW t \in Thread, Linked(t) \/ Ended(t) \/ StopMe(t) \/ Claim(t) PROVE PermitsInv'
  <2>1. PICK p \in {"registered", "unregistered", "ended", "unregister", "acquire"} : Next(t, {}, p)
    BY <1>2 DEF Linked, Link, Ended, StopMe, Claim
  <2>2. state' = state /\ \A u \in Thread \ {t} : on'[u] = on[u]
    BY <1>2, <1>a DEF Linked, Ended, StopMe, Claim, ControlTypeOK
  <2>3. pc[t] \in {"register", "unregister", "unregistered", "run"}
    BY <1>2 DEF Linked, Link, Ended, StopMe, Claim, Free, Runs
  <2> QED BY <1>1, <1>b, <2>1, <2>2, <2>3 DEF Claims, Does, Acquiring, Registering, Ending
<1>3. ASSUME NEW t \in Thread, Started(t) PROVE PermitsInv'
  <2>1. /\ pc[t] = "registered" /\ Next(t, Asleep(Control1(t)), "acquire")
        /\ state' = [state EXCEPT ![Control1(t)] = 1] /\ UNCHANGED on
    BY <1>3 DEF Started, SetBoolSemaphore
  <2>2. state'[Counting] = state[Counting]
    BY <2>1, <1>a DEF ControlTypeOK
  <2>3. \A u \in Asleep(Control1(t)) : pc[u] = "asleep" /\ on[u] # Counting
    BY DEF Asleep
  <2> QED BY <1>1, <1>b, <2>1, <2>2, <2>3 DEF Claims, Does, Acquiring
<1>4. ASSUME NEW t \in Thread, SuspendMe(t) \/ HandedOff(t) PROVE PermitsInv'
  <2>1. /\ pc[t] \in {"run", "suspend"} /\ Next(t, {}, "acquire")
        /\ state' = [state EXCEPT ![Control(t)] = 0] /\ on' = [on EXCEPT ![t] = Control(t)]
    BY <1>4 DEF SuspendMe, HandedOff, Suspend, ResetBoolSemaphore, Free, Runs
  <2>2. state'[Counting] = state[Counting] /\ \A u \in Thread \ {t} : on'[u] = on[u]
    BY <2>1, <1>a DEF ControlTypeOK
  <2> QED BY <1>1, <1>b, <2>1, <2>2 DEF Claims, Does, Acquiring
<1>5. ASSUME NEW t \in Thread, NEW u \in Thread, Activate(t, u) \/ HandOff(t, u) PROVE PermitsInv'
  <2>1. PICK p \in {"run", "suspend"} : pc[t] = "run" /\ Next(t, Asleep(Control(u)), p)
    BY <1>5 DEF Activate, HandOff, SetBoolSemaphore, Free, Runs
  <2>2. state' = [state EXCEPT ![Control(u)] = 1] /\ UNCHANGED on
    BY <1>5 DEF Activate, HandOff, SetBoolSemaphore
  <2>3. state'[Counting] = state[Counting]
    BY <2>2, <1>a DEF ControlTypeOK
  <2>4. \A v \in Asleep(Control(u)) : pc[v] = "asleep" /\ on[v] # Counting
    BY DEF Asleep
  <2> QED BY <1>1, <1>b, <2>1, <2>2, <2>3, <2>4 DEF Claims, Does
<1>6. ASSUME NEW t \in Thread, NEW u \in Thread, Create(t, u) PROVE PermitsInv'
  <2>1. /\ pc[t] = "run" /\ pc[u] = "none" /\ u # t /\ state' = state
        /\ pc' = [pc EXCEPT ![t] = "acquire", ![u] = "register"]
        /\ on' = [on EXCEPT ![t] = Control1(u), ![u] = Control(u)]
    BY <1>6 DEF Create, Free, Runs
  <2>2. \A v \in Thread : \A q \in {"asleep", "woken"} : Claims(v, q)' <=> Claims(v, q)
    BY <2>1, <1>a DEF Claims, ControlTypeOK
  <2> QED BY <1>a, <1>b, <2>1, <2>2, SameClaimants
<1>7. ASSUME NEW t \in Thread, CondClaim(t) PROVE PermitsInv'
  <2>1. state'[Counting] = state[Counting] - 1 /\ UNCHANGED <<pc, on>>
    BY <1>7, <1>a DEF CondClaim, ControlTypeOK
  <2>2. \A v \in Thread : \A q \in {"asleep", "woken"} : Claims(v, q)' <=> Claims(v, q)
    BY <2>1 DEF Claims
  <2> QED BY <1>a, <1>b, <2>1, <2>2, SameClaimants
<1>8. ASSUME NEW t \in Thread, WakeSpuriously(t) PROVE PermitsInv'
  <2>1. pc[t] = "asleep" /\ Next(t, {}, "woken") /\ UNCHANGED <<on, state>>
    BY <1>8 DEF WakeSpuriously
  <2>2. pc'[t] = "woken" /\ \A u \in Thread : u # t => pc'[u] = pc[u]
    BY <2>1, <1>a, NextStep DEF Does, Acquiring, ControlTypeOK
  <2>3. CASE on[t] = Counting
    BY <1>a, <1>b, <2>1, <2>2, <2>3, OneWoken DEF Claims
  <2>4. CASE on[t] # Counting
    BY <1>a, <1>b, <2>1, <2>2, <2>4, SameClaimants DEF Claims
  <2> QED BY <2>3, <2>4
<1>9. ASSUME NEW t \in Thread, Release(t) PROVE PermitsInv'
  <2>1. UNCHANGED on /\ state'[Counting] <= state[Counting] + 1
    BY <1>9, <1>a, <1>b, ThreadsAssumption DEF Release, ControlTypeOK
  <2>2. CASE Sleepers = {} /\ UNCHANGED pc
    <3>1. Woken' = Woken /\ Sleepers' = {}
      BY <2>1, <2>2 DEF Woken, Sleepers, Claims
    <3> QED BY <3>1 DEF PermitsInv
  <2>3. ASSUME NEW w \in Asleep(Counting), Next(w, {}, "woken") PROVE PermitsInv'
    <3>1. w \in Thread /\ pc[w] = "asleep" /\ on[w] = Counting
      BY DEF Asleep
    <3>2. pc'[w] = "woken" /\ \A u \in Thread : u # w => pc'[u] = pc[u]
      BY <2>3, <3>1, <1>a, NextStep DEF Does, Acquiring, ControlTypeOK
    <3> QED BY <1>a, <2>1, <3>1, <3>2, OneWoken DEF Claims
  <2>4. Asleep(Counting) = {} <=> Sleepers = {}
    BY DEF Asleep, Sleepers, Claims
  <2>5. Waiters(Counting) = {} => Sleepers = {}
    BY DEF Waiters, Sleepers, Claims
  <2> QED BY <1>9, <2>2, <2>3, <2>4, <2>5 DEF Release
<1>10. ASSUME NEW t \in Thread, Acquire(t) PROVE PermitsInv'
  <2>1. pc[t] \in {"acquire", "woken"}
    BY <1>10 DEF Acquire
  <2>2. CASE state[on[t]] = 0 /\ Sleep(t)
    <3>1. Next(t, {}, "asleep") /\ UNCHANGED <<on, state>>
      BY <2>2 DEF Sleep
    <3>2. pc'[t] = "asleep" /\ \A u \in Thread : u # t => pc'[u] = pc[u]
      BY <3>1, <1>a, NextStep DEF Does, Acquiring, ControlTypeOK
    <3>3. CASE on[t] = Counting
      BY <1>a, <2>1, <2>2, <3>1, <3>2, <3>3, OneLooks DEF Claims
    <3>4. CASE on[t] # Counting
      BY <1>a, <1>b, <2>1, <3>1, <3>2, <3>4, SameClaimants DEF Claims
    <3> QED BY <3>3, <3>4
  <2>3. CASE state[on[t]] > 0 /\ Acquired(t, on[t])
    <3>1. /\ Next(t, {}, "run") /\ on' = [on EXCEPT ![t] = Control(t)]
          /\ state' = IF on[t] = Counting THEN [state EXCEPT ![Counting] = @ - 1] ELSE state
      BY <2>3 DEF Acquired
    <3>2. pc'[t] = "run" /\ \A u \in Thread : u # t => pc'[u] = pc[u] /\ on'[u] = on[u]
      BY <3>1, <1>a, NextStep DEF Does, ControlTypeOK
    <3>3. CASE on[t] = Counting
      <4>1. state'[Counting] = state[Counting] - 1
        BY <3>1, <3>3, <1>a DEF ControlTypeOK
      <4> QED BY <1>a, <2>1, <3>2, <4>1, OneLooks DEF Claims
    <3>4. CASE on[t] # Counting
      BY <1>a, <1>b, <2>1, <3>1, <3>2, <3>4, SameClaimants DEF Claims
    <3> QED BY <3>3, <3>4
  <2> QED BY <1>10, <2>2, <2>3 DEF Acquire
<1>11. ASSUME NEW t \in Thread, MutexCall(t) PROVE UNCHANGED threadVars
  BY <1>11 DEF MutexCall
<1> QED
  BY <1>0, <1>2, <1>3, <1>4, <1>5, <1>6, <1>7, <1>8, <1>9, <1>10, <1>11 DEF Step, allVars, threadVars

\* Semaphores.Release is never lost: while a claimant sleeps, every permit there is
\* has a claimant that was woken for it and has not looked yet.
THEOREM ReleasesAreKept == Spec => []WakeupsSuffice
BY ControlInvariant, PermitsInit, PermitsStep, PermitsSuffice, PTL DEF Spec
=============================================================================
