------------------------------ MODULE Processes ------------------------------
(***************************************************************************)
(* The single-threaded scheduler of the ISO Modula-2 library:              *)
(* lib/src/isoimp/Processes.mod, lines 231-559 (the variant compiled when  *)
(* MULTITHREAD is off), over COROUTINES.TRANSFER.                          *)
(*                                                                         *)
(* The circular list linked by fwd/bck is the sequence `ring': ring[1] is  *)
(* prs.current, ring[i+1] is ring[i]^.fwd and the last element is          *)
(* prs.current^.bck; prs.current = NIL is the empty sequence.  A coroutine *)
(* is named by the process it was created for, so `running = p' says that  *)
(* the machine executes the stack of p, whatever prs.current is, and       *)
(* `body[p]' is the coroutine the descriptor of p says to resume.          *)
(*                                                                         *)
(* One call of an operation is one action.  It includes what the resumed   *)
(* coroutine does on its way out of the call it was parked in: disposing   *)
(* of the corpse (GoNext) and reading info (Switch).  Library assertions   *)
(* are compiled in (lib.prj sets assert+ in the debug builds): a failing   *)
(* one ends the program with outcome "assert".                             *)
(***************************************************************************)
EXTENDS Integers, SequencesExt

CONSTANTS
  Process,      \* the process descriptors (and their coroutines)
  Main,         \* the descriptor made by init for the main program
  Nil,          \* NIL
  Sources,      \* event sources, all within HIGH(events)
  Urgency,      \* the urgency each process is created with
  FreeHandOff   \* may clients call SuspendMeAndActivate and Switch at any time?

ASSUME ProcessAssumption ==
  /\ Main \in Process
  /\ Nil \notin Process
  /\ Urgency \in [Process -> Int]
  /\ FreeHandOff \in BOOLEAN
  /\ IsFiniteSet(Sources)

VARIABLES
  ring,      \* the ready processes, current first
  running,   \* the coroutine that executes
  state,     \* ProcessDesc.state; "none" before Create, "freed" after DISPOSE
  body,      \* ProcessDesc.body
  info,      \* ProcessDesc.info
  at,        \* where a parked coroutine will continue
  corpse,    \* the stopped process whose workspace is still to be released
  events,    \* events: the process attached to each source
  hcnt,      \* the number of attached sources
  outcome    \* how far the program has come

vars == <<ring, running, state, body, info, at, corpse, events, hcnt, outcome>>

Running == outcome = "running"
Me == Head(ring)
Ready(p) == state[p] = "ready"
Activatable(p) == state[p] \in {"passive", "waiting"} /\ at[p] # "stopped"
-----------------------------------------------------------------------------
(* The ready ring *)

\* Urgency of the j-th element of r; position Len(r)+1 is the current again.
UrgencyAt(r, j) == Urgency[r[IF j = Len(r) + 1 THEN 1 ELSE j]]

\* Tie's first loop: walk back from the current while the urgency does not rise.
MinIndex(r) ==
  Min({m \in 2..Len(r) + 1 :
         \A j \in m..Len(r) : UrgencyAt(r, j) <= UrgencyAt(r, j + 1)})

\* Mutant of TieIndex: insert behind the current, not in front of it.
TieIndexNext(r, p) == 2

\* The position of l, the element Tie inserts p in front of.
TieIndex(r, p) ==
  LET n == Len(r)
      m == MinIndex(r)
  IN  IF Urgency[p] = UrgencyAt(r, 1) THEN n + 1
      ELSE IF Urgency[p] >= UrgencyAt(r, m - 1) \/ Urgency[p] <= UrgencyAt(r, m)
      THEN m
      ELSE Min({j \in m..n + 1 : UrgencyAt(r, j) >= Urgency[p]})

\* The two assertions of Tie about max, min and the current.
TieAsserts(r, p) ==
  r # <<>> /\ Urgency[p] # UrgencyAt(r, 1) =>
    LET m == MinIndex(r)
    IN  /\ UrgencyAt(r, m - 1) >= UrgencyAt(r, m)
        /\ UrgencyAt(r, m - 1) = UrgencyAt(r, 1)

\* Mutants of TieRing: preempt on equal urgency; never preempt.
TieRingEager(r, p) ==
  IF r # <<>> /\ Urgency[r[1]] <= Urgency[p] THEN <<p>> \o r ELSE Append(r, p)
TieRingLazy(r, p) == Append(r, p)

TieRing(r, p) ==
  IF r = <<>> THEN <<p>>
  ELSE LET k == TieIndex(r, p)
           tied == InsertAt(r, k, p)
       IN  IF Urgency[r[1]] < Urgency[p]
           THEN SubSeq(tied, k, Len(tied)) \o SubSeq(tied, 1, k - 1)
           ELSE tied

\* Mutants of TieBody and TieInfo: save the coroutine in the wrong descriptor;
\* leave info alone.
TieBodyOther(r, b) == IF r = <<>> THEN b ELSE [b EXCEPT ![Last(r)] = running]
TieInfoKept(p) == info

\* Tie also stores the executing coroutine in the descriptor of the current.
TieBody(r, b) == IF r = <<>> THEN b ELSE [b EXCEPT ![Head(r)] = running]
TieInfo(p) == [info EXCEPT ![p] = Nil]
TieState(st, p) == [st EXCEPT ![p] = "ready"]

\* Mutants of UnTieRing and UnTieState: not unlinked; not marked passive.
UnTieRingLinked(r) == Append(Tail(r), Head(r))
UnTieStateReady(st) == state

\* UnTie takes the current out of the ring and saves its coroutine.
UnTieRing(r) == Tail(r)
UnTieBody == [body EXCEPT ![Me] = running]
UnTieState(st) == [state EXCEPT ![Me] = st]
-----------------------------------------------------------------------------
(* Transfer of control *)

\* The coroutine running is parked at k and the current of r is resumed.  With
\* an empty ring GoNext listens for interrupts for ever.  A coroutine resumed
\* inside GoNext disposes of the corpse; a fresh one starts in execBody and does not.
GoNext(k, r, st, b, i, dead) ==
  LET parked == [at EXCEPT ![running] = k]
      c == b[Head(r)]
  IN  /\ ring' = r
      /\ body' = b
      /\ info' = i
      /\ IF r = <<>>
         THEN /\ outcome' = "spinning"
              /\ at' = parked
              /\ state' = st
              /\ corpse' = dead
              /\ UNCHANGED running
         ELSE /\ running' = c
              /\ at' = [parked EXCEPT ![c] = "live"]
              /\ outcome' = IF parked[c] = "stopped" THEN "crash" ELSE outcome
              /\ IF parked[c] = "fresh" \/ dead = Nil
                 THEN state' = st /\ corpse' = dead
                 ELSE state' = [st EXCEPT ![dead] = "freed"] /\ corpse' = Nil

\* A library assertion: the program ends where it fails.
Checked(cond, step) ==
  IF cond THEN step
  ELSE /\ outcome' = "assert"
       /\ UNCHANGED <<ring, running, state, body, info, at, corpse>>
-----------------------------------------------------------------------------
(* The operations.  Me is prs.current, as in the code. *)

Create(p) ==
  /\ Running
  /\ state[p] = "none"
  /\ state' = [state EXCEPT ![p] = "passive"]
  /\ UNCHANGED <<ring, running, body, info, at, corpse, events, hcnt, outcome>>

\* Activate of a ready process returns at once: a stuttering step, not listed.
Activate(p) ==
  /\ Running
  /\ Activatable(p)
  /\ Checked(TieAsserts(ring, p),
            GoNext("call", TieRing(ring, p), TieState(state, p),
                   TieBody(ring, body), TieInfo(p), corpse))
  /\ UNCHANGED <<events, hcnt>>

Start(p) ==
  /\ Running
  /\ state[p] = "none"
  /\ Checked(TieAsserts(ring, p),
            GoNext("call", TieRing(ring, p), TieState(state, p),
                   TieBody(ring, body), TieInfo(p), corpse))
  /\ UNCHANGED <<events, hcnt>>

\* Mutant of StopMe: the corpse is taken after UnTie, when current has changed.
StopMeLate ==
  /\ Running
  /\ Len(ring) > 1
  /\ GoNext("stopped", UnTieRing(ring), UnTieState("passive"), UnTieBody, info,
            Head(UnTieRing(ring)))
  /\ UNCHANGED <<events, hcnt>>

\* The last ready process halts the program when it stops.
StopMe ==
  /\ Running
  /\ \A e \in Sources : events[e] # Me
  /\ IF Len(ring) = 1
     THEN /\ outcome' = "halted"
          /\ UNCHANGED <<ring, running, state, body, info, at, corpse>>
     ELSE GoNext("stopped", UnTieRing(ring), UnTieState("passive"), UnTieBody, info, Me)
  /\ UNCHANGED <<events, hcnt>>

\* The last ready process gets passiveProgram and stays ready, unless some source
\* is attached.
SuspendMe ==
  /\ Running
  /\ IF Len(ring) = 1 /\ hcnt = 0
     THEN /\ info' = TieInfo(Me)
          /\ body' = UnTieBody
          /\ UNCHANGED <<ring, running, state, at, corpse, outcome>>
     ELSE GoNext("call", UnTieRing(ring), UnTieState("passive"), UnTieBody, info, corpse)
  /\ UNCHANGED <<events, hcnt>>

Wait ==
  /\ Running
  /\ GoNext("call", UnTieRing(ring), UnTieState("waiting"), UnTieBody, info, corpse)
  /\ UNCHANGED <<events, hcnt>>

\* UnTie; Tie(p); GoNext.  Tie runs with the next ready process as the current,
\* but still on the stack of the caller.
SuspendMeAndActivate(p) ==
  /\ Running
  /\ Activatable(p) \/ p = Me
  /\ FreeHandOff \/ Len(ring) = 1
  /\ LET rest == UnTieRing(ring)
     IN  Checked(TieAsserts(rest, p),
                GoNext("call", TieRing(rest, p), TieState(UnTieState("passive"), p),
                       TieBody(rest, UnTieBody), TieInfo(p), corpse))
  /\ UNCHANGED <<events, hcnt>>

\* Only a caller that is not more urgent than p leaves the ring.  The parameter
\* passed to p is the identity of the caller; what the call returns to a process
\* resumed in Switch is info of the current (see SwitchResult).
Switch(p) ==
  /\ Running
  /\ Activatable(p)
  /\ FreeHandOff \/ (Len(ring) = 1 /\ Urgency[Me] <= Urgency[p])
  /\ LET leaves == Urgency[Me] <= Urgency[p]
         rest == IF leaves THEN UnTieRing(ring) ELSE ring
         st == IF leaves THEN UnTieState("passive") ELSE state
         b == IF leaves THEN UnTieBody ELSE body
     IN  Checked(TieAsserts(rest, p),
                GoNext("switch", TieRing(rest, p), TieState(st, p), TieBody(rest, b),
                       [info EXCEPT ![p] = running], corpse))
  /\ UNCHANGED <<events, hcnt>>

Attach(e) ==
  /\ Running
  /\ hcnt' = IF events[e] = Nil THEN hcnt + 1 ELSE hcnt
  /\ events' = [events EXCEPT ![e] = Me]
  /\ UNCHANGED <<ring, running, state, body, info, at, corpse, outcome>>

Detach(e) ==
  /\ Running
  /\ hcnt' = IF events[e] # Nil THEN hcnt - 1 ELSE hcnt
  /\ events' = [events EXCEPT ![e] = Nil]
  /\ UNCHANGED <<ring, running, state, body, info, at, corpse, outcome>>
-----------------------------------------------------------------------------
Init ==
  /\ ring = <<Main>>
  /\ running = Main
  /\ state = [p \in Process |-> IF p = Main THEN "ready" ELSE "none"]
  /\ body = [p \in Process |-> p]
  /\ info = [p \in Process |-> Nil]
  /\ at = [p \in Process |-> IF p = Main THEN "live" ELSE "fresh"]
  /\ corpse = Nil
  /\ events = [e \in Sources |-> Nil]
  /\ hcnt = 0
  /\ outcome = "running"

Next ==
  \/ \E p \in Process : \/ Create(p)
                        \/ Start(p)
                        \/ Activate(p)
                        \/ SuspendMeAndActivate(p)
                        \/ Switch(p)
  \/ StopMe
  \/ SuspendMe
  \/ Wait
  \/ \E e \in Sources : Attach(e) \/ Detach(e)

Spec == Init /\ [][Next]_vars
-----------------------------------------------------------------------------
(* Properties *)

\* Every variable keeps to the values its Modula-2 counterpart can take.
TypeOK ==
  /\ ring \in Seq(Process)
  /\ running \in Process
  /\ state \in [Process -> {"none", "passive", "waiting", "ready", "freed"}]
  /\ body \in [Process -> Process]
  /\ info \in [Process -> Process \cup {Nil}]
  /\ at \in [Process -> {"fresh", "live", "call", "switch", "stopped"}]
  /\ corpse \in Process \cup {Nil}
  /\ events \in [Sources -> Process \cup {Nil}]
  /\ hcnt \in Nat
  /\ outcome \in {"running", "spinning", "halted", "assert", "crash"}

\* The ring of Tie and UnTie and the state fields are two records of the same
\* set: a process is st_ready exactly when it is linked, and linked once.
ReadyRing == IsInjective(ring) /\ ToSet(ring) = {p \in Process : Ready(p)}

\* Me() (Processes.mod 516) is the identity of the process that executes.
MeIsCaller == Running => ring # <<>> /\ running = Me

\* Besides, every other process that may be resumed is resumed on its own stack:
\* the body fields that Tie, UnTie and Create write never get crossed.
RunsAsMe ==
  /\ MeIsCaller
  /\ Running => \A p \in Process \ {Me} :
                  state[p] # "freed" /\ at[p] # "stopped" => body[p] = p

\* No ready process is more urgent than the one that executes (Tie and UnTie).
MostUrgentRuns ==
  Running => \A p \in Process : Ready(p) => Urgency[p] <= Urgency[running]

\* No library assertion fails and no coroutine is resumed after its StopMe.
NoFailure == outcome \notin {"assert", "crash"}

\* GoNext disposes of a process only when nothing can resume it any more: the
\* corpse and the disposed processes neither execute nor are linked, and no
\* descriptor that may be scheduled holds their coroutine.
NothingRunsFreed ==
  \A p \in Process :
    p = corpse \/ state[p] = "freed" =>
      /\ at[p] = "stopped" /\ running # p /\ ~Ready(p)
      /\ \A q \in Process \ {p} : state[q] # "freed" => body[q] # p

\* hcnt, which decides between passiveProgram and listening, counts the attached
\* sources whatever the order of Attach, Detach and re-attachment.
SourcesCounted == hcnt = Cardinality({e \in Sources : events[e] # Nil})

Ahead(r, p) == {q \in ToSet(r) : \E i, j \in 1..Len(r) : r[i] = q /\ r[j] = p /\ i < j}
Alike(S) == \A p, q \in S : Urgency[p] = Urgency[q]

\* While the ready processes have one urgency the ring is a queue: nobody gets
\* ahead of a process that is already waiting for its turn.
NoOvertaking ==
  [][Alike(ToSet(ring) \cup ToSet(ring')) =>
       \A p \in ToSet(ring) \ {Me} : Ahead(ring', p) \subseteq Ahead(ring, p)]_vars

\* Switch returns what the process that switched back passed, and NIL when the
\* caller was resumed through Activate or SuspendMeAndActivate instead.
SwitchResult ==
  [][\A c \in Process :
       at[c] = "switch" /\ running' = c =>
         info'[Head(ring')] = IF at'[running] = "switch" THEN running ELSE Nil]_vars

\* At most one process is more urgent than the others, which are all alike.
AtMostOneAbove ==
  \E top \in Process : \A p, q \in Process \ {top} :
    Urgency[p] = Urgency[q] /\ Urgency[p] <= Urgency[top]

\* What every operation relies on when it is called and leaves behind, as long as
\* SuspendMeAndActivate and Switch are not called while others are ready: the ring
\* agrees with the states, each descriptor holds its own coroutine, the current
\* process executes, and what has stopped stays stopped.
SchedulerInv ==
  /\ ReadyRing
  /\ Running => ring # <<>> /\ running = Me /\ at[running] = "live"
  /\ at[running] # "stopped"
  /\ outcome # "crash"
  /\ \A p \in Process :
       /\ body[p] = p
       /\ at[p] = "stopped" => ~Ready(p)
       /\ state[p] = "freed" \/ p = corpse => at[p] = "stopped"
       /\ state[p] = "none" => at[p] = "fresh"

\* The processes as Processes.def describes them.
statusOf ==
  [p \in Process |-> IF state[p] = "none" THEN "absent"
                     ELSE IF at[p] = "stopped" THEN "terminated"
                     ELSE IF p = running /\ outcome # "spinning" THEN "current"
                     ELSE state[p]]
ISO == INSTANCE ISOProcesses WITH status <- statusOf
ImplementsISO == ISO!Spec

\* The running process keeps calling the library until it gives up the processor:
\* the processes of a cooperative program do.
Fairness == WF_vars(StopMe \/ SuspendMe \/ Wait)
FairSpec == Spec /\ Fairness

\* A ready process gets the processor (or the program ends).
ReadyRuns ==
  \A p \in Process : Ready(p) ~> (running = p \/ ~Running)
=============================================================================
