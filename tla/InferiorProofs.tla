---------------------------- MODULE InferiorProofs ----------------------------
(***************************************************************************)
(* The process layer of the debugger for any set of threads and signals    *)
(* and any behaviour of the debuggee, as long as no thread has been found  *)
(* by search (found = {}).                                                 *)
(***************************************************************************)
EXTENDS Inferior, SequenceFacts

-----------------------------------------------------------------------------
(* The invariant *)

Unborn(t)   == run[t] \in {"none", "held", "wild"}
Alive(t)    == run[t] \in {"running", "stepping", "stopped"}
Ending(t)   == run[t] \in {"zombie", "gone"}
Unreaped(t) == run[t] = "stopped" /\ report[t] # Null
Stopping    == phase \in {"stop", "kill", "first", "more"}

TypeInv == TypeOK /\ IsInjective(threads) /\ IsInjective(events)

\* A thread that nobody has attached to has done nothing the debugger sees.
UnbornInv ==
  \A t \in Threads : Unborn(t) =>
    /\ at[t] = "code" /\ pending[t] = {} /\ report[t] = Null
    /\ last_status[t] = Null /\ last_signal[t] = Null /\ sent[t] = {}
    /\ t \notin Listed /\ t \notin Queued

\* A message of a creation is about a thread nobody has attached to, and there is
\* one of each.
MsgsInv ==
  /\ \A m \in msgs : m.event = "create" => run[m.th] \in {"held", "wild"}
  /\ \A m, n \in msgs : m.event = "create" /\ n.event = "create" /\ m.th = n.th => m = n

\* The list holds all threads that live, and only threads that have ended drop out.
ListInv ==
  /\ phase = "over" => \A t \in Threads : ~Alive(t)
  /\ phase # "over" => \A t \in Threads :
       /\ Alive(t) => t \in Listed
       /\ t \in Listed => Alive(t) \/ run[t] = "zombie"
       /\ Unborn(t) \/ t \in Listed \/ t \in expired \/ last_status[t] = "exit"
       /\ t \in expired => Ending(t)
       /\ run[t] = "gone" => t \in expired

\* A status is with the kernel, in the queue, or passed on: at one of them.
StatusInv ==
  \A t \in Threads :
    /\ report[t] # Null => run[t] = "stopped" \/ run[t] = "zombie"
    /\ run[t] = "zombie" => report[t] = Null \/ report[t] = "exit"
    /\ report[t] = "exit" \/ last_status[t] = "exit" => Ending(t)
    /\ last_signal[t] # Null =>
         last_signal[t] = last_status[t] /\ t \notin Queued /\ report[t] = Null /\ ~Runs(t)
    /\ t \in Queued => last_status[t] # Null /\ report[t] = Null /\ ~Runs(t)

\* What wait_for_debug_event finds in the flags.
FlagsInv ==
  /\ current_thread_is_dead =>
       phase \in {"user", "continue", "failed"} /\ last_signaled_thread = Null /\ ~check_events_again
  /\ check_events_again =>
       /\ Frozen /\ last_status[h] = Trap
       /\ phase = "answer" => last_signaled_thread = h

\* stop_all_threads: those before cur have stopped, and without single step their
\* statuses are known.
StopInv ==
  /\ phase = "blocked" => events = <<>>
  /\ Stopping =>
       /\ events # <<>> /\ last_signaled_thread = Head(events)
       /\ cur >= 1 /\ (phase # "stop" => cur <= Len(threads))
       /\ \A i \in 1..Len(threads) : i < cur =>
            /\ run[threads[i]] \in {"stopped", "zombie"}
            /\ Unreaped(threads[i]) => singlestep
  /\ phase = "first" /\ Runs(Current) => Trap \in pending[Current]
  /\ phase = "more" => run[Current] \in {"stopped", "zombie"} /\ report[Current] = Null

\* While one thread is stepped there is no other that may stop.
Active(t) == Runs(t) \/ Unreaped(t) \/ (t \in Queued /\ last_status[t] # "exit")
StepInv ==
  (Stopping \/ phase \in {"collect", "blocked"}) /\ singlestep =>
    \A t, u \in Threads : Active(t) /\ Active(u) => t = u

\* A status nobody has read when the debugger decides is that of the thread that is
\* stepped, and nothing but the end of other threads is told meanwhile.
FrozenInv ==
  /\ StoppedWhenLooked
  /\ Frozen => \A t \in Threads : Unreaped(t) =>
       /\ singlestep /\ phase # "user" /\ ~check_events_again
       /\ phase = "continue" => run[h] # "stopped"
       /\ \A u \in Queued : last_status[u] = "exit"
       /\ \A u \in Threads : Unreaped(u) => u = t

\* Where a signal is that has been sent.
Somewhere(t, s) == s = report[t] \/ (t \in Queued /\ s = last_status[t]) \/ s = last_signal[t]
SentInv ==
  \A t \in Threads : Alive(t) => \A s \in Signals :
    /\ s \in sent[t] <=> s \in pending[t] \/ Somewhere(t, s)
    /\ ~(s \in pending[t] /\ Somewhere(t, s))

\* The first SIGTRAP that comes after Kill is the debugger's own, or merged.
HitsInv ==
  /\ HitsAreKeptUnlessMerged
  /\ phase = "first" /\ at[Current] = "bp" /\ Current \notin merged =>
       /\ ~Runs(Current)
       /\ report[Current] = Trap => Trap \in pending[Current]

\* Both levels know the same threads; only a thread that has been told to have ended
\* may have an event without being in the list.
ToldInv == ToldOfKnown /\ Queued \subseteq Listed \cup expired

Inv == /\ TypeInv /\ UnbornInv /\ MsgsInv /\ ListInv /\ StatusInv /\ FlagsInv
       /\ StopInv /\ StepInv /\ FrozenInv /\ SentInv /\ HitsInv /\ ToldInv

-----------------------------------------------------------------------------
(* The sequences *)

\* Taking the first event out.
LEMMA TailOut ==
  ASSUME NEW T, NEW s \in Seq(T), s # <<>>, IsInjective(s)
  PROVE  /\ Head(s) \in T /\ Head(s) \in ToSet(s)
         /\ Tail(s) \in Seq(T) /\ IsInjective(Tail(s))
         /\ ToSet(Tail(s)) = ToSet(s) \ {Head(s)}
<1>1. PICK n \in Nat : n = Len(s)
  OBVIOUS
<1>2. /\ n >= 1 /\ Head(s) = s[1] /\ Head(s) \in T
      /\ Tail(s) \in Seq(T) /\ Len(Tail(s)) = n - 1
      /\ \A i \in 1..n - 1 : Tail(s)[i] = s[i + 1]
  BY <1>1
<1>3. \A i, j \in 1..n : s[i] = s[j] => i = j
  BY <1>1, InjectiveSeq
<1>4. Head(s) \in ToSet(s)
  BY <1>1, <1>2, ToSetMember
<1>5. IsInjective(Tail(s))
  <2>1. \A i, j \in 1..n - 1 : Tail(s)[i] = Tail(s)[j] => i = j
    BY <1>1, <1>2, <1>3
  <2>2. QED
    BY <2>1, <1>2, InjectiveSeq
<1>6. ASSUME NEW x PROVE x \in ToSet(Tail(s)) <=> x \in ToSet(s) \ {Head(s)}
  <2>1. x \in ToSet(Tail(s)) <=> \E i \in 1..n - 1 : s[i + 1] = x
    <3>1. PICK d \in Seq(T) : d = Tail(s)
      BY <1>2
    <3>2. x \in ToSet(d) <=> \E i \in 1..Len(d) : d[i] = x
      BY ToSetMember
    <3>3. QED
      BY <3>1, <3>2, <1>2
  <2>2. x \in ToSet(s) <=> \E i \in 1..n : s[i] = x
    BY <1>1, ToSetMember
  <2>3. ASSUME NEW i \in 1..n - 1 PROVE i + 1 \in 1..n /\ s[i + 1] # s[1]
    BY <1>2, <1>3, <2>3
  <2>4. ASSUME NEW i \in 1..n, s[i] # s[1] PROVE i - 1 \in 1..n - 1 /\ s[(i - 1) + 1] = s[i]
    BY <2>4, <1>2
  <2>5. QED
    BY <2>1, <2>2, <2>3, <2>4, <1>2
<1>7. QED
  BY <1>2, <1>4, <1>5, <1>6

\* Taking one entry out of the list of threads.
LEMMA RemoveOut ==
  ASSUME NEW T, NEW s \in Seq(T), IsInjective(s), NEW k \in 1..Len(s)
  PROVE  /\ RemoveAt(s, k) \in Seq(T) /\ IsInjective(RemoveAt(s, k))
         /\ ToSet(RemoveAt(s, k)) = ToSet(s) \ {s[k]}
<1> DEFINE r == RemoveAt(s, k)
<1>1. PICK n \in Nat : n = Len(s)
  OBVIOUS
<1>2. k \in 1..n
  BY <1>1
<1>3. /\ SubSeq(s, 1, k - 1) \in Seq(T) /\ Len(SubSeq(s, 1, k - 1)) = k - 1
      /\ \A i \in 1..k - 1 : SubSeq(s, 1, k - 1)[i] = s[i]
  BY <1>1, <1>2
<1>4. /\ SubSeq(s, k + 1, n) \in Seq(T) /\ Len(SubSeq(s, k + 1, n)) = n - k
      /\ \A i \in 1..n - k : SubSeq(s, k + 1, n)[i] = s[k + i]
  BY <1>1, <1>2
<1>5. /\ r \in Seq(T) /\ Len(r) = n - 1
      /\ \A i \in 1..n - 1 : r[i] = IF i < k THEN s[i] ELSE s[i + 1]
  <2>1. r = SubSeq(s, 1, k - 1) \o SubSeq(s, k + 1, n)
    BY <1>1 DEF RemoveAt
  <2>a. PICK a \in Seq(T), b \in Seq(T) : a = SubSeq(s, 1, k - 1) /\ b = SubSeq(s, k + 1, n)
    BY <1>3, <1>4
  <2>b. /\ r \in Seq(T) /\ Len(r) = Len(a) + Len(b)
        /\ \A i \in 1..Len(a) + Len(b) : r[i] = IF i <= Len(a) THEN a[i] ELSE b[i - Len(a)]
    BY <2>1, <2>a, ConcatProperties
  <2>c. /\ Len(a) = k - 1 /\ \A i \in 1..k - 1 : a[i] = s[i]
        /\ Len(b) = n - k /\ \A i \in 1..n - k : b[i] = s[k + i]
    BY <1>3, <1>4, <2>a
  <2>2. r \in Seq(T) /\ Len(r) = n - 1
    BY <1>2, <2>b, <2>c
  <2>3. ASSUME NEW i \in 1..n - 1 PROVE r[i] = IF i < k THEN s[i] ELSE s[i + 1]
    <3>0. r[i] = IF i <= k - 1 THEN a[i] ELSE b[i - (k - 1)]
      BY <1>2, <2>b, <2>c
    <3>1. CASE i < k
      <4>1. i \in 1..k - 1
        BY <1>2, <3>1
      <4>2. QED
        BY <2>c, <3>0, <3>1, <4>1
    <3>2. CASE ~(i < k)
      <4>1. i - (k - 1) \in 1..n - k /\ k + (i - (k - 1)) = i + 1 /\ ~(i <= k - 1)
        BY <3>2, <1>2
      <4>2. b[i - (k - 1)] = s[i + 1]
        BY <2>c, <4>1
      <4>3. QED
        BY <3>0, <3>2, <4>1, <4>2
    <3>3. QED
      BY <3>1, <3>2
  <2>4. QED
    BY <2>2, <2>3
<1> HIDE DEF r
<1>6. \A i, j \in 1..n : s[i] = s[j] => i = j
  BY <1>1, InjectiveSeq
<1>7. IsInjective(r)
  <2>1. ASSUME NEW i \in 1..n - 1, NEW j \in 1..n - 1, r[i] = r[j] PROVE i = j
    BY <2>1, <1>2, <1>5, <1>6
  <2>2. QED
    BY <2>1, <1>5, InjectiveSeq
<1>8. ASSUME NEW x PROVE x \in ToSet(r) <=> x \in ToSet(s) \ {s[k]}
  <2>1. x \in ToSet(r) <=> \E i \in 1..n - 1 : r[i] = x
    BY <1>5, ToSetMember
  <2>2. x \in ToSet(s) <=> \E i \in 1..n : s[i] = x
    BY <1>1, ToSetMember
  <2>3. ASSUME NEW i \in 1..n - 1 PROVE r[i] # s[k] /\ \E j \in 1..n : s[j] = r[i]
    <3>1. CASE i < k
      BY <3>1, <1>2, <1>5, <1>6
    <3>2. CASE ~(i < k)
      <4>1. i + 1 \in 1..n /\ r[i] = s[i + 1]
        BY <3>2, <1>2, <1>5
      <4>2. QED
        BY <4>1, <3>2, <1>2, <1>6
    <3>3. QED
      BY <3>1, <3>2
  <2>4. ASSUME NEW i \in 1..n, i # k PROVE \E j \in 1..n - 1 : r[j] = s[i]
    <3>1. CASE i < k
      BY <3>1, <1>2, <1>5
    <3>2. CASE i > k
      <4>1. i - 1 \in 1..n - 1 /\ ~(i - 1 < k) /\ (i - 1) + 1 = i
        BY <3>2, <1>2
      <4>2. QED
        BY <4>1, <1>5
    <3>3. QED
      BY <3>1, <3>2, <2>4, <1>2
  <2>5. QED
    BY <2>1, <2>2, <2>3, <2>4
<1>9. QED
  BY <1>5, <1>7, <1>8 DEF r

-----------------------------------------------------------------------------
(* The steps, as far as the invariant sees them *)

Known == UNCHANGED <<info, flags, events, control>>
Counted == /\ msgs' \subseteq [event : {"create", "death"}, th : Threads, by : Threads]
           /\ libs' \in Nat /\ noise' \in 0..MaxNoise
           /\ do_search_for_threads' \in BOOLEAN /\ found' \subseteq Threads

\* Of the debuggee.
Traps(t) ==
  /\ Executes(t) /\ \E w \in Places : Trapped(t, w, run)
  /\ \A m \in msgs' : m.event = "create" => m \in msgs
Creates(t, u) ==
  /\ Executes(t) /\ run[u] = "none"
  /\ Trapped(t, "create", [run EXCEPT ![u] = "held"])
  /\ msgs' = msgs \cup {[event |-> "create", th |-> u, by |-> t]}
Ends(t) == Free(t) /\ Zombie(t) /\ Known /\ UNCHANGED <<pending, msgs, history>>
RunsOn(t) ==
  /\ Free(t) /\ at' = [at EXCEPT ![t] = "code"]
  /\ run' = [u \in Threads |-> IF run[u] = "held" /\ \E m \in msgs : m.th = u /\ m.by = t
                               THEN "wild" ELSE run[u]]
  /\ Known /\ UNCHANGED <<pending, report, msgs, history>>
Sends(t, s) ==
  /\ Alive(t) /\ s \notin sent[t]
  /\ pending' = [pending EXCEPT ![t] = @ \cup {s}]
  /\ sent' = [sent EXCEPT ![t] = @ \cup {s}]
  /\ Known /\ UNCHANGED <<run, at, report, msgs, merged, found>>
Takes(t, s) ==
  /\ Runs(t) /\ s \in pending[t]
  /\ pending' = [pending EXCEPT ![t] = @ \ {s}]
  /\ run' = [run EXCEPT ![t] = "stopped"]
  /\ report' = [report EXCEPT ![t] = s]
  /\ Known /\ UNCHANGED <<at, msgs, history>>
Lived ==
  \/ \E t \in Threads : Traps(t) \/ Ends(t) \/ RunsOn(t)
  \/ \E t, u \in Threads : Creates(t, u)
  \/ \E t \in Threads, s \in Signals : Sends(t, s)
  \/ \E t \in Threads, s \in Signals \cup {Trap} : Takes(t, s)

\* Of the debugger while it waits and stops threads.
Watches ==
  /\ ~Frozen /\ phase # "failed" /\ phase' # "over" /\ phase' \notin {"user", "continue"}
  /\ phase' \in {"answer", "collect", "blocked", "stop", "kill", "first", "more", "crashed"}
  /\ last_signaled_thread' \in Threads \cup {Null} /\ cur' \in Nat
  /\ UNCHANGED <<run, at, msgs, threads, last_signal, expired, current_thread_is_dead,
                 check_events_again, singlestep, h, told, handles, sent, found>>
Same == UNCHANGED <<cur, last_signaled_thread>>
Passes ==
  \/ phase = "collect" /\ phase' = "blocked" /\ events = <<>> /\ Same
  \/ phase = "collect" /\ events # <<>> /\ StopAllThreads(Head(events))
  \/ phase = "stop" /\ phase' = "answer" /\ cur > Len(threads) /\ Same
  \/ phase = "stop" /\ phase' = "kill" /\ cur <= Len(threads) /\ Same
  \/ phase' = "crashed"
  \/ /\ phase = "stop" /\ cur <= Len(threads)
     /\ ~Runs(Current)
     /\ Unreaped(Current) => singlestep \/ Current = last_signaled_thread
     /\ StopNext /\ UNCHANGED last_signaled_thread
  \/ phase = "more" /\ StopNext /\ UNCHANGED last_signaled_thread
Looks ==
  /\ Watches /\ phase' # "first" /\ Passes
  /\ UNCHANGED <<report, last_status, events, pending, merged>>
Reads(t) ==
  \/ phase = "collect" /\ phase' = "collect" /\ Same
  \/ phase = "blocked" /\ StopAllThreads(t)
  \/ /\ phase = "stop" /\ cur <= Len(threads) /\ t = Current /\ ~singlestep /\ run[t] = "stopped"
     /\ StopNext /\ UNCHANGED last_signaled_thread
  \/ phase \in {"first", "more"} /\ t = Current /\ phase' = "more" /\ Same
Reaps(t) ==
  /\ Watches /\ phase' # "first" /\ Reads(t) /\ t \in Listed /\ report[t] # Null /\ Reap(t)
  /\ UNCHANGED <<pending, merged>>
Kills ==
  /\ Watches /\ phase = "kill" /\ phase' = "first" /\ Same
  /\ pending' = IF run[Current] = "zombie" THEN pending
                ELSE [pending EXCEPT ![Current] = @ \cup {Trap}]
  /\ merged' = IF Trap \in pending[Current] THEN merged \cup {Current} ELSE merged
  /\ UNCHANGED <<report, last_status, events>>
Owns ==
  /\ Watches /\ phase \in {"first", "more"} /\ StopNext /\ UNCHANGED last_signaled_thread
  /\ report[Current] = Trap
  /\ report' = [report EXCEPT ![Current] = Null]
  /\ UNCHANGED <<last_status, events, pending, merged>>

\* Of the debugger while it judges an event.
Turn(t) ==
  /\ phase = "answer" /\ h' = t
  /\ \/ ~check_events_again /\ t \in Queued /\ Queued' = Queued \ {t}
     \/ check_events_again /\ t = h /\ Queued' = Queued
  /\ last_status[t] # Null
  /\ events' \in Seq(Threads) /\ IsInjective(events')
  /\ told' \in [type : Loops \cup {"over", "step", "load", "hit", "signal"},
                th : Threads \cup {Null}]
  /\ UNCHANGED <<singlestep, cur, found>>
Answered(t) ==
  /\ check_events_again' \in BOOLEAN
  /\ phase' \in {"user", "continue"}
  /\ phase' = "user" => last_status[t] # "exit" /\ t \notin expired
Tells(t) ==
  /\ Turn(t) /\ Answered(t)
  /\ check_events_again' => last_status[t] = Trap /\ ~singlestep
  /\ \A m \in msgs' : m \in msgs
  /\ merged \subseteq merged' /\ merged' \subseteq Threads
  /\ at' = at \/ (at[t] = "bp" /\ at' = [at EXCEPT ![t] = "code"])
  /\ last_status[t] = Trap /\ at'[t] = "bp" => t \in merged' \/ t \in expired
  /\ \/ last_signal' = last_signal /\ (last_status[t] \notin Signals \/ t \in expired)
     \/ /\ last_status[t] \in Signals /\ t \in Queued /\ ~check_events_again
        /\ last_signal' = [last_signal EXCEPT ![t] = last_status[t]]
  /\ UNCHANGED <<run, pending, report, threads, last_status, expired, sent,
                 last_signaled_thread, current_thread_is_dead, handles>>
Removed(t) ==
  /\ threads' \in Seq(Threads) /\ IsInjective(threads')
  /\ Listed' = Listed \ {t} /\ handles' = handles \ {t}
Drops(t) ==
  /\ Turn(t) /\ last_status[t] = "exit" /\ t # Main
  /\ Removed(t) /\ ForgetSignaled(t)
  /\ phase' \in {"continue", "failed"} /\ check_events_again' = FALSE
  /\ phase' = "failed" => told' = [type |-> "exited", th |-> t] /\ t \in expired
  /\ UNCHANGED <<kernel, last_status, last_signal, expired, history>>
Attaches(t, m) ==
  /\ Turn(t) /\ Answered(t) /\ last_status[t] = Trap /\ ~singlestep /\ t \notin expired
  /\ at[t] \in {"create", "death"}
  /\ m \in msgs /\ msgs' = msgs \ {m} /\ Attach(m) /\ handles' = handles \cup {m.th}
  /\ phase' = "continue" /\ check_events_again' = TRUE
  /\ UNCHANGED <<at, pending, report, last_status, last_signal, history>>
Detaches(t, u) ==
  /\ Turn(t) /\ Answered(t) /\ last_status[t] = Trap /\ ~singlestep /\ t \notin expired
  /\ at[t] \in {"create", "death"}
  /\ u \in Listed /\ \A m \in msgs' : m \in msgs
  /\ Removed(u) /\ expired' = expired \cup {u}
  /\ run' = [run EXCEPT ![u] = IF @ = "stopped" THEN "gone" ELSE @]
  /\ ForgetSignaled(u)
  /\ phase' = "continue" /\ check_events_again' = (u # last_signaled_thread)
  /\ UNCHANGED <<at, pending, report, last_status, last_signal, history>>
Quits(t) ==
  /\ Turn(t)
  /\ run' = [u \in Threads |-> IF u \in Listed THEN "gone" ELSE run[u]]
  /\ report' = [u \in Threads |-> IF u \in Listed THEN Null ELSE report[u]]
  /\ phase' = "over" /\ check_events_again' = FALSE
  /\ UNCHANGED <<pending, at, msgs, info, last_signaled_thread, current_thread_is_dead, handles,
                 history>>

\* Of the debugger when the upper level wants to go on.
Asks(step) ==
  /\ phase = "user" \/ (phase = "continue" /\ step = singlestep)
  /\ singlestep' = step
  /\ last_signaled_thread' = IF current_thread_is_dead THEN last_signaled_thread ELSE h
  /\ current_thread_is_dead' = FALSE
  /\ UNCHANGED <<at, pending, report, msgs, threads, expired, check_events_again,
                 events, cur, h, told, handles, merged, found>>
Waits(step) ==
  /\ Asks(step) /\ (events # <<>> \/ check_events_again)
  /\ phase' = "answer" /\ UNCHANGED <<run, last_status, last_signal, sent>>
Resumes(step) ==
  /\ Asks(step) /\ events = <<>> /\ ~check_events_again /\ phase' = "collect"
  /\ ResumeAllThreads(step, last_signaled_thread')

Debugged ==
  \/ Looks \/ Kills \/ Owns \/ \E t \in Threads : Reaps(t)
  \/ \E t \in Threads : Tells(t) \/ Drops(t) \/ Quits(t)
  \/ \E t, u \in Threads : Detaches(t, u)
  \/ \E t \in Threads, m \in msgs : Attaches(t, m)
  \/ \E step \in BOOLEAN : Waits(step) \/ Resumes(step)

LEMMA NotOver ==
  ASSUME TypeInv, ListInv, Next
  PROVE  phase # "over"
<1>1. SUFFICES ASSUME phase = "over" PROVE FALSE
  OBVIOUS
<1>2. \A t \in Threads : ~Runs(t)
  BY <1>1 DEF ListInv, Alive, Runs
<1>3. CASE Debuggee
  BY <1>1, <1>2, <1>3 DEF Debuggee, Hit, LibraryEvent, ThreadDies, StepDone, Exit, RunOn,
       ThreadCreated, SendSignal, TakeSignal, Executes, Free
<1>4. CASE Debugger
  <2>1. CASE \E step \in BOOLEAN : ContinueDebugEvent(step)
    BY <1>1, <2>1 DEF ContinueDebugEvent
  <2>2. CASE WaitForEvents
    BY <1>1, <2>2 DEF WaitForEvents, GarbageQueue, CollectNone, Collect, Blocked, UnknownThread, At
  <2>3. CASE AllStopped \/ EnsureStopped
    BY <1>1, <2>3 DEF AllStopped, EnsureStopped, EnsureTraced, EnsureSkipped, EnsureRunning,
         Kill, OwnTrap, OtherStop, NoMore, At
  <2>4. CASE WaitForDebugEvent
    BY <1>1, <2>4 DEF WaitForDebugEvent, CheckAgain, NextEvent
  <2>5. QED
    BY <1>4, <2>1, <2>2, <2>3, <2>4 DEF Debugger
<1>5. QED
  BY <1>3, <1>4 DEF Next

LEMMA DebuggeeMoves ==
  ASSUME TypeInv, Debuggee
  PROVE  Lived /\ Counted
<1> USE DEF TypeInv, TypeOK, Counted, Known, flags, history
<1>1. ASSUME NEW t \in Threads, Hit(t) \/ LibraryEvent(t) \/ StepDone(t)
      PROVE  Traps(t) /\ Counted
  <2>1. Counted
    BY <1>1, InferiorAssumption DEF Hit, LibraryEvent, StepDone, Noisy, Trapped
  <2>2. Traps(t)
    BY <1>1 DEF Hit, LibraryEvent, StepDone, Traps, Executes, Places
  <2>3. QED
    BY <2>1, <2>2
<1>2. ASSUME NEW t \in Threads, ThreadDies(t)
      PROVE  Traps(t) /\ Counted
  <2>1. Counted
    BY <1>2 DEF ThreadDies, Trapped
  <2>2. Traps(t)
    BY <1>2 DEF ThreadDies, Traps, Places
  <2>3. QED
    BY <2>1, <2>2
<1>3. ASSUME NEW t \in Threads, Exit(t)
      PROVE  Ends(t) /\ Counted
  BY <1>3, InferiorAssumption DEF Exit, Ends, Executes, Noisy
<1>4. ASSUME NEW t \in Threads, RunOn(t)
      PROVE  (Ends(t) \/ RunsOn(t)) /\ Counted
  BY <1>4 DEF RunOn, Ends, RunsOn
<1>5. ASSUME NEW t \in Threads, NEW u \in Threads, ThreadCreated(t, u)
      PROVE  Creates(t, u) /\ Counted
  BY <1>5 DEF ThreadCreated, Creates, Trapped
<1>6. ASSUME NEW t \in Threads, NEW s \in Signals, SendSignal(t, s)
      PROVE  Sends(t, s) /\ Counted
  BY <1>6, InferiorAssumption DEF SendSignal, Sends, Alive, Noisy
<1>7. ASSUME NEW t \in Threads, NEW s \in Signals \cup {Trap}, TakeSignal(t, s)
      PROVE  Takes(t, s) /\ Counted
  BY <1>7 DEF TakeSignal, Takes
<1>8. QED
  BY <1>1, <1>2, <1>3, <1>4, <1>5, <1>6, <1>7 DEF Debuggee, Lived

\* The thread stop_all_threads has reached.
LEMMA CurrentListed ==
  ASSUME TypeInv, StopInv, Stopping, cur <= Len(threads)
  PROVE  Current \in Threads /\ Current \in Listed /\ cur \in 1..Len(threads)
<1>1. cur \in 1..Len(threads) /\ threads \in Seq(Threads)
  BY DEF TypeInv, TypeOK, StopInv
<1>2. threads[cur] \in Threads
  BY <1>1
<1>3. threads[cur] \in ToSet(threads)
  BY <1>1, ToSetMember
<1>4. QED
  BY <1>1, <1>2, <1>3 DEF Current, Listed

LEMMA WatchingMoves ==
  ASSUME TypeInv, StopInv, WaitForEvents \/ AllStopped \/ EnsureStopped
  PROVE  (Looks \/ Kills \/ Owns \/ \E t \in Threads : Reaps(t)) /\ Counted
<1> USE DEF At, Quiet, Watches, Frozen, StopNext, Passes, Reads, Same, Runs, Unreaped, StopAllThreads
<1>1. Counted
  BY DEF TypeInv, TypeOK, Counted, WaitForEvents, GarbageQueue, CollectNone, Collect, Blocked,
         UnknownThread, AllStopped, EnsureStopped, EnsureTraced, EnsureSkipped, EnsureRunning,
         Kill, OwnTrap, OtherStop, NoMore
<1>2. cur \in Nat /\ cur + 1 \in Nat /\ last_signaled_thread \in Threads \cup {Null}
  BY DEF TypeInv, TypeOK
<1>3. events # <<>> => Head(events) \in Threads
  BY DEF TypeInv, TypeOK
<1>4. Listed \subseteq Threads
  BY ToSetMember DEF TypeInv, TypeOK, Listed
<1>5. CASE GarbageQueue \/ AllStopped \/ EnsureSkipped \/ EnsureRunning \/ NoMore
  BY <1>1, <1>2, <1>5 DEF GarbageQueue, AllStopped, EnsureSkipped, EnsureRunning, NoMore, Looks
<1>6. CASE CollectNone
  <2>1. CASE events = <<>>
    BY <1>1, <1>2, <1>6, <2>1 DEF CollectNone, Looks
  <2>2. CASE events # <<>>
    BY <1>1, <1>2, <1>3, <1>6, <2>2 DEF CollectNone, StopAllThreads, Looks
  <2>3. QED
    BY <2>1, <2>2
<1>7. ASSUME NEW t \in Threads, UnknownThread(t)
      PROVE  Looks
  BY <1>2, <1>7 DEF UnknownThread, Looks
<1>8. ASSUME NEW t \in Threads, Collect(t)
      PROVE  Reaps(t)
  BY <1>2, <1>8 DEF Collect, Reaps
<1>9. ASSUME NEW t \in Threads, Blocked(t)
      PROVE  Reaps(t)
  BY <1>2, <1>9 DEF Blocked, Reaps, StopAllThreads
<1>10. CASE EnsureTraced
  <2>1. Current \in Threads /\ Current \in Listed
    BY <1>10, CurrentListed DEF EnsureTraced, Stopping
  <2>2. CASE ~singlestep /\ Current # last_signaled_thread /\ report[Current] # Null
    BY <1>1, <1>2, <1>10, <2>1, <2>2 DEF EnsureTraced, Reaps
  <2>3. CASE ~(~singlestep /\ Current # last_signaled_thread /\ report[Current] # Null)
    BY <1>1, <1>2, <1>10, <2>3 DEF EnsureTraced, Looks
  <2>4. QED
    BY <2>1, <2>2, <2>3
<1>11. CASE Kill
  BY <1>1, <1>2, <1>11 DEF Kill, Kills
<1>12. CASE OwnTrap
  BY <1>1, <1>2, <1>12 DEF OwnTrap, Owns
<1>13. CASE OtherStop
  <2>1. Current \in Threads /\ Current \in Listed
    BY <1>13, CurrentListed DEF OtherStop, Stopping, StopInv
  <2>2. QED
    BY <1>1, <1>2, <1>13, <2>1 DEF OtherStop, Reaps
<1>14. QED
  BY <1>1, <1>5, <1>6, <1>7, <1>8, <1>9, <1>10, <1>11, <1>12, <1>13 DEF WaitForEvents, EnsureStopped

LEMMA AskingMoves ==
  ASSUME TypeInv, NEW step \in BOOLEAN, ContinueDebugEvent(step)
  PROVE  (Waits(step) \/ Resumes(step)) /\ Counted
<1>1. Counted
  BY DEF TypeInv, TypeOK, Counted, ContinueDebugEvent
<1>2. Asks(step)
  BY DEF ContinueDebugEvent, Asks
<1>3. CASE events # <<>> \/ check_events_again
  BY <1>1, <1>2, <1>3 DEF ContinueDebugEvent, Waits
<1>4. CASE ~(events # <<>> \/ check_events_again)
  BY <1>1, <1>2, <1>4 DEF ContinueDebugEvent, Resumes
<1>5. QED
  BY <1>1, <1>3, <1>4

LEMMA RemovedOne ==
  ASSUME TypeInv, NEW t \in Threads, RemoveThread(t), NEW again, Answer("exited", t, again)
  PROVE  Removed(t)
<1>1. threads \in Seq(Threads) /\ IsInjective(threads)
  BY DEF TypeInv, TypeOK
<1>a. handles' = handles \ {t}
  BY DEF Answer
<1>2. CASE t \in Listed
  <2>1. PICK i \in 1..Len(threads) : threads[i] = t /\ threads' = RemoveAt(threads, i)
    BY <1>2 DEF RemoveThread
  <2>2. threads' \in Seq(Threads) /\ IsInjective(threads') /\ ToSet(threads') = ToSet(threads) \ {t}
    BY <1>1, <2>1, RemoveOut
  <2>3. QED
    BY <1>a, <2>2 DEF Removed, Listed
<1>3. CASE t \notin Listed
  BY <1>1, <1>a, <1>3 DEF RemoveThread, Removed, Listed
<1>4. QED
  BY <1>2, <1>3

\* An event that is judged, and the queue.
LEMMA Turns ==
  ASSUME TypeInv, StatusInv, FlagsInv, WaitForDebugEvent, found' = {}
  PROVE  \E t \in Threads, search \in BOOLEAN :
           /\ ProceedEvent(t, search)
           /\ phase = "answer" /\ last_status[t] # Null
           /\ events' \in Seq(Threads) /\ IsInjective(events')
           /\ \/ ~check_events_again /\ t \in Queued /\ Queued' = Queued \ {t}
              \/ check_events_again /\ t = h /\ Queued' = Queued
<1>1. CASE CheckAgain
  <2>1. /\ phase = "answer" /\ check_events_again
        /\ ProceedEvent(last_signaled_thread, FALSE) /\ events' = events
    BY <1>1 DEF CheckAgain, Search
  <2>2. last_signaled_thread = h /\ h \in Threads /\ last_status[h] = Trap
    BY <2>1 DEF FlagsInv, TypeInv, TypeOK
  <2>3. events' \in Seq(Threads) /\ IsInjective(events') /\ Queued' = Queued
    BY <2>1 DEF TypeInv, TypeOK, Queued
  <2>4. Trap # Null
    BY InferiorAssumption
  <2>5. ProceedEvent(h, FALSE)
    BY <2>1, <2>2
  <2>6. QED
    BY <2>1, <2>2, <2>3, <2>4, <2>5
<1>2. CASE NextEvent
  <2>1. /\ phase = "answer" /\ ~check_events_again /\ events # <<>>
        /\ ProceedEvent(Head(events), do_search_for_threads) /\ events' = Tail(events)
    BY <1>2 DEF NextEvent
  <2>2. PICK t : t = Head(events)
    OBVIOUS
  <2>3. events \in Seq(Threads) /\ IsInjective(events)
    BY DEF TypeInv, TypeOK
  <2>4. /\ t \in Threads /\ t \in Queued
        /\ events' \in Seq(Threads) /\ IsInjective(events') /\ Queued' = Queued \ {t}
    BY <2>1, <2>2, <2>3, TailOut DEF Queued
  <2>5. last_status[t] # Null
    BY <2>4 DEF StatusInv
  <2>6. ProceedEvent(t, do_search_for_threads) /\ do_search_for_threads \in BOOLEAN
    BY <2>1, <2>2 DEF TypeInv, TypeOK
  <2>7. QED
    BY <2>1, <2>4, <2>5, <2>6
<1>3. QED
  BY <1>1, <1>2 DEF WaitForDebugEvent

LEMMA JudgingMoves ==
  ASSUME TypeInv, UnbornInv, MsgsInv, ListInv, StatusInv, FlagsInv, ToldInv,
         WaitForDebugEvent, found' = {}, found = {}
  PROVE  /\ \/ \E t \in Threads : Tells(t) \/ Drops(t) \/ Quits(t)
            \/ \E t, u \in Threads : Detaches(t, u)
            \/ \E t \in Threads, m \in msgs : Attaches(t, m)
         /\ Counted
<1>1. PICK t \in Threads, search \in BOOLEAN :
           /\ ProceedEvent(t, search)
           /\ phase = "answer" /\ last_status[t] # Null
           /\ events' \in Seq(Threads) /\ IsInjective(events')
           /\ \/ ~check_events_again /\ t \in Queued /\ Queued' = Queued \ {t}
              \/ check_events_again /\ t = h /\ Queued' = Queued
  BY Turns
<1>2. h' = t /\ UNCHANGED <<singlestep, cur>> /\ do_search_for_threads' \in BOOLEAN
  BY <1>1 DEF ProceedEvent
<1>3. ASSUME told' \in [type : Loops \cup {"over", "step", "load", "hit", "signal"},
                        th : Threads \cup {Null}]
      PROVE  Turn(t)
  BY <1>1, <1>2, <1>3 DEF Turn
<1>a. phase = "answer" => handles = Listed
  BY DEF ToldInv, ToldOfKnown
<1>b. t \in expired \/ last_status[t] = "exit" \/ t \in handles
  <2>1. ~Unborn(t)
    BY <1>1 DEF UnbornInv
  <2>2. QED
    BY <1>1, <1>a, <2>1 DEF ListInv
<1>4. ASSUME NEW type \in Loops \cup {"step", "load", "hit", "signal"}, NEW u \in Threads,
             NEW again \in BOOLEAN, Answer(type, u, again),
             type \notin {"ask", "exited"} => last_status[t] # "exit" /\ t \notin expired,
             type = "exited" => u \in Listed
      PROVE  /\ Turn(t) /\ Answered(t)
             /\ type \notin {"created", "exited"} => handles' = handles
             /\ type = "created" => handles' = handles \cup {u}
             /\ type = "exited" => handles' = handles \ {u}
  <2>1. told' = [type |-> type, th |-> u] /\ Turn(t)
    BY <1>3, <1>4 DEF Answer, Tell
  <2>2. Knows(type, u)
    BY <1>1, <1>2, <1>4, <1>a, <1>b DEF Knows
  <2>3. phase' = IF type \in Loops THEN "continue" ELSE "user"
    BY <1>4, <2>2 DEF Answer
  <2>4. Answered(t)
    BY <2>1, <2>3, <1>4 DEF Answer, Answered, Loops
  <2>5. QED
    BY <1>4, <2>1, <2>4 DEF Answer
<1>5. /\ Trap \notin Signals /\ Trap # Null /\ Trap # "exit"
      /\ "exit" \notin Signals /\ Null \notin Signals
  BY InferiorAssumption
<1>6. /\ last_status[t] \in Status /\ Listed \subseteq Threads
      /\ msgs \subseteq [event : {"create", "death"}, th : Threads, by : Threads]
      /\ libs \in Nat /\ noise \in 0..MaxNoise /\ merged \subseteq Threads
      /\ last_signal \in [Threads -> Signals \cup {Null}]
  BY ToSetMember DEF TypeInv, TypeOK, Listed
<1>7. last_status[t] = Trap => last_signal[t] = Null
  BY <1>5, <1>6 DEF StatusInv
<1>c. do_search_for_threads' \in BOOLEAN /\ found' \subseteq Threads
  BY <1>2
<1> USE <1>c DEF Counted
<1>8. CASE ProcessExit(t)
  <2>1. Turn(t)
    BY <1>3, <1>8 DEF ProcessExit, Tell
  <2>2. QED
    BY <1>6, <1>8, <2>1 DEF ProcessExit, Quits
<1>9. CASE ThreadExit(t)
  <2>0. Answer("exited", t, FALSE)
    BY <1>9 DEF ThreadExit
  <2>3. last_status[t] = "exit" /\ t # Main
    BY <1>9 DEF ThreadExit, Ended
  <2>1. /\ Turn(t) /\ phase' \in {"continue", "failed"} /\ check_events_again' = FALSE
        /\ phase' = "failed" => told' = [type |-> "exited", th |-> t] /\ t \in expired
    <3>1. told' = [type |-> "exited", th |-> t] /\ Turn(t) /\ check_events_again' = FALSE
      BY <1>3, <2>0 DEF Answer, Tell, Loops
    <3>2. phase' \in {"continue", "failed"}
      BY <2>0 DEF Answer, Loops
    <3>3. phase' = "failed" => t \notin handles
      BY <2>0 DEF Answer, Knows, Loops
    <3>4. t \in handles \/ t \in expired
      <4>1. t \in Queued
        BY <1>1, <1>5, <2>3 DEF FlagsInv
      <4>2. QED
        BY <1>1, <1>a, <4>1 DEF ToldInv
    <3>5. QED
      BY <3>1, <3>2, <3>3, <3>4
  <2>2. Removed(t)
    BY <1>9, <2>0, RemovedOne DEF ThreadExit
  <2>4. Drops(t)
    BY <1>9, <2>1, <2>2, <2>3 DEF ThreadExit, Drops
  <2>5. QED
    BY <1>6, <1>9, <2>4 DEF ThreadExit, kernel
<1>10. CASE ExpiredThread(t)
  <2>1. Turn(t) /\ Answered(t) /\ check_events_again' = FALSE
    <3>1. Answer("ask", t, FALSE)
      BY <1>10 DEF ExpiredThread
    <3>2. QED
      BY <1>4, <3>1 DEF Loops, Answer
  <2>a. handles' = handles
    BY <1>10 DEF ExpiredThread, Answer
  <2>2. Tells(t)
    BY <1>6, <1>10, <2>1, <2>a DEF ExpiredThread, Tells, kernel, info, history
  <2>3. QED
    BY <1>6, <1>10, <2>2 DEF ExpiredThread, kernel
<1>11. CASE Step(t)
  <2>1. Turn(t) /\ Answered(t) /\ check_events_again' = FALSE
    <3>1. Answer("step", t, FALSE) /\ last_status[t] # "exit" /\ t \notin expired
      BY <1>5, <1>11 DEF Step, Judged
    <3>2. QED
      BY <1>4, <3>1 DEF Loops, Answer
  <2>2. last_status[t] = Trap
    BY <1>11 DEF Step, Judged
  <2>a. handles' = handles
    BY <1>11 DEF Step, Answer
  <2>3. Tells(t)
    BY <1>5, <1>6, <1>11, <2>1, <2>2, <2>a DEF Step, Tells, kernel, info, history
  <2>4. QED
    BY <1>6, <1>11, <2>3 DEF Step, kernel
<1>12. CASE SolibEvent(t)
  <2>1. PICK type \in {"load", "ask"}, again \in BOOLEAN :
           /\ Answer(type, t, again) /\ last_status[t] = Trap /\ ~singlestep /\ t \notin expired
           /\ libs' \in Nat
    <3>1. CASE libs > 0
      <4>1. Answer("load", t, TRUE) /\ libs' = libs - 1
        BY <1>12, <3>1 DEF SolibEvent
      <4>2. libs' \in Nat
        BY <1>6, <3>1, <4>1
      <4>3. QED
        BY <1>12, <4>1, <4>2 DEF SolibEvent, Judged
    <3>2. CASE ~(libs > 0)
      BY <1>6, <1>12, <3>2 DEF SolibEvent, Judged
    <3>3. QED
      BY <3>1, <3>2
  <2>2. Turn(t) /\ Answered(t) /\ handles' = handles
    BY <1>4, <1>5, <2>1 DEF Loops
  <2>3. Tells(t)
    BY <1>5, <1>6, <1>12, <2>1, <2>2 DEF SolibEvent, Tells, kernel, info, history
  <2>4. QED
    BY <1>6, <1>12, <2>1, <2>3 DEF SolibEvent, kernel
<1>13. CASE ThreadEvent(t)
  <2>1. /\ last_status[t] = Trap /\ ~singlestep /\ at[t] \in {"create", "death"} /\ t \notin expired
        /\ UNCHANGED <<at, pending, report, libs, noise, last_status, last_signal, history>>
    BY <1>13 DEF ThreadEvent, Judged
  <2>2. ASSUME Answer("ask", t, FALSE), msgs' \in SUBSET msgs,
               UNCHANGED <<run, threads, expired, last_signaled_thread, current_thread_is_dead>>
        PROVE  Tells(t) /\ Counted
    <3>1. Turn(t) /\ Answered(t) /\ check_events_again' = FALSE /\ handles' = handles
      BY <1>4, <2>2 DEF Loops, Answer
    <3>2. Tells(t)
      BY <1>5, <1>6, <2>1, <2>2, <3>1 DEF Tells, history
    <3>3. QED
      BY <1>6, <2>1, <2>2, <3>2
  <2>a. ASSUME NEW m \in msgs, CreatedBefore(m)
        PROVE  FALSE
    <3>1. m.th \in Threads
      BY <1>6
    <3>2. QED
      BY <2>a, <3>1 DEF CreatedBefore, MsgsInv, UnbornInv, Unborn
  <2>3. ASSUME NEW m \in msgs, msgs' = msgs \ {m}, Attach(m)
        PROVE  Attaches(t, m) /\ Counted
    <3>1. m.th \in Threads
      BY <1>6
    <3>2. /\ Turn(t) /\ Answered(t) /\ phase' = "continue" /\ check_events_again' = TRUE
          /\ handles' = handles \cup {m.th}
      <4>1. Answer("created", m.th, TRUE) /\ last_status[t] # "exit"
        BY <1>5, <2>1, <2>3 DEF Attach
      <4>2. Turn(t) /\ Answered(t) /\ handles' = handles \cup {m.th}
        BY <1>4, <2>1, <3>1, <4>1 DEF Loops
      <4>3. phase' # "user"
        BY <4>1 DEF Answer, Loops
      <4>4. QED
        BY <4>1, <4>2, <4>3 DEF Answer, Answered
    <3>3. QED
      BY <1>6, <2>1, <2>3, <3>2 DEF Attaches, history
  <2>4. ASSUME NEW m \in msgs, msgs' = msgs \ {m}, Detach(m)
        PROVE  m.th \in Threads /\ Detaches(t, m.th) /\ Counted
    <3>1. m.th \in Threads /\ m.th \in Listed
      BY <1>6, <2>4 DEF Detach
    <3>2. /\ Turn(t) /\ Answered(t) /\ phase' = "continue"
          /\ check_events_again' = (m.th # last_signaled_thread)
      <4>1. Answer("exited", m.th, m.th # last_signaled_thread)
        BY <2>4 DEF Detach
      <4>2. (m.th # last_signaled_thread) \in BOOLEAN
        OBVIOUS
      <4>3. Turn(t) /\ Answered(t)
        BY <1>4, <3>1, <4>1, <4>2 DEF Loops
      <4>4. phase' # "user"
        BY <4>1 DEF Answer, Loops
      <4>5. QED
        BY <4>1, <4>3, <4>4 DEF Answer, Answered
    <3>3. Removed(m.th)
      BY <2>4, <3>1, RemovedOne DEF Detach
    <3>4. QED
      BY <1>6, <2>1, <2>4, <3>1, <3>2, <3>3 DEF Detaches, Detach, history
  <2>5. QED
    <3>1. CASE msgs = {} /\ Answer("ask", t, FALSE)
               /\ UNCHANGED <<run, msgs, threads, expired, last_signaled_thread,
                             current_thread_is_dead>>
      BY <2>2, <3>1
    <3>2. ASSUME NEW m \in msgs, msgs' = msgs \ {m}, NoSuchThread(m, t)
          PROVE  Tells(t) /\ Counted
      <4>1. msgs' \in SUBSET msgs
        BY <3>2
      <4>2. QED
        BY <2>2, <3>2, <4>1 DEF NoSuchThread
    <3>3. QED
      BY <1>13, <2>a, <2>3, <2>4, <3>1, <3>2 DEF ThreadEvent
<1>14. CASE BreakpointHit(t)
  <2>1. /\ Answer("hit", t, FALSE) /\ last_status[t] = Trap /\ t \notin expired
        /\ at[t] = "bp" /\ at' = [at EXCEPT ![t] = "code"]
    BY <1>14 DEF BreakpointHit, Judged
  <2>2. Turn(t) /\ Answered(t) /\ check_events_again' = FALSE /\ handles' = handles
    BY <1>4, <1>5, <2>1 DEF Loops, Answer
  <2>3. at'[t] = "code"
    BY <2>1 DEF TypeInv, TypeOK
  <2>4. Tells(t)
    BY <1>5, <1>6, <1>14, <2>1, <2>2, <2>3 DEF BreakpointHit, Tells, info, history
  <2>5. QED
    BY <1>6, <1>14, <2>4 DEF BreakpointHit
<1>15. CASE StrayTrap(t)
  <2>1. Answer("ask", t, FALSE) /\ last_status[t] = Trap /\ t \notin expired /\ at[t] = "code"
    BY <1>15 DEF StrayTrap, Judged
  <2>2. Turn(t) /\ Answered(t) /\ check_events_again' = FALSE /\ handles' = handles
    BY <1>4, <2>1 DEF Loops, Answer
  <2>3. last_signal' = last_signal
    BY <1>6, <1>7, <1>15, <2>1 DEF StrayTrap
  <2>4. Tells(t)
    BY <1>5, <1>6, <1>15, <2>1, <2>2, <2>3 DEF StrayTrap, Tells, kernel, history
  <2>5. QED
    BY <1>6, <1>15, <2>4 DEF StrayTrap, kernel
<1>16. CASE SignalStop(t)
  <2>1. PICK s \in Signals :
          /\ Judged(t, s)
          /\ last_signal' = [last_signal EXCEPT ![t] = s]
          /\ Answer(IF s \in Reported THEN "signal" ELSE "ask", t, FALSE)
          /\ UNCHANGED <<kernel, threads, last_status, expired, last_signaled_thread,
                         current_thread_is_dead, history>>
    BY <1>16 DEF SignalStop
  <2>2. last_status[t] = s /\ t \notin expired /\ last_status[t] # "exit"
    BY <1>5, <2>1 DEF Judged
  <2>3. Turn(t) /\ Answered(t) /\ check_events_again' = FALSE /\ handles' = handles
    <3>1. PICK type \in {"signal", "ask"} : Answer(type, t, FALSE)
      BY <2>1
    <3>2. QED
      BY <1>4, <2>2, <3>1 DEF Loops, Answer
  <2>4. ~check_events_again /\ t \in Queued
    BY <1>1, <1>5, <2>2 DEF FlagsInv
  <2>5. Tells(t)
    BY <1>5, <1>6, <2>1, <2>2, <2>3, <2>4 DEF Tells, kernel, history
  <2>6. QED
    BY <1>6, <2>1, <2>5 DEF kernel
<1>17. QED
  BY <1>1, <1>8, <1>9, <1>10, <1>11, <1>12, <1>13, <1>14, <1>15, <1>16 DEF ProceedEvent

\* Every step is one of the moves.
LEMMA Moves ==
  ASSUME TypeInv, UnbornInv, MsgsInv, ListInv, StatusInv, FlagsInv, StopInv, ToldInv, Next,
         found = {}, found' = {}
  PROVE  (Lived \/ Debugged) /\ Counted /\ phase # "over"
<1>1. phase # "over"
  BY NotOver
<1>2. CASE Debuggee
  BY <1>1, <1>2, DebuggeeMoves
<1>3. ASSUME NEW step \in BOOLEAN, ContinueDebugEvent(step)
      PROVE  Debugged /\ Counted
  BY <1>3, AskingMoves DEF Debugged
<1>4. CASE WaitForEvents \/ AllStopped \/ EnsureStopped
  BY <1>1, <1>4, WatchingMoves DEF Debugged
<1>5. CASE WaitForDebugEvent
  BY <1>1, <1>5, JudgingMoves DEF Debugged
<1>6. QED
  BY <1>1, <1>2, <1>3, <1>4, <1>5 DEF Next, Debugger

-----------------------------------------------------------------------------
(* Types *)

LEMMA Reaping ==
  ASSUME TypeInv, StatusInv, NEW t \in Threads, report[t] # Null, Reap(t)
  PROVE  /\ t \notin Queued /\ Queued' = Queued \cup {t}
         /\ events' \in Seq(Threads) /\ IsInjective(events') /\ events' # <<>>
         /\ Head(events') = IF events = <<>> THEN t ELSE Head(events)
<1>1. t \notin Queued
  BY DEF StatusInv
<1>2. events \in Seq(Threads) /\ IsInjective(events) /\ events' = Append(events, t)
  BY DEF TypeInv, TypeOK, Reap
<1>3. events' \in Seq(Threads) /\ IsInjective(events') /\ Queued' = Queued \cup {t}
  BY <1>1, <1>2, AppendNew, AppendShape DEF Queued
<1>4. events' # <<>> /\ Head(events') = IF events = <<>> THEN t ELSE Head(events)
  BY <1>2
<1>5. QED
  BY <1>1, <1>3, <1>4

LEMMA Attaching ==
  ASSUME TypeInv, UnbornInv, MsgsInv, NEW m \in msgs, Attach(m)
  PROVE  /\ m.th \in Threads /\ run[m.th] \in {"held", "wild"} /\ m.th \notin Listed
         /\ threads' \in Seq(Threads) /\ IsInjective(threads')
         /\ Listed' = Listed \cup {m.th}
<1>1. m.th \in Threads /\ threads \in Seq(Threads) /\ IsInjective(threads)
  BY DEF TypeInv, TypeOK
<1>2. run[m.th] \in {"held", "wild"} /\ m.th \notin Listed
  BY <1>1 DEF Attach, MsgsInv, UnbornInv, Unborn
<1>3. threads' = Append(threads, m.th)
  BY DEF Attach
<1>4. threads' \in Seq(Threads) /\ IsInjective(threads') /\ Listed' = Listed \cup {m.th}
  BY <1>1, <1>2, <1>3, AppendNew, AppendShape DEF Listed
<1>5. QED
  BY <1>1, <1>2, <1>4

LEMMA ListedThreads ==
  ASSUME TypeInv
  PROVE  Listed \subseteq Threads /\ Queued \subseteq Threads
BY ToSetMember DEF TypeInv, TypeOK, Listed, Queued

LEMMA TypeLived ==
  ASSUME TypeInv, Lived, Counted
  PROVE  TypeInv'
<1> USE InferiorAssumption DEF TypeInv, TypeOK, Counted, Known, kernel, info, flags, control,
      history, Lives, Places, Status
<1>1. ASSUME NEW t \in Threads, Traps(t)
      PROVE  TypeInv'
  BY <1>1 DEF Traps, Trapped
<1>2. ASSUME NEW t \in Threads, Ends(t)
      PROVE  TypeInv'
  BY <1>2 DEF Ends, Zombie
<1>3. ASSUME NEW t \in Threads, RunsOn(t)
      PROVE  TypeInv'
  BY <1>3 DEF RunsOn
<1>4. ASSUME NEW t \in Threads, NEW u \in Threads, Creates(t, u)
      PROVE  TypeInv'
  <2>1. run' \in [Threads -> Lives]
    BY <1>4 DEF Creates, Trapped
  <2>2. /\ at' \in [Threads -> Places]
        /\ report' \in [Threads -> Status]
    BY <1>4 DEF Creates, Trapped
  <2>3. /\ UNCHANGED <<pending, threads, last_status, last_signal, expired, sent, found>>
        /\ UNCHANGED <<last_signaled_thread, current_thread_is_dead, check_events_again>>
        /\ UNCHANGED <<do_search_for_threads, singlestep, events, phase, cur, h, told, handles>>
        /\ merged' = merged \ {t}
    BY <1>4 DEF Creates, Trapped
  <2>4. QED
    BY <2>1, <2>2, <2>3
<1>5. ASSUME NEW t \in Threads, NEW s \in Signals, Sends(t, s)
      PROVE  TypeInv'
  BY <1>5 DEF Sends
<1>6. ASSUME NEW t \in Threads, NEW s \in Signals \cup {Trap}, Takes(t, s)
      PROVE  TypeInv'
  BY <1>6 DEF Takes
<1>7. QED
  BY <1>1, <1>2, <1>3, <1>4, <1>5, <1>6 DEF Lived

LEMMA TypeDebugged ==
  ASSUME TypeInv, UnbornInv, MsgsInv, StatusInv, FlagsInv, StopInv, Debugged, Counted
  PROVE  TypeInv'
<1> USE InferiorAssumption DEF TypeInv, TypeOK, Counted, kernel, info, flags, control,
      history, Lives, Places, Status
<1>1. Listed \subseteq Threads
  BY ListedThreads
<1>2. CASE Looks
  BY <1>2 DEF Looks, Watches
<1>3. CASE Kills
  <2>1. Current \in Threads
    BY <1>3, CurrentListed DEF Kills, Stopping, StopInv
  <2>2. QED
    BY <1>3, <2>1 DEF Kills, Watches
<1>4. CASE Owns
  <2>1. Current \in Threads
    BY <1>4, CurrentListed DEF Owns, Stopping, StopInv
  <2>2. QED
    BY <1>4, <2>1 DEF Owns, Watches
<1>5. ASSUME NEW t \in Threads, Reaps(t)
      PROVE  TypeInv'
  <2>1. events' \in Seq(Threads) /\ IsInjective(events')
    BY <1>5, Reaping DEF Reaps
  <2>2. QED
    BY <1>5, <2>1 DEF Reaps, Watches, Reap
<1>6. ASSUME NEW t \in Threads, Tells(t)
      PROVE  TypeInv'
  <2>a. at' = at \/ at' = [at EXCEPT ![t] = "code"]
    BY <1>6 DEF Tells
  <2>b. \/ last_signal' = last_signal
        \/ last_status[t] \in Signals /\ last_signal' = [last_signal EXCEPT ![t] = last_status[t]]
    BY <1>6 DEF Tells
  <2>1. at' \in [Threads -> Places] /\ last_signal' \in [Threads -> Signals \cup {Null}]
    BY <2>a, <2>b
  <2>2. /\ UNCHANGED <<run, pending, report, threads, last_status, expired, sent,
                        last_signaled_thread, current_thread_is_dead, handles>>
        /\ UNCHANGED <<singlestep, cur>>
        /\ merged' \subseteq Threads /\ check_events_again' \in BOOLEAN
        /\ events' \in Seq(Threads) /\ IsInjective(events') /\ h' = t
        /\ phase' \in {"user", "continue"}
        /\ told' \in [type : Loops \cup {"over", "step", "load", "hit", "signal"},
                       th : Threads \cup {Null}]
    BY <1>6 DEF Tells, Turn, Answered
  <2>3. QED
    BY <2>1, <2>2
<1>7. ASSUME NEW t \in Threads, Drops(t)
      PROVE  TypeInv'
  BY <1>7 DEF Drops, Turn, Answered, Removed, ForgetSignaled
<1>8. ASSUME NEW t \in Threads, Quits(t)
      PROVE  TypeInv'
  BY <1>8 DEF Quits, Turn
<1>9. ASSUME NEW t \in Threads, NEW u \in Threads, Detaches(t, u)
      PROVE  TypeInv'
  BY <1>9 DEF Detaches, Turn, Answered, Removed, ForgetSignaled
<1>10. ASSUME NEW t \in Threads, NEW m \in msgs, Attaches(t, m)
      PROVE  TypeInv'
  <2>1. m.th \in Threads /\ threads' \in Seq(Threads) /\ IsInjective(threads')
    BY <1>10, Attaching DEF Attaches
  <2>2. QED
    BY <1>10, <2>1 DEF Attaches, Turn, Answered, Attach
<1>11. ASSUME NEW step \in BOOLEAN, Waits(step)
      PROVE  TypeInv'
  BY <1>11 DEF Waits, Asks
<1>12. ASSUME NEW step \in BOOLEAN, Resumes(step)
      PROVE  TypeInv'
  BY <1>12 DEF Resumes, Asks, ResumeAllThreads
<1>13. QED
  BY <1>2, <1>3, <1>4, <1>5, <1>6, <1>7, <1>8, <1>9, <1>10, <1>11, <1>12 DEF Debugged

-----------------------------------------------------------------------------
(* Threads that nobody has attached to, and the list *)

LEMMA SameSets ==
  /\ threads' = threads => Listed' = Listed
  /\ events' = events => Queued' = Queued
BY DEF Listed, Queued

LEMMA UnbornLived ==
  ASSUME TypeInv, UnbornInv, Lived
  PROVE  UnbornInv'
<1> USE DEF TypeInv, TypeOK, UnbornInv, Unborn, Known, info, control, history
<1>1. ASSUME NEW t \in Threads, Traps(t)
      PROVE  UnbornInv'
  BY <1>1, SameSets DEF Traps, Trapped, Executes, Free, Runs
<1>2. ASSUME NEW t \in Threads, Ends(t)
      PROVE  UnbornInv'
  BY <1>2, SameSets DEF Ends, Zombie
<1>3. ASSUME NEW t \in Threads, RunsOn(t)
      PROVE  UnbornInv'
  BY <1>3, SameSets DEF RunsOn, Free, Runs
<1>4. ASSUME NEW t \in Threads, NEW u \in Threads, Creates(t, u)
      PROVE  UnbornInv'
  BY <1>4, SameSets DEF Creates, Trapped, Executes, Free, Runs
<1>5. ASSUME NEW t \in Threads, NEW s \in Signals, Sends(t, s)
      PROVE  UnbornInv'
  BY <1>5, SameSets DEF Sends, Alive
<1>6. ASSUME NEW t \in Threads, NEW s \in Signals \cup {Trap}, Takes(t, s)
      PROVE  UnbornInv'
  BY <1>6, SameSets DEF Takes
<1>7. QED
  BY <1>1, <1>2, <1>3, <1>4, <1>5, <1>6 DEF Lived

LEMMA UnbornDebugged ==
  ASSUME TypeInv, UnbornInv, MsgsInv, StatusInv, FlagsInv, StopInv, Debugged
  PROVE  UnbornInv'
<1> USE DEF TypeInv, TypeOK, UnbornInv, Unborn, kernel, info, history
<1>1. CASE Looks
  BY <1>1, SameSets DEF Looks, Watches
<1>2. CASE Kills
  <2>1. Current \in Threads /\ Current \in Listed
    BY <1>2, CurrentListed DEF Kills, Stopping, StopInv
  <2>2. QED
    BY <1>2, <2>1, SameSets DEF Kills, Watches
<1>3. CASE Owns
  <2>1. Current \in Threads /\ Current \in Listed
    BY <1>3, CurrentListed DEF Owns, Stopping, StopInv
  <2>2. QED
    BY <1>3, <2>1, SameSets DEF Owns, Watches
<1>4. ASSUME NEW t \in Threads, Reaps(t)
      PROVE  UnbornInv'
  <2>1. Queued' = Queued \cup {t}
    BY <1>4, Reaping DEF Reaps
  <2>2. QED
    BY <1>4, <2>1, SameSets DEF Reaps, Watches, Reap
<1>5. ASSUME NEW t \in Threads, Tells(t)
      PROVE  UnbornInv'
  BY <1>5, SameSets DEF Tells, Turn
<1>6. ASSUME NEW t \in Threads, Drops(t)
      PROVE  UnbornInv'
  BY <1>6 DEF Drops, Turn, Removed
<1>7. ASSUME NEW t \in Threads, Quits(t)
      PROVE  UnbornInv'
  BY <1>7, SameSets DEF Quits, Turn
<1>8. ASSUME NEW t \in Threads, NEW u \in Threads, Detaches(t, u)
      PROVE  UnbornInv'
  BY <1>8 DEF Detaches, Turn, Removed
<1>9. ASSUME NEW t \in Threads, NEW m \in msgs, Attaches(t, m)
      PROVE  UnbornInv'
  <2>1. m.th \in Threads /\ Listed' = Listed \cup {m.th}
    BY <1>9, Attaching DEF Attaches
  <2>2. QED
    BY <1>9, <2>1 DEF Attaches, Turn, Attach
<1>10. ASSUME NEW step \in BOOLEAN, Waits(step)
      PROVE  UnbornInv'
  BY <1>10, SameSets DEF Waits, Asks
<1>11. ASSUME NEW step \in BOOLEAN, Resumes(step)
      PROVE  UnbornInv'
  BY <1>11, SameSets DEF Resumes, Asks, ResumeAllThreads, Continued
<1>12. QED
  BY <1>1, <1>2, <1>3, <1>4, <1>5, <1>6, <1>7, <1>8, <1>9, <1>10, <1>11 DEF Debugged

LEMMA MsgsLived ==
  ASSUME TypeInv, MsgsInv, Lived
  PROVE  MsgsInv'
<1> USE DEF TypeInv, TypeOK, MsgsInv, Known
<1>1. ASSUME NEW t \in Threads, Traps(t)
      PROVE  MsgsInv'
  BY <1>1 DEF Traps, Trapped, Executes, Free, Runs
<1>2. ASSUME NEW t \in Threads, Ends(t)
      PROVE  MsgsInv'
  BY <1>2 DEF Ends, Zombie, Free, Runs
<1>3. ASSUME NEW t \in Threads, RunsOn(t)
      PROVE  MsgsInv'
  BY <1>3 DEF RunsOn
<1>4. ASSUME NEW t \in Threads, NEW u \in Threads, Creates(t, u)
      PROVE  MsgsInv'
  BY <1>4 DEF Creates, Trapped, Executes, Free, Runs
<1>5. ASSUME NEW t \in Threads, NEW s \in Signals, Sends(t, s)
      PROVE  MsgsInv'
  BY <1>5 DEF Sends
<1>6. ASSUME NEW t \in Threads, NEW s \in Signals \cup {Trap}, Takes(t, s)
      PROVE  MsgsInv'
  BY <1>6 DEF Takes, Runs
<1>7. QED
  BY <1>1, <1>2, <1>3, <1>4, <1>5, <1>6 DEF Lived

LEMMA MsgsDebugged ==
  ASSUME TypeInv, UnbornInv, MsgsInv, StatusInv, Debugged
  PROVE  MsgsInv'
<1> USE DEF TypeInv, TypeOK, MsgsInv, kernel
<1>1. CASE Looks \/ Kills \/ Owns \/ \E t \in Threads : Reaps(t)
  BY <1>1 DEF Looks, Kills, Owns, Reaps, Watches
<1>2. ASSUME NEW t \in Threads, Tells(t) \/ Drops(t)
      PROVE  MsgsInv'
  BY <1>2 DEF Tells, Drops
<1>3. ASSUME NEW t \in Threads, Quits(t)
      PROVE  MsgsInv'
  BY <1>3 DEF Quits, UnbornInv, Unborn
<1>4. ASSUME NEW t \in Threads, NEW u \in Threads, Detaches(t, u)
      PROVE  MsgsInv'
  BY <1>4 DEF Detaches
<1>5. ASSUME NEW t \in Threads, NEW m \in msgs, Attaches(t, m)
      PROVE  MsgsInv'
  BY <1>5 DEF Attaches, Attach
<1>6. ASSUME NEW step \in BOOLEAN, Waits(step)
      PROVE  MsgsInv'
  BY <1>6 DEF Waits, Asks
<1>7. ASSUME NEW step \in BOOLEAN, Resumes(step)
      PROVE  MsgsInv'
  BY <1>7 DEF Resumes, Asks, ResumeAllThreads, Continued
<1>8. QED
  BY <1>1, <1>2, <1>3, <1>4, <1>5, <1>6, <1>7 DEF Debugged

LEMMA ListLived ==
  ASSUME TypeInv, ListInv, phase # "over", Lived
  PROVE  ListInv'
<1> USE DEF TypeInv, TypeOK, ListInv, Unborn, Alive, Ending, Runs, Known, info, control
<1>1. ASSUME NEW t \in Threads, Traps(t)
      PROVE  ListInv'
  BY <1>1, SameSets DEF Traps, Trapped, Executes, Free
<1>2. ASSUME NEW t \in Threads, Ends(t)
      PROVE  ListInv'
  BY <1>2, SameSets DEF Ends, Zombie, Free
<1>3. ASSUME NEW t \in Threads, RunsOn(t)
      PROVE  ListInv'
  BY <1>3, SameSets DEF RunsOn, Free
<1>4. ASSUME NEW t \in Threads, NEW u \in Threads, Creates(t, u)
      PROVE  ListInv'
  BY <1>4, SameSets DEF Creates, Trapped, Executes, Free
<1>5. ASSUME NEW t \in Threads, NEW s \in Signals, Sends(t, s)
      PROVE  ListInv'
  BY <1>5, SameSets DEF Sends
<1>6. ASSUME NEW t \in Threads, NEW s \in Signals \cup {Trap}, Takes(t, s)
      PROVE  ListInv'
  BY <1>6, SameSets DEF Takes
<1>7. QED
  BY <1>1, <1>2, <1>3, <1>4, <1>5, <1>6 DEF Lived

LEMMA ListDebugged ==
  ASSUME TypeInv, UnbornInv, MsgsInv, ListInv, StatusInv, FlagsInv, StopInv, FrozenInv,
         phase # "over", Debugged
  PROVE  ListInv'
<1> USE DEF TypeInv, TypeOK, ListInv, Unborn, Alive, Ending, kernel, info
<1>1. CASE Looks
  BY <1>1, SameSets DEF Looks, Watches
<1>2. CASE Kills
  <2>1. Current \in Threads /\ Current \in Listed
    BY <1>2, CurrentListed DEF Kills, Stopping, StopInv
  <2>2. QED
    BY <1>2, <2>1, SameSets DEF Kills, Watches
<1>3. CASE Owns
  <2>1. Current \in Threads /\ Current \in Listed
    BY <1>3, CurrentListed DEF Owns, Stopping, StopInv
  <2>2. QED
    BY <1>3, <2>1, SameSets DEF Owns, Watches
<1>4. ASSUME NEW t \in Threads, Reaps(t)
      PROVE  ListInv'
  <2>1. t \notin Queued /\ Queued' = Queued \cup {t}
    BY <1>4, Reaping DEF Reaps
  <2>2. QED
    BY <1>4, <2>1, SameSets DEF Reaps, Watches, Reap
<1>5. ASSUME NEW t \in Threads, Tells(t)
      PROVE  ListInv'
  BY <1>5, SameSets DEF Tells, Turn, Answered
<1>6. ASSUME NEW t \in Threads, Drops(t)
      PROVE  ListInv'
  <2>1. Ending(t)
    BY <1>6 DEF Drops, StatusInv
  <2>2. QED
    BY <1>6, <2>1 DEF Drops, Turn, Removed
<1>7. ASSUME NEW t \in Threads, Quits(t)
      PROVE  ListInv'
  BY <1>7, SameSets DEF Quits, Turn
<1>8. ASSUME NEW t \in Threads, NEW u \in Threads, Detaches(t, u)
      PROVE  ListInv'
  <2>1. run[u] \in {"stopped", "zombie"}
    BY <1>8 DEF Detaches, Turn, FrozenInv, StoppedWhenLooked, Frozen
  <2>2. QED
    BY <1>8, <2>1, SameSets DEF Detaches, Turn, Removed
<1>9. ASSUME NEW t \in Threads, NEW m \in msgs, Attaches(t, m)
      PROVE  ListInv'
  <2>1. /\ m.th \in Threads /\ m.th \notin Listed /\ Listed' = Listed \cup {m.th}
        /\ run[m.th] \in {"held", "wild"}
    BY <1>9, Attaching DEF Attaches
  <2>2. QED
    BY <1>9, <2>1, SameSets DEF Attaches, Turn, Answered, Attach
<1>10. ASSUME NEW step \in BOOLEAN, Waits(step)
      PROVE  ListInv'
  BY <1>10, SameSets DEF Waits, Asks
<1>11. ASSUME NEW step \in BOOLEAN, Resumes(step)
      PROVE  ListInv'
  <2>1. \A x \in Threads : run[x] = "stopped" => last_status[x] # "exit"
    BY DEF StatusInv
  <2>2. QED
    BY <1>11, <2>1, SameSets DEF Resumes, Asks, ResumeAllThreads, Continued
<1>12. QED
  BY <1>1, <1>2, <1>3, <1>4, <1>5, <1>6, <1>7, <1>8, <1>9, <1>10, <1>11 DEF Debugged

LEMMA StatusLived ==
  ASSUME TypeInv, UnbornInv, StatusInv, Lived
  PROVE  StatusInv'
<1> USE InferiorAssumption DEF TypeInv, TypeOK, StatusInv, Ending, Runs, Known, info, control
<1>1. ASSUME NEW t \in Threads, Traps(t)
      PROVE  StatusInv'
  BY <1>1, SameSets DEF Traps, Trapped, Executes, Free, UnbornInv, Unborn, Alive
<1>2. ASSUME NEW t \in Threads, Ends(t)
      PROVE  StatusInv'
  BY <1>2, SameSets DEF Ends, Zombie, Free, UnbornInv, Unborn, Alive
<1>3. ASSUME NEW t \in Threads, RunsOn(t)
      PROVE  StatusInv'
  BY <1>3, SameSets DEF RunsOn, Free, UnbornInv, Unborn, Alive
<1>4. ASSUME NEW t \in Threads, NEW u \in Threads, Creates(t, u)
      PROVE  StatusInv'
  BY <1>4, SameSets DEF Creates, Trapped, Executes, Free, UnbornInv, Unborn, Alive
<1>5. ASSUME NEW t \in Threads, NEW s \in Signals, Sends(t, s)
      PROVE  StatusInv'
  BY <1>5, SameSets DEF Sends, UnbornInv, Unborn, Alive
<1>6. ASSUME NEW t \in Threads, NEW s \in Signals \cup {Trap}, Takes(t, s)
      PROVE  StatusInv'
  BY <1>6, SameSets DEF Takes, UnbornInv, Unborn, Alive
<1>7. QED
  BY <1>1, <1>2, <1>3, <1>4, <1>5, <1>6 DEF Lived

\* Nobody is resumed whose status is unread.
LEMMA ResumedIsRead ==
  ASSUME TypeInv, FlagsInv, FrozenInv, NEW step \in BOOLEAN, Asks(step),
         NEW t \in Threads, Unreaped(t), NEW u \in Threads
  PROVE  /\ step /\ ~check_events_again
         /\ u \notin Continued(step, last_signaled_thread')
<1>1. /\ singlestep /\ phase = "continue" /\ run[h] # "stopped" /\ ~check_events_again
  BY DEF Asks, FrozenInv, Frozen
<1>2. step
  BY <1>1 DEF Asks
<1>3. u = last_signaled_thread' => run[u] # "stopped"
  <2>1. CASE current_thread_is_dead
    BY <2>1, InferiorAssumption DEF Asks, FlagsInv
  <2>2. CASE ~current_thread_is_dead
    BY <1>1, <2>2 DEF Asks
  <2>3. QED
    BY <2>1, <2>2
<1>4. QED
  BY <1>1, <1>2, <1>3 DEF Continued

LEMMA StatusDebugged ==
  ASSUME TypeInv, UnbornInv, MsgsInv, StatusInv, FlagsInv, StopInv, FrozenInv, Debugged
  PROVE  StatusInv'
<1> USE InferiorAssumption DEF TypeInv, TypeOK, StatusInv, Ending, Runs, kernel, info
<1>1. CASE Looks
  BY <1>1, SameSets DEF Looks, Watches
<1>2. CASE Kills
  <2>1. Current \in Threads /\ Current \in Listed
    BY <1>2, CurrentListed DEF Kills, Stopping, StopInv
  <2>2. QED
    BY <1>2, <2>1, SameSets DEF Kills, Watches
<1>3. CASE Owns
  <2>1. Current \in Threads /\ Current \in Listed
    BY <1>3, CurrentListed DEF Owns, Stopping, StopInv
  <2>2. QED
    BY <1>3, <2>1, SameSets DEF Owns, Watches
<1>4. ASSUME NEW t \in Threads, Reaps(t)
      PROVE  StatusInv'
  <2>1. t \notin Queued /\ Queued' = Queued \cup {t}
    BY <1>4, Reaping DEF Reaps
  <2>2. QED
    BY <1>4, <2>1, SameSets DEF Reaps, Watches, Reap
<1>5. ASSUME NEW t \in Threads, Tells(t)
      PROVE  StatusInv'
  BY <1>5, SameSets DEF Tells, Turn, Answered
<1>6. ASSUME NEW t \in Threads, Drops(t)
      PROVE  StatusInv'
  BY <1>6, SameSets DEF Drops, Turn, Answered, Removed, ForgetSignaled
<1>7. ASSUME NEW t \in Threads, Quits(t)
      PROVE  StatusInv'
  BY <1>7, SameSets DEF Quits, Turn
<1>8. ASSUME NEW t \in Threads, NEW u \in Threads, Detaches(t, u)
      PROVE  StatusInv'
  <2>1. run[u] = "stopped" => report[u] = Null
    BY <1>8 DEF Detaches, Turn, FrozenInv, Frozen, Unreaped
  <2>2. QED
    BY <1>8, <2>1, SameSets DEF Detaches, Turn
<1>9. ASSUME NEW t \in Threads, NEW m \in msgs, Attaches(t, m)
      PROVE  StatusInv'
  <2>1. /\ m.th \in Threads /\ m.th \notin Listed /\ Listed' = Listed \cup {m.th}
        /\ run[m.th] \in {"held", "wild"}
    BY <1>9, Attaching DEF Attaches
  <2>2. QED
    BY <1>9, <2>1, SameSets DEF Attaches, Turn, Attach, UnbornInv, Unborn
<1>10. ASSUME NEW step \in BOOLEAN, Waits(step)
      PROVE  StatusInv'
  BY <1>10, SameSets DEF Waits, Asks
<1>11. ASSUME NEW step \in BOOLEAN, Resumes(step)
      PROVE  StatusInv'
  <2>1. \A x \in Continued(step, last_signaled_thread') : report[x] = Null
    BY <1>11, ResumedIsRead DEF Resumes, Unreaped, Continued
  <2>2. QED
    BY <1>11, <2>1, SameSets DEF Resumes, Asks, ResumeAllThreads, Continued, Queued, ToSet
<1>12. QED
  BY <1>1, <1>2, <1>3, <1>4, <1>5, <1>6, <1>7, <1>8, <1>9, <1>10, <1>11 DEF Debugged

-----------------------------------------------------------------------------
(* What the flags say, and whom the user is told of *)

LEMMA FlagsLived ==
  ASSUME TypeInv, FlagsInv, Lived
  PROVE  FlagsInv'
BY DEF FlagsInv, Frozen, Lived, Traps, Trapped, Ends, RunsOn, Creates, Sends, Takes, Known, info,
       flags, control

LEMMA UserLived ==
  ASSUME TypeInv, ToldInv, Lived
  PROVE  ToldInv'
BY SameSets DEF ToldInv, ToldOfKnown, history, Lived, Traps, Trapped, Ends, RunsOn, Creates, Sends, Takes, Known, info,
       flags, control

LEMMA FlagsDebugged ==
  ASSUME TypeInv, UnbornInv, MsgsInv, StatusInv, FlagsInv, StopInv, Debugged
  PROVE  FlagsInv'
<1> USE InferiorAssumption DEF TypeInv, TypeOK, FlagsInv, Frozen, kernel, info
<1>1. CASE Looks
  BY <1>1, SameSets DEF Looks, Watches
<1>2. CASE Kills
  <2>1. Current \in Threads /\ Current \in Listed
    BY <1>2, CurrentListed DEF Kills, Stopping, StopInv
  <2>2. QED
    BY <1>2, <2>1, SameSets DEF Kills, Watches
<1>3. CASE Owns
  <2>1. Current \in Threads /\ Current \in Listed
    BY <1>3, CurrentListed DEF Owns, Stopping, StopInv
  <2>2. QED
    BY <1>3, <2>1, SameSets DEF Owns, Watches
<1>4. ASSUME NEW t \in Threads, Reaps(t)
      PROVE  FlagsInv'
  <2>1. t \notin Queued /\ Queued' = Queued \cup {t}
    BY <1>4, Reaping DEF Reaps
  <2>2. QED
    BY <1>4, <2>1, SameSets DEF Reaps, Watches, Reap
<1>5. ASSUME NEW t \in Threads, Tells(t)
      PROVE  FlagsInv'
  BY <1>5, SameSets DEF Tells, Turn, Answered
<1>6. ASSUME NEW t \in Threads, Drops(t)
      PROVE  FlagsInv'
  BY <1>6, SameSets DEF Drops, Turn, Answered, Removed, ForgetSignaled
<1>7. ASSUME NEW t \in Threads, Quits(t)
      PROVE  FlagsInv'
  BY <1>7, SameSets DEF Quits, Turn
<1>8. ASSUME NEW t \in Threads, NEW u \in Threads, Detaches(t, u)
      PROVE  FlagsInv'
  BY <1>8, SameSets DEF Detaches, Turn, Answered, Removed, ForgetSignaled
<1>9. ASSUME NEW t \in Threads, NEW m \in msgs, Attaches(t, m)
      PROVE  FlagsInv'
  <2>1. /\ m.th \in Threads /\ m.th \notin Listed /\ Listed' = Listed \cup {m.th}
        /\ run[m.th] \in {"held", "wild"}
    BY <1>9, Attaching DEF Attaches
  <2>2. QED
    BY <1>9, <2>1, SameSets DEF Attaches, Turn, Answered, Attach
<1>10. ASSUME NEW step \in BOOLEAN, Waits(step)
      PROVE  FlagsInv'
  BY <1>10, SameSets DEF Waits, Asks
<1>11. ASSUME NEW step \in BOOLEAN, Resumes(step)
      PROVE  FlagsInv'
  BY <1>11, SameSets DEF Resumes, Asks, ResumeAllThreads, Continued
<1>12. QED
  BY <1>1, <1>2, <1>3, <1>4, <1>5, <1>6, <1>7, <1>8, <1>9, <1>10, <1>11 DEF Debugged

LEMMA UserDebugged ==
  ASSUME TypeInv, UnbornInv, MsgsInv, StatusInv, FlagsInv, StopInv, ToldInv,
         phase # "over", found = {}, Debugged
  PROVE  ToldInv'
<1> USE DEF ToldInv, ToldOfKnown, info, history
<1>1. CASE Looks \/ Kills \/ Owns
  BY <1>1, SameSets DEF Looks, Kills, Owns, Watches
<1>2. ASSUME NEW t \in Threads, Reaps(t)
      PROVE  ToldInv'
  <2>1. Queued' = Queued \cup {t} /\ t \in Listed
    BY <1>2, Reaping DEF Reaps
  <2>2. QED
    BY <1>2, <2>1, SameSets DEF Reaps, Watches
<1>3. ASSUME NEW t \in Threads, Tells(t)
      PROVE  ToldInv'
  BY <1>3, SameSets DEF Tells, Turn, Answered
<1>4. ASSUME NEW t \in Threads, Drops(t)
      PROVE  ToldInv'
  <2>1. Queued' = Queued \ {t}
    BY <1>4, InferiorAssumption DEF Drops, Turn, FlagsInv
  <2>2. phase # "failed" /\ Listed' = Listed \ {t} /\ handles' = handles \ {t}
    BY <1>4 DEF Drops, Turn, Removed
  <2>3. QED
    BY <1>4, <2>1, <2>2 DEF Drops
<1>5. ASSUME NEW t \in Threads, Quits(t)
      PROVE  ToldInv'
  BY <1>5, SameSets DEF Quits, Turn
<1>6. ASSUME NEW t \in Threads, NEW u \in Threads, Detaches(t, u)
      PROVE  ToldInv'
  BY <1>6 DEF Detaches, Turn, Removed
<1>7. ASSUME NEW t \in Threads, NEW m \in msgs, Attaches(t, m)
      PROVE  ToldInv'
  <2>1. Listed' = Listed \cup {m.th} /\ expired' = expired
    BY <1>7, Attaching DEF Attaches, Attach
  <2>2. QED
    BY <1>7, <2>1 DEF Attaches, Turn
<1>8. ASSUME NEW step \in BOOLEAN, Waits(step) \/ Resumes(step)
      PROVE  ToldInv'
  BY <1>8, SameSets DEF Waits, Resumes, Asks
<1>9. QED
  BY <1>1, <1>2, <1>3, <1>4, <1>5, <1>6, <1>7, <1>8 DEF Debugged

-----------------------------------------------------------------------------
(* Signals *)

LEMMA SentLived ==
  ASSUME TypeInv, UnbornInv, ListInv, StatusInv, SentInv, Lived
  PROVE  SentInv'
<1> USE InferiorAssumption DEF TypeInv, TypeOK, SentInv, Somewhere, Alive, Known, info, control, history
<1>1. ASSUME NEW t \in Threads, Traps(t)
      PROVE  SentInv'
  BY <1>1, SameSets DEF Traps, Trapped, Executes, Free, UnbornInv, Unborn, StatusInv, Runs
<1>2. ASSUME NEW t \in Threads, Ends(t)
      PROVE  SentInv'
  BY <1>2, SameSets DEF Ends, Zombie, Free, UnbornInv, Unborn, StatusInv, Runs
<1>3. ASSUME NEW t \in Threads, RunsOn(t)
      PROVE  SentInv'
  BY <1>3, SameSets DEF RunsOn, Free, UnbornInv, Unborn, StatusInv, Runs
<1>4. ASSUME NEW t \in Threads, NEW u \in Threads, Creates(t, u)
      PROVE  SentInv'
  BY <1>4, SameSets DEF Creates, Trapped, Executes, Free, UnbornInv, Unborn, StatusInv, Runs
<1>5. ASSUME NEW t \in Threads, NEW s \in Signals, Sends(t, s)
      PROVE  SentInv'
  BY <1>5, SameSets DEF Sends, UnbornInv, Unborn, StatusInv, Runs
<1>6. ASSUME NEW t \in Threads, NEW s \in Signals \cup {Trap}, Takes(t, s)
      PROVE  SentInv'
  BY <1>6, SameSets DEF Takes, UnbornInv, Unborn, StatusInv, Runs
<1>7. QED
  BY <1>1, <1>2, <1>3, <1>4, <1>5, <1>6 DEF Lived

LEMMA SentDebugged ==
  ASSUME TypeInv, UnbornInv, MsgsInv, ListInv, StatusInv, FlagsInv, StopInv, FrozenInv, SentInv,
         phase # "over", Debugged
  PROVE  SentInv'
<1> USE InferiorAssumption DEF TypeInv, TypeOK, SentInv, Somewhere, Alive, kernel, info, history
<1>1. CASE Looks
  BY <1>1, SameSets DEF Looks, Watches, StatusInv
<1>2. CASE Kills
  <2>1. Current \in Threads /\ Current \in Listed
    BY <1>2, CurrentListed DEF Kills, Stopping, StopInv
  <2>2. QED
    BY <1>2, <2>1, SameSets DEF Kills, Watches, StatusInv
<1>3. CASE Owns
  <2>1. Current \in Threads /\ Current \in Listed
    BY <1>3, CurrentListed DEF Owns, Stopping, StopInv
  <2>2. QED
    BY <1>3, <2>1, SameSets DEF Owns, Watches, StatusInv
<1>4. ASSUME NEW t \in Threads, Reaps(t)
      PROVE  SentInv'
  <2>1. t \notin Queued /\ Queued' = Queued \cup {t}
    BY <1>4, Reaping DEF Reaps
  <2>2. QED
    BY <1>4, <2>1, SameSets DEF Reaps, Watches, Reap, StatusInv
<1>5. ASSUME NEW t \in Threads, Tells(t)
      PROVE  SentInv'
  <2>1. SUFFICES ASSUME NEW x \in Threads, Alive(x), NEW s \in Signals
                 PROVE  Somewhere(x, s)' <=> Somewhere(x, s)
    BY <1>5 DEF Tells
  <2>2. x \in Queued' <=> x \in Queued /\ (x # t \/ check_events_again)
    BY <1>5 DEF Tells, Turn
  <2>3. report' = report /\ last_status' = last_status
    BY <1>5 DEF Tells
  <2>4. CASE x = t /\ last_status[t] \in Signals
    <3>1. t \notin expired
      BY <2>1, <2>4 DEF ListInv, Ending
    <3>2. last_signal' = [last_signal EXCEPT ![t] = last_status[t]] /\ t \in Queued /\ ~check_events_again
      BY <1>5, <2>4, <3>1 DEF Tells
    <3>3. last_signal[t] = Null
      BY <3>2 DEF StatusInv
    <3>4. QED
      BY <2>2, <2>3, <2>4, <3>2, <3>3
  <2>5. CASE x = t /\ last_status[t] \notin Signals
    BY <1>5, <2>2, <2>3, <2>5 DEF Tells
  <2>6. CASE x # t
    BY <1>5, <2>2, <2>3, <2>6 DEF Tells
  <2>7. QED
    BY <2>4, <2>5, <2>6
<1>6. ASSUME NEW t \in Threads, Drops(t)
      PROVE  SentInv'
  BY <1>6, SameSets DEF Drops, Turn, Answered, Removed, ForgetSignaled, StatusInv
<1>7. ASSUME NEW t \in Threads, Quits(t)
      PROVE  SentInv'
  BY <1>7, SameSets DEF Quits, Turn, ListInv
<1>8. ASSUME NEW t \in Threads, NEW u \in Threads, Detaches(t, u)
      PROVE  SentInv'
  BY <1>8, SameSets DEF Detaches, Turn, Answered, Removed, ForgetSignaled, StatusInv
<1>9. ASSUME NEW t \in Threads, NEW m \in msgs, Attaches(t, m)
      PROVE  SentInv'
  <2>1. /\ m.th \in Threads /\ m.th \notin Listed /\ Listed' = Listed \cup {m.th}
        /\ run[m.th] \in {"held", "wild"}
    BY <1>9, Attaching DEF Attaches
  <2>2. QED
    BY <1>9, <2>1, SameSets DEF Attaches, Turn, Attach, UnbornInv, Unborn
<1>10. ASSUME NEW step \in BOOLEAN, Waits(step)
      PROVE  SentInv'
  BY <1>10, SameSets DEF Waits, Asks, StatusInv
<1>11. ASSUME NEW step \in BOOLEAN, Resumes(step)
      PROVE  SentInv'
  <2>1. events = <<>> /\ events' = events
    BY <1>11 DEF Resumes, Asks
  <2>2. Queued = {} /\ Queued' = {}
    BY <2>1 DEF Queued, ToSet
  <2>3. \A x \in Continued(step, last_signaled_thread') : run[x] = "stopped" /\ report[x] = Null
    BY <1>11, ResumedIsRead DEF Resumes, Unreaped, Continued
  <2>4. SUFFICES ASSUME NEW x \in Threads, Alive(x)', NEW s \in Signals
                 PROVE  /\ s \in sent'[x] <=> s \in pending'[x] \/ Somewhere(x, s)'
                        /\ ~(s \in pending'[x] /\ Somewhere(x, s)')
    OBVIOUS
  <2>5. CASE x \in Continued(step, last_signaled_thread')
    BY <1>11, <2>2, <2>3, <2>4, <2>5 DEF Resumes, Asks, ResumeAllThreads
  <2>6. CASE x \notin Continued(step, last_signaled_thread')
    BY <1>11, <2>2, <2>4, <2>6 DEF Resumes, Asks, ResumeAllThreads
  <2>7. QED
    BY <2>5, <2>6
<1>12. QED
  BY <1>1, <1>2, <1>3, <1>4, <1>5, <1>6, <1>7, <1>8, <1>9, <1>10, <1>11 DEF Debugged

-----------------------------------------------------------------------------
(* Breakpoints that were hit *)

LEMMA KeptLived ==
  ASSUME TypeInv, UnbornInv, StatusInv, HitsAreKeptUnlessMerged, Lived
  PROVE  HitsAreKeptUnlessMerged'
<1> USE InferiorAssumption DEF TypeInv, TypeOK, HitsAreKeptUnlessMerged, HitKnown, Runs, Known, info, control, history
<1>1. ASSUME NEW t \in Threads, Traps(t)
      PROVE  HitsAreKeptUnlessMerged'
  BY <1>1, SameSets DEF Traps, Trapped, Executes, Free, UnbornInv, Unborn, Alive, StatusInv
<1>2. ASSUME NEW t \in Threads, Ends(t)
      PROVE  HitsAreKeptUnlessMerged'
  BY <1>2, SameSets DEF Ends, Zombie, Free, UnbornInv, Unborn, Alive, StatusInv
<1>3. ASSUME NEW t \in Threads, RunsOn(t)
      PROVE  HitsAreKeptUnlessMerged'
  BY <1>3, SameSets DEF RunsOn, Free, UnbornInv, Unborn, Alive, StatusInv
<1>4. ASSUME NEW t \in Threads, NEW u \in Threads, Creates(t, u)
      PROVE  HitsAreKeptUnlessMerged'
  BY <1>4, SameSets DEF Creates, Trapped, Executes, Free, UnbornInv, Unborn, Alive, StatusInv
<1>5. ASSUME NEW t \in Threads, NEW s \in Signals, Sends(t, s)
      PROVE  HitsAreKeptUnlessMerged'
  BY <1>5, SameSets DEF Sends, UnbornInv, Unborn, Alive, StatusInv
<1>6. ASSUME NEW t \in Threads, NEW s \in Signals \cup {Trap}, Takes(t, s)
      PROVE  HitsAreKeptUnlessMerged'
  BY <1>6, SameSets DEF Takes, UnbornInv, Unborn, Alive, StatusInv
<1>7. QED
  BY <1>1, <1>2, <1>3, <1>4, <1>5, <1>6 DEF Lived

LEMMA KeptDebugged ==
  ASSUME TypeInv, UnbornInv, MsgsInv, ListInv, StatusInv, FlagsInv, StopInv, FrozenInv, HitsInv,
         phase # "over", Debugged
  PROVE  HitsAreKeptUnlessMerged'
<1> USE InferiorAssumption DEF TypeInv, TypeOK, HitsAreKeptUnlessMerged, HitKnown, kernel, info, history
<1>1. CASE Looks
  BY <1>1, SameSets DEF Looks, Watches, HitsInv
<1>2. CASE Kills
  <2>1. Current \in Threads /\ Current \in Listed
    BY <1>2, CurrentListed DEF Kills, Stopping, StopInv
  <2>2. QED
    BY <1>2, <2>1, SameSets DEF Kills, Watches, HitsInv
<1>3. CASE Owns
  <2>1. Current \in Threads /\ Current \in Listed
    BY <1>3, CurrentListed DEF Owns, Stopping, StopInv
  <2>2. QED
    BY <1>3, <2>1, SameSets DEF Owns, Watches, StopInv, HitsInv
<1>4. ASSUME NEW t \in Threads, Reaps(t)
      PROVE  HitsAreKeptUnlessMerged'
  <2>1. t \notin Queued /\ Queued' = Queued \cup {t}
    BY <1>4, Reaping DEF Reaps
  <2>2. QED
    BY <1>4, <2>1, SameSets DEF Reaps, Watches, Reap, HitsInv
<1>5. ASSUME NEW t \in Threads, Tells(t)
      PROVE  HitsAreKeptUnlessMerged'
  <2>1. SUFFICES ASSUME NEW x \in Threads, at'[x] = "bp", ~Ending(x)', x \notin merged'
                 PROVE  HitKnown(x)'
    BY DEF Ending
  <2>2. x \in Queued' <=> x \in Queued /\ (x # t \/ check_events_again)
    BY <1>5 DEF Tells, Turn
  <2>3. at[x] = "bp" /\ ~Ending(x) /\ x \notin merged /\ x \notin expired
    BY <1>5, <2>1 DEF Tells, ListInv, Ending
  <2>4. HitKnown(x)
    BY <2>3 DEF HitsInv, Ending
  <2>5. UNCHANGED <<report, pending, last_status>>
    BY <1>5 DEF Tells
  <2>6. x # t \/ last_status[t] # Trap
    BY <1>5, <2>1, <2>3 DEF Tells
  <2>7. QED
    BY <2>2, <2>4, <2>5, <2>6
<1>6. ASSUME NEW t \in Threads, Drops(t)
      PROVE  HitsAreKeptUnlessMerged'
  BY <1>6, SameSets DEF Drops, Turn, Answered, Removed, ForgetSignaled, HitsInv
<1>7. ASSUME NEW t \in Threads, Quits(t)
      PROVE  HitsAreKeptUnlessMerged'
  BY <1>7, SameSets DEF Quits, Turn, ListInv, Alive, Unborn, Ending, UnbornInv, Lives
<1>8. ASSUME NEW t \in Threads, NEW u \in Threads, Detaches(t, u)
      PROVE  HitsAreKeptUnlessMerged'
  BY <1>8, SameSets DEF Detaches, Turn, Answered, Removed, ForgetSignaled, HitsInv
<1>9. ASSUME NEW t \in Threads, NEW m \in msgs, Attaches(t, m)
      PROVE  HitsAreKeptUnlessMerged'
  <2>1. /\ m.th \in Threads /\ m.th \notin Listed /\ Listed' = Listed \cup {m.th}
        /\ run[m.th] \in {"held", "wild"}
    BY <1>9, Attaching DEF Attaches
  <2>2. QED
    BY <1>9, <2>1, SameSets DEF Attaches, Turn, Attach, HitsInv, UnbornInv, Unborn
<1>10. ASSUME NEW step \in BOOLEAN, Waits(step)
      PROVE  HitsAreKeptUnlessMerged'
  BY <1>10, SameSets DEF Waits, Asks, HitsInv
<1>11. ASSUME NEW step \in BOOLEAN, Resumes(step)
      PROVE  HitsAreKeptUnlessMerged'
  <2>1. events = <<>> /\ events' = events
    BY <1>11 DEF Resumes, Asks
  <2>2. Queued = {} /\ Queued' = {}
    BY <2>1 DEF Queued, ToSet
  <2>3. QED
    BY <1>11, <2>2 DEF Resumes, Asks, ResumeAllThreads, Continued, HitsInv
<1>12. QED
  BY <1>1, <1>2, <1>3, <1>4, <1>5, <1>6, <1>7, <1>8, <1>9, <1>10, <1>11 DEF Debugged

LEMMA HitsLived ==
  ASSUME TypeInv, UnbornInv, StatusInv, StopInv, HitsInv, Lived
  PROVE  HitsInv'
<1>1. HitsAreKeptUnlessMerged'
  BY KeptLived DEF HitsInv
<1>2. phase' = phase /\ Current' = Current
  BY DEF Lived, Traps, Trapped, Ends, RunsOn, Creates, Sends, Takes, Known, info, control, Current
<1>3. SUFFICES ASSUME phase = "first", at'[Current] = "bp", Current \notin merged'
               PROVE  ~Runs(Current)' /\ (report'[Current] = Trap => Trap \in pending'[Current])
  BY <1>1, <1>2 DEF HitsInv
<1>4. PICK c : c = Current /\ c \in Threads
  BY <1>3, CurrentListed DEF StopInv, Stopping
<1>5. Runs(c) => Trap \in pending[c]
  BY <1>3, <1>4 DEF StopInv
<1>6. at[c] = "bp" /\ c \notin merged => ~Runs(c) /\ (report[c] = Trap => Trap \in pending[c])
  BY <1>3, <1>4 DEF HitsInv
<1>7. at'[c] = "bp" /\ c \notin merged'
  BY <1>3, <1>4
<1> SUFFICES ~Runs(c)' /\ (report'[c] = Trap => Trap \in pending'[c])
  BY <1>4, <1>2
<1> HIDE <1>4
<1>8. c \in Threads
  BY <1>4
<1> USE InferiorAssumption DEF TypeInv, TypeOK, Runs, Known, history
<1>9. ASSUME NEW t \in Threads, Traps(t)
      PROVE  ~Runs(c)' /\ (report'[c] = Trap => Trap \in pending'[c])
  BY <1>5, <1>6, <1>7, <1>8, <1>9 DEF Traps, Trapped, Executes, Free
<1>10. ASSUME NEW t \in Threads, Ends(t)
      PROVE  ~Runs(c)' /\ (report'[c] = Trap => Trap \in pending'[c])
  BY <1>5, <1>6, <1>7, <1>8, <1>10 DEF Ends, Zombie, Free
<1>11. ASSUME NEW t \in Threads, RunsOn(t)
      PROVE  ~Runs(c)' /\ (report'[c] = Trap => Trap \in pending'[c])
  BY <1>5, <1>6, <1>7, <1>8, <1>11 DEF RunsOn, Free
<1>12. ASSUME NEW t \in Threads, NEW u \in Threads, Creates(t, u)
      PROVE  ~Runs(c)' /\ (report'[c] = Trap => Trap \in pending'[c])
  BY <1>5, <1>6, <1>7, <1>8, <1>12 DEF Creates, Trapped, Executes, Free
<1>13. ASSUME NEW t \in Threads, NEW s \in Signals, Sends(t, s)
      PROVE  ~Runs(c)' /\ (report'[c] = Trap => Trap \in pending'[c])
  BY <1>5, <1>6, <1>7, <1>8, <1>13 DEF Sends
<1>14. ASSUME NEW t \in Threads, NEW s \in Signals \cup {Trap}, Takes(t, s)
      PROVE  ~Runs(c)' /\ (report'[c] = Trap => Trap \in pending'[c])
  BY <1>5, <1>6, <1>7, <1>8, <1>14 DEF Takes
<1>15. QED
  BY <1>9, <1>10, <1>11, <1>12, <1>13, <1>14 DEF Lived

LEMMA HitsDebugged ==
  ASSUME TypeInv, UnbornInv, MsgsInv, ListInv, StatusInv, FlagsInv, StopInv, FrozenInv, HitsInv,
         phase # "over", Debugged
  PROVE  HitsInv'
<1>1. HitsAreKeptUnlessMerged'
  BY KeptDebugged
<1>2. CASE ~Kills
  <2>1. phase' # "first"
    BY <1>2 DEF Debugged, Looks, Owns, StopNext, Reaps, Tells, Answered, Drops, Quits, Detaches, Attaches,
         Waits, Resumes
  <2>2. QED
    BY <1>1, <2>1 DEF HitsInv
<1>3. CASE Kills
  <2>1. PICK c \in Threads : c = Current
    BY <1>3, CurrentListed DEF Kills, Stopping, StopInv
  <2>2. Current' = c
    BY <1>3, <2>1 DEF Kills, Same, Watches, Current
  <2>3. /\ pending' = IF run[c] = "zombie" THEN pending ELSE [pending EXCEPT ![c] = @ \cup {Trap}]
        /\ merged' = IF Trap \in pending[c] THEN merged \cup {c} ELSE merged
        /\ UNCHANGED <<report, run, at>>
    BY <1>3, <2>1 DEF Kills, Watches
  <2>4. ASSUME at[c] = "bp", c \notin merged'
        PROVE  ~Runs(c)
    BY <2>3, <2>4, InferiorAssumption DEF HitsInv, HitsAreKeptUnlessMerged, HitKnown, StatusInv, Runs
  <2>5. report[c] = Trap => Trap \in pending'[c]
    BY <2>3, InferiorAssumption DEF StatusInv, TypeInv, TypeOK
  <2>6. QED
    BY <1>1, <2>2, <2>3, <2>4, <2>5 DEF HitsInv, Runs
<1>4. QED
  BY <1>2, <1>3

-----------------------------------------------------------------------------
(* Stopping all threads *)

\* A thread that has stopped or ended stays as it is until the debugger resumes it.
LEMMA Settled ==
  ASSUME TypeInv, Lived, NEW t \in Threads
  PROVE  /\ run[t] \in {"stopped", "zombie"} => run'[t] = run[t] /\ report'[t] = report[t]
         /\ Runs(t)' => Runs(t) /\ pending[t] \subseteq pending'[t]
         /\ Unreaped(t)' => Unreaped(t) \/ Runs(t)
         /\ run'[t] = "stopped" => run[t] = "stopped" \/ Runs(t)
<1> USE DEF TypeInv, TypeOK, Runs, Unreaped, Known
<1> DEFINE G == /\ run[t] \in {"stopped", "zombie"} => run'[t] = run[t] /\ report'[t] = report[t]
                /\ Runs(t)' => Runs(t) /\ pending[t] \subseteq pending'[t]
                /\ Unreaped(t)' => Unreaped(t) \/ Runs(t)
                /\ run'[t] = "stopped" => run[t] = "stopped" \/ Runs(t)
<1>1. ASSUME NEW x \in Threads, Traps(x)
      PROVE  G
  BY <1>1 DEF Traps, Trapped, Executes, Free
<1>2. ASSUME NEW x \in Threads, Ends(x)
      PROVE  G
  BY <1>2 DEF Ends, Zombie, Free
<1>3. ASSUME NEW x \in Threads, RunsOn(x)
      PROVE  G
  BY <1>3 DEF RunsOn, Free
<1>4. ASSUME NEW x \in Threads, NEW u \in Threads, Creates(x, u)
      PROVE  G
  BY <1>4 DEF Creates, Trapped, Executes, Free
<1>5. ASSUME NEW x \in Threads, NEW s \in Signals, Sends(x, s)
      PROVE  G
  BY <1>5 DEF Sends
<1>6. ASSUME NEW x \in Threads, NEW s \in Signals \cup {Trap}, Takes(x, s)
      PROVE  G
  BY <1>6 DEF Takes
<1>7. QED
  BY <1>1, <1>2, <1>3, <1>4, <1>5, <1>6 DEF Lived

LEMMA LivedControl ==
  ASSUME Lived
  PROVE  /\ UNCHANGED <<info, flags, events, control>>
         /\ Listed' = Listed /\ Queued' = Queued
<1>1. UNCHANGED <<info, flags, events, control>>
  BY DEF Lived, Traps, Trapped, Ends, RunsOn, Creates, Sends, Takes, Known
<1>2. QED
  BY <1>1, SameSets DEF info

LEMMA StopLived ==
  ASSUME TypeInv, StopInv, Lived
  PROVE  StopInv'
<1>1. UNCHANGED <<threads, events, last_signaled_thread, singlestep, phase, cur>>
  BY LivedControl DEF info, flags, control
<1>2. Stopping' = Stopping /\ Current' = Current
  BY <1>1 DEF Stopping, Current
<1>3. ASSUME Stopping, NEW i \in 1..Len(threads), i < cur
      PROVE  /\ run'[threads[i]] \in {"stopped", "zombie"}
             /\ Unreaped(threads[i])' => singlestep
  <2>1. PICK t \in Threads : t = threads[i]
    BY DEF TypeInv, TypeOK
  <2>2. run[t] \in {"stopped", "zombie"} /\ (Unreaped(t) => singlestep)
    BY <1>3, <2>1 DEF StopInv
  <2>3. run'[t] = run[t] /\ report'[t] = report[t]
    BY <2>2, Settled
  <2>4. threads'[i] = t
    BY <1>1, <2>1
  <2>5. QED
    BY <1>1, <2>1, <2>2, <2>3 DEF Unreaped
<1>4. ASSUME phase \in {"first", "more"}
      PROVE  /\ phase = "first" /\ Runs(Current)' => Trap \in pending'[Current]
             /\ phase = "more" => run'[Current] \in {"stopped", "zombie"} /\ report'[Current] = Null
  <2>1. PICK c \in Threads : c = Current
    BY <1>4, CurrentListed DEF StopInv, Stopping
  <2>2. /\ phase = "first" /\ Runs(c) => Trap \in pending[c]
        /\ phase = "more" => run[c] \in {"stopped", "zombie"} /\ report[c] = Null
    BY <2>1 DEF StopInv
  <2>3. phase = "first" /\ Runs(c)' => Trap \in pending'[c]
    BY <2>2, Settled
  <2>4. phase = "more" => run'[c] \in {"stopped", "zombie"} /\ report'[c] = Null
    BY <2>2, Settled
  <2>5. Runs(Current)' = Runs(c)'
    BY <1>2, <2>1 DEF Runs
  <2>6. QED
    BY <1>2, <2>1, <2>3, <2>4, <2>5
<1>5. phase' = "blocked" => events' = <<>>
  BY <1>1 DEF StopInv
<1>6. Stopping' =>
        /\ events' # <<>> /\ last_signaled_thread' = Head(events')
        /\ cur' >= 1 /\ (phase' # "stop" => cur' <= Len(threads'))
  BY <1>1, <1>2 DEF StopInv
<1>7. Stopping' => \A i \in 1..Len(threads') : i < cur' =>
        /\ run'[threads'[i]] \in {"stopped", "zombie"}
        /\ Unreaped(threads[i])' => singlestep'
  <2>1. SUFFICES ASSUME Stopping, NEW i \in 1..Len(threads), i < cur
                 PROVE  /\ run'[threads'[i]] \in {"stopped", "zombie"}
                        /\ Unreaped(threads[i])' => singlestep'
    BY <1>1, <1>2
  <2>2. QED
    BY <1>1, <1>3, <2>1
<1>8. phase' = "first" /\ Runs(Current)' => Trap \in pending'[Current']
  BY <1>1, <1>2, <1>4
<1>9. phase' = "more" => run'[Current'] \in {"stopped", "zombie"} /\ report'[Current'] = Null
  BY <1>1, <1>2, <1>4
<1>10. QED
  BY <1>5, <1>6, <1>7, <1>8, <1>9 DEF StopInv

\* What has been passed stays so.
LEMMA StopStays ==
  ASSUME TypeInv, StopInv, Stopping,
         UNCHANGED <<run, threads, last_signaled_thread, singlestep>>,
         \A t \in Threads : report'[t] # Null => report[t] # Null,
         NEW i \in 1..Len(threads), i < cur
  PROVE  /\ run[threads[i]] \in {"stopped", "zombie"}
         /\ Unreaped(threads[i])' => singlestep
<1>1. PICK t \in Threads : t = threads[i]
  BY DEF TypeInv, TypeOK
<1>2. run[t] \in {"stopped", "zombie"} /\ (Unreaped(t) => singlestep)
  BY <1>1 DEF StopInv
<1>3. Unreaped(t)' => Unreaped(t)
  BY DEF Unreaped
<1>4. Unreaped(threads[i])' <=> Unreaped(t)'
  BY <1>1 DEF Unreaped
<1>5. QED
  BY <1>1, <1>2, <1>3, <1>4

\* What has been passed, when the loop goes to the next thread.
LEMMA StopGoesOn ==
  ASSUME TypeInv, StopInv, Stopping, cur <= Len(threads), StopNext,
         UNCHANGED <<run, threads, last_signaled_thread, singlestep>>,
         events' # <<>>, Head(events') = Head(events),
         NEW c \in Threads, c = Current,
         run[c] \in {"stopped", "zombie"},
         Unreaped(c)' => singlestep,
         \A t \in Threads : report'[t] # Null => report[t] # Null
  PROVE  StopInv'
<1>1. cur \in Nat /\ cur >= 1 /\ phase' = "stop" /\ cur' = cur + 1 /\ threads \in Seq(Threads)
  BY DEF TypeInv, TypeOK, StopInv, StopNext
<1>2. events' # <<>> /\ last_signaled_thread' = Head(events')
  BY DEF StopInv
<1>3. ASSUME NEW i \in 1..Len(threads), i < cur + 1
      PROVE  /\ run[threads[i]] \in {"stopped", "zombie"}
             /\ Unreaped(threads[i])' => singlestep
  <2>1. CASE i < cur
    BY <2>1, StopStays
  <2>2. CASE i = cur
    <3>1. threads[i] = c /\ threads'[i] = c
      BY <2>2 DEF Current
    <3>2. Unreaped(threads[i])' <=> Unreaped(c)'
      BY <3>1 DEF Unreaped
    <3>3. QED
      BY <3>1, <3>2
  <2>3. QED
    BY <1>1, <1>3, <2>1, <2>2
<1>4. \A i \in 1..Len(threads') : i < cur' =>
        /\ run'[threads'[i]] \in {"stopped", "zombie"}
        /\ Unreaped(threads[i])' => singlestep'
  <2>1. SUFFICES ASSUME NEW i \in 1..Len(threads), i < cur + 1
                 PROVE  /\ run'[threads'[i]] \in {"stopped", "zombie"}
                        /\ Unreaped(threads[i])' => singlestep'
    BY <1>1
  <2>2. QED
    BY <1>3, <2>1
<1>5. QED
  BY <1>1, <1>2, <1>4 DEF StopInv

\* It stays as it is when nothing but a later phase of the same thread is entered.
LEMMA StopKeeps ==
  ASSUME TypeInv, StopInv, Stopping, Stopping', cur <= Len(threads),
         UNCHANGED <<run, threads, last_signaled_thread, singlestep, cur>>,
         events' # <<>>, Head(events') = Head(events),
         \A t \in Threads : report'[t] # Null => report[t] # Null,
         NEW c \in Threads, c = Current,
         phase' = "first" /\ Runs(c) => Trap \in pending'[c],
         phase' = "more" => run[c] \in {"stopped", "zombie"} /\ report'[c] = Null
  PROVE  StopInv'
<1>1. phase' # "blocked" /\ cur >= 1 /\ events' # <<>> /\ last_signaled_thread' = Head(events')
  BY DEF StopInv, Stopping
<1>2. \A i \in 1..Len(threads') : i < cur' =>
        /\ run'[threads'[i]] \in {"stopped", "zombie"}
        /\ Unreaped(threads[i])' => singlestep'
  <2>1. SUFFICES ASSUME NEW i \in 1..Len(threads), i < cur
                 PROVE  /\ run'[threads'[i]] \in {"stopped", "zombie"}
                        /\ Unreaped(threads[i])' => singlestep'
    OBVIOUS
  <2>2. QED
    BY <2>1, StopStays
<1>3. Current' = c
  BY DEF Current
<1>4. phase' = "first" /\ Runs(Current)' => Trap \in pending'[Current']
  BY <1>3 DEF Runs
<1>5. phase' = "more" => run'[Current'] \in {"stopped", "zombie"} /\ report'[Current'] = Null
  BY <1>3
<1>6. QED
  BY <1>1, <1>2, <1>4, <1>5 DEF StopInv

\* The loop begins.
LEMMA StopBegins ==
  ASSUME NEW t, StopAllThreads(t), events' # <<>>, Head(events') = t
  PROVE  StopInv'
BY DEF StopAllThreads, StopInv, Stopping

LEMMA StopDebugged ==
  ASSUME TypeInv, UnbornInv, ListInv, StatusInv, FlagsInv, StopInv, phase # "over", Debugged
  PROVE  StopInv'
<1> USE InferiorAssumption DEF TypeInv, TypeOK
<1>1. CASE Looks
  <2>1. UNCHANGED <<run, threads, singlestep, report, last_status, events, pending>>
    BY <1>1 DEF Looks, Watches
  <2>2. CASE phase = "collect" /\ phase' = "blocked" /\ events = <<>>
    BY <2>1, <2>2 DEF StopInv, Stopping
  <2>3. CASE phase = "collect" /\ events # <<>> /\ StopAllThreads(Head(events))
    BY <2>1, <2>3, StopBegins
  <2>4. CASE phase' \in {"answer", "crashed"}
    BY <2>4 DEF StopInv, Stopping
  <2>5. CASE phase = "stop" /\ phase' = "kill" /\ cur <= Len(threads) /\ Same
    <3>1. Stopping /\ Stopping'
      BY <2>5 DEF Stopping
    <3>2. PICK c \in Threads : c = Current
      BY <2>5, <3>1, CurrentListed
    <3>3. QED
      BY <2>1, <2>5, <3>1, <3>2, StopKeeps DEF Same, StopInv
  <2>6. CASE /\ phase = "stop" /\ cur <= Len(threads)
             /\ ~Runs(Current)
             /\ Unreaped(Current) => singlestep \/ Current = last_signaled_thread
             /\ StopNext /\ UNCHANGED last_signaled_thread
    <3>1. Stopping
      BY <2>6 DEF Stopping
    <3>2. PICK c \in Threads : c = Current /\ c \in Listed
      BY <2>6, <3>1, CurrentListed
    <3>3. run[c] \in {"stopped", "zombie"}
      BY <2>6, <3>2 DEF ListInv, Alive, Runs
    <3>4. events # <<>> /\ last_signaled_thread = Head(events)
      BY <3>1 DEF StopInv
    <3>5. c = last_signaled_thread => report[c] = Null
      BY <3>4, TailOut DEF StatusInv, Queued
    <3>6. Unreaped(c)' => singlestep
      BY <2>1, <2>6, <3>2, <3>5 DEF Unreaped
    <3>7. QED
      BY <2>1, <2>6, <3>1, <3>2, <3>3, <3>4, <3>6, StopGoesOn
  <2>7. CASE phase = "more" /\ StopNext /\ UNCHANGED last_signaled_thread
    <3>1. Stopping /\ cur <= Len(threads)
      BY <2>7 DEF Stopping, StopInv
    <3>2. PICK c \in Threads : c = Current
      BY <3>1, CurrentListed
    <3>3. run[c] \in {"stopped", "zombie"} /\ report[c] = Null /\ events # <<>>
      BY <2>7, <3>1, <3>2 DEF StopInv
    <3>4. Unreaped(c)' => singlestep
      BY <2>1, <3>3 DEF Unreaped
    <3>5. QED
      BY <2>1, <2>7, <3>1, <3>2, <3>3, <3>4, StopGoesOn
  <2>8. QED
    BY <1>1, <2>2, <2>3, <2>4, <2>5, <2>6, <2>7 DEF Looks, Passes
<1>2. CASE Kills
  <2>1. Stopping /\ Stopping' /\ phase' = "first" /\ cur <= Len(threads)
    BY <1>2 DEF Kills, Stopping, StopInv
  <2>2. PICK c \in Threads : c = Current
    BY <2>1, CurrentListed
  <2>3. Runs(c) => Trap \in pending'[c]
    BY <1>2, <2>2 DEF Kills, Runs
  <2>4. /\ UNCHANGED <<run, threads, last_signaled_thread, singlestep, cur>>
        /\ UNCHANGED <<events, report>> /\ events # <<>>
    BY <1>2, <2>1 DEF Kills, Watches, Same, StopInv
  <2>5. QED
    BY <2>1, <2>2, <2>3, <2>4, StopKeeps
<1>3. CASE Owns
  <2>1. Stopping /\ cur <= Len(threads) /\ StopNext
    BY <1>3 DEF Owns, Stopping, StopInv
  <2>2. PICK c \in Threads : c = Current
    BY <2>1, CurrentListed
  <2>3. run[c] \in {"stopped", "zombie"}
    BY <1>3, <2>2 DEF Owns, StatusInv
  <2>4. Unreaped(c)' => singlestep
    BY <1>3, <2>2 DEF Owns, Unreaped
  <2>5. /\ UNCHANGED <<run, threads, last_signaled_thread, singlestep>>
        /\ UNCHANGED events /\ events # <<>>
    BY <1>3, <2>1 DEF Owns, Watches, StopInv
  <2>6. \A t \in Threads : report'[t] # Null => report[t] # Null
    BY <1>3, <2>2 DEF Owns
  <2>7. QED
    BY <2>1, <2>2, <2>3, <2>4, <2>5, <2>6, StopGoesOn
<1>4. ASSUME NEW t \in Threads, Reaps(t)
      PROVE  StopInv'
  <2>1. /\ t \notin Queued /\ Queued' = Queued \cup {t}
        /\ events' \in Seq(Threads) /\ IsInjective(events') /\ events' # <<>>
        /\ Head(events') = IF events = <<>> THEN t ELSE Head(events)
    BY <1>4, Reaping DEF Reaps
  <2>2. /\ UNCHANGED <<run, threads, singlestep>>
        /\ \A x \in Threads : report'[x] # Null => report[x] # Null
        /\ report'[t] = Null
    BY <1>4 DEF Reaps, Watches, Reap
  <2>3. CASE phase = "collect" /\ phase' = "collect" /\ Same
    BY <2>3 DEF StopInv, Stopping
  <2>4. CASE phase = "blocked" /\ StopAllThreads(t)
    BY <2>1, <2>4, StopBegins DEF StopInv
  <2>5. CASE /\ phase = "stop" /\ cur <= Len(threads) /\ t = Current /\ ~singlestep /\ run[t] = "stopped"
             /\ StopNext /\ UNCHANGED last_signaled_thread
    <3>1. Stopping /\ events # <<>>
      BY <2>5 DEF Stopping, StopInv
    <3>2. Unreaped(t)' => singlestep
      BY <2>2 DEF Unreaped
    <3>3. QED
      BY <2>1, <2>2, <2>5, <3>1, <3>2, StopGoesOn
  <2>6. CASE phase \in {"first", "more"} /\ t = Current /\ phase' = "more" /\ Same
    <3>1. Stopping /\ Stopping' /\ cur <= Len(threads) /\ events # <<>>
      BY <2>6 DEF Stopping, StopInv
    <3>2. run[t] \in {"stopped", "zombie"}
      BY <1>4 DEF Reaps, StatusInv
    <3>3. QED
      BY <2>1, <2>2, <2>6, <3>1, <3>2, StopKeeps DEF Same
  <2>7. QED
    BY <1>4, <2>3, <2>4, <2>5, <2>6 DEF Reaps, Reads
<1>5. CASE \E t \in Threads : Tells(t) \/ Drops(t) \/ Quits(t)
  BY <1>5 DEF Tells, Drops, Quits, Answered, StopInv, Stopping
<1>6. CASE \E t, u \in Threads : Detaches(t, u)
  BY <1>6 DEF Detaches, StopInv, Stopping
<1>7. CASE \E t \in Threads, m \in msgs : Attaches(t, m)
  BY <1>7 DEF Attaches, StopInv, Stopping
<1>8. CASE \E step \in BOOLEAN : Waits(step) \/ Resumes(step)
  BY <1>8 DEF Waits, Resumes, StopInv, Stopping
<1>9. QED
  BY <1>1, <1>2, <1>3, <1>4, <1>5, <1>6, <1>7, <1>8 DEF Debugged

-----------------------------------------------------------------------------
(* Stepping one thread, and what is known when the debugger decides *)

LEMMA StepLived ==
  ASSUME TypeInv, StepInv, Lived
  PROVE  StepInv'
<1>1. UNCHANGED <<last_status, singlestep, phase>> /\ Queued' = Queued
  BY LivedControl DEF info, flags, control
<1>2. ASSUME NEW t \in Threads, Active(t)'
      PROVE  Active(t)
  BY <1>1, <1>2, Settled DEF Active
<1>3. Stopping' = Stopping
  BY <1>1 DEF Stopping
<1>4. QED
  BY <1>1, <1>2, <1>3 DEF StepInv

LEMMA StepDebugged ==
  ASSUME TypeInv, ListInv, StatusInv, FlagsInv, StopInv, StepInv, FrozenInv, phase # "over", Debugged
  PROVE  StepInv'
<1> USE InferiorAssumption DEF TypeInv, TypeOK
<1>1. ASSUME Looks \/ Kills \/ Owns
      PROVE  StepInv'
  <2>1. UNCHANGED <<run, last_status, singlestep, events>>
    BY <1>1 DEF Looks, Kills, Owns, Watches
  <2>2. \A t \in Threads : report'[t] # Null => report[t] # Null
    BY <1>1 DEF Looks, Kills, Owns
  <2>3. ASSUME NEW t \in Threads, Active(t)'
        PROVE  Active(t)
    BY <2>1, <2>2, <2>3, SameSets DEF Active, Unreaped, Runs
  <2>4. phase' \in {"answer", "crashed"} \/ Stopping \/ phase \in {"collect", "blocked"}
    BY <1>1 DEF Looks, Passes, Kills, Owns, Stopping
  <2>5. QED
    BY <2>1, <2>3, <2>4 DEF StepInv, Stopping
<1>2. ASSUME NEW t \in Threads, Reaps(t)
      PROVE  StepInv'
  <2>1. t \notin Queued /\ Queued' = Queued \cup {t}
    BY <1>2, Reaping DEF Reaps
  <2>2. UNCHANGED <<run, singlestep>>
    BY <1>2 DEF Reaps, Watches
  <2>3. ASSUME NEW x \in Threads, Active(x)'
        PROVE  Active(x)
    <3>1. CASE x = t
      <4>1. report[t] # Null /\ report'[t] = Null /\ last_status'[t] = report[t]
        BY <1>2 DEF Reaps, Reap
      <4>2. run[t] = "stopped" \/ (run[t] = "zombie" /\ report[t] = "exit")
        BY <4>1 DEF StatusInv
      <4>3. QED
        BY <2>2, <2>3, <3>1, <4>1, <4>2 DEF Active, Unreaped, Runs
    <3>2. CASE x # t
      <4>1. report'[x] = report[x] /\ last_status'[x] = last_status[x]
        BY <1>2, <3>2 DEF Reaps, Reap
      <4>2. QED
        BY <2>1, <2>2, <2>3, <3>2, <4>1 DEF Active, Unreaped, Runs
    <3>3. QED
      BY <3>1, <3>2
  <2>4. Stopping \/ phase \in {"collect", "blocked"}
    BY <1>2 DEF Reaps, Reads, Stopping
  <2>5. QED
    BY <2>2, <2>3, <2>4 DEF StepInv
<1>3. CASE \E t \in Threads : Tells(t) \/ Drops(t) \/ Quits(t)
  BY <1>3 DEF Tells, Drops, Quits, Answered, StepInv, Stopping
<1>4. CASE \E t, u \in Threads : Detaches(t, u)
  BY <1>4 DEF Detaches, StepInv, Stopping
<1>5. CASE \E t \in Threads, m \in msgs : Attaches(t, m)
  BY <1>5 DEF Attaches, StepInv, Stopping
<1>6. ASSUME NEW step \in BOOLEAN, Waits(step)
      PROVE  StepInv'
  BY <1>6 DEF Waits, StepInv, Stopping
<1>7. ASSUME NEW step \in BOOLEAN, Resumes(step)
      PROVE  StepInv'
  <2>1. SUFFICES ASSUME step, NEW t \in Threads, NEW u \in Threads, Active(t)', Active(u)'
                 PROVE  t = u
    BY <1>7 DEF Resumes, Asks, StepInv
  <2>2. Frozen /\ Asks(step)
    BY <1>7 DEF Resumes, Asks, Frozen
  <2>3. PICK last : last = last_signaled_thread'
    OBVIOUS
  <2>4. \A x \in Continued(step, last) : x = last
    BY <2>1 DEF Continued
  <2>5. Queued' = {}
    BY <1>7 DEF Resumes, Asks, Queued, ToSet
  <2>6. ASSUME NEW x \in Threads, Active(x)'
        PROVE  x \in Continued(step, last) \/ Unreaped(x)
    <3>1. ~Runs(x)
      BY <2>2 DEF FrozenInv, StoppedWhenLooked, ListInv, Alive, Runs
    <3>2. Runs(x)' \/ Unreaped(x)'
      BY <2>5, <2>6 DEF Active
    <3>3. x \notin Continued(step, last) => run'[x] = run[x]
      BY <1>7, <2>3 DEF Resumes, ResumeAllThreads
    <3>4. report' = report
      BY <1>7 DEF Resumes, Asks
    <3>5. QED
      BY <3>1, <3>2, <3>3, <3>4 DEF Runs, Unreaped
  <2>7. CASE \E x \in Threads : Unreaped(x)
    <3>1. t \notin Continued(step, last) /\ u \notin Continued(step, last)
      BY <2>2, <2>3, <2>7, ResumedIsRead
    <3>2. Unreaped(t) /\ Unreaped(u)
      BY <2>1, <2>6, <3>1
    <3>3. QED
      BY <2>2, <3>2 DEF FrozenInv
  <2>8. CASE \A x \in Threads : ~Unreaped(x)
    BY <2>1, <2>4, <2>6, <2>8
  <2>9. QED
    BY <2>7, <2>8
<1>8. QED
  BY <1>1, <1>2, <1>3, <1>4, <1>5, <1>6, <1>7 DEF Debugged

\* While the debugger decides, nothing that it knows moves.
LEMMA FrozenLived ==
  ASSUME TypeInv, ListInv, FrozenInv, phase # "over", Lived
  PROVE  FrozenInv'
<1>1. UNCHANGED <<last_status, singlestep, check_events_again, phase, h>> /\ Queued' = Queued
      /\ Listed' = Listed
  BY LivedControl DEF info, flags, control
<1>2. SUFFICES ASSUME Frozen
               PROVE  FrozenInv'
  BY <1>1 DEF FrozenInv, StoppedWhenLooked, Frozen
<1>3. \A t \in Threads : ~Runs(t)
  BY <1>2 DEF FrozenInv, StoppedWhenLooked, ListInv, Alive, Runs
<1>4. \A t \in Listed : t \in Threads /\ run'[t] \in {"stopped", "zombie"}
  BY <1>2, Settled, ListedThreads DEF FrozenInv, StoppedWhenLooked
<1>5. \A t \in Threads : Unreaped(t)' => Unreaped(t)
  BY <1>3, Settled
<1>6. h \in Threads /\ (run'[h] = "stopped" => run[h] = "stopped")
  BY <1>3, Settled DEF TypeInv, TypeOK
<1>7. StoppedWhenLooked'
  BY <1>1, <1>4 DEF StoppedWhenLooked
<1>8. ASSUME NEW t \in Threads, Unreaped(t)'
      PROVE  /\ singlestep' /\ phase' # "user" /\ ~check_events_again'
             /\ phase' = "continue" => run'[h'] # "stopped"
             /\ \A u \in Queued' : last_status'[u] = "exit"
             /\ \A u \in Threads : Unreaped(u)' => u = t
  BY <1>1, <1>2, <1>5, <1>6, <1>8 DEF FrozenInv
<1>9. QED
  BY <1>7, <1>8 DEF FrozenInv

LEMMA FrozenDebugged ==
  ASSUME TypeInv, UnbornInv, MsgsInv, ListInv, StatusInv, FlagsInv, StopInv, StepInv, FrozenInv,
         phase # "over", Debugged
  PROVE  FrozenInv'
<1> USE InferiorAssumption DEF TypeInv, TypeOK
<1>1. CASE ~Frozen'
  BY <1>1 DEF FrozenInv, StoppedWhenLooked
<1>2. ASSUME Looks, Frozen'
      PROVE  FrozenInv'
  <2>1. phase = "stop" /\ phase' = "answer" /\ cur > Len(threads)
    BY <1>2 DEF Looks, Watches, Passes, StopAllThreads, StopNext, Frozen
  <2>2. UNCHANGED <<run, report, last_status, threads, events, singlestep, check_events_again>>
    BY <1>2 DEF Looks, Watches
  <2>3. Stopping /\ ~check_events_again
    BY <2>1 DEF Stopping, FlagsInv, Frozen
  <2>4. \A i \in 1..Len(threads) :
          run[threads[i]] \in {"stopped", "zombie"} /\ (Unreaped(threads[i]) => singlestep)
    BY <2>1, <2>3 DEF StopInv
  <2>5. ASSUME NEW t \in Listed
        PROVE  run[t] \in {"stopped", "zombie"} /\ (Unreaped(t) => singlestep)
    <3>1. PICK i \in 1..Len(threads) : threads[i] = t
      BY ToSetMember DEF Listed
    <3>2. QED
      BY <2>4, <3>1
  <2>6. ASSUME NEW t \in Threads, Unreaped(t)
        PROVE  /\ singlestep
               /\ \A u \in Queued : last_status[u] = "exit"
               /\ \A u \in Threads : Unreaped(u) => u = t
    <3>1. t \in Listed /\ t \notin Queued
      BY <2>1, <2>6 DEF ListInv, StatusInv, Alive, Unreaped
    <3>2. singlestep
      BY <2>5, <2>6, <3>1
    <3>3. \A u \in Threads : Active(u) => u = t
      BY <2>3, <2>6, <3>2 DEF StepInv, Active
    <3>4. QED
      BY <3>1, <3>2, <3>3, ListedThreads DEF Active
  <2>7. \A t \in Threads : Unreaped(t)' <=> Unreaped(t)
    BY <2>2 DEF Unreaped
  <2>8. Listed' = Listed /\ Queued' = Queued
    BY <2>2, SameSets
  <2>9. StoppedWhenLooked'
    BY <2>2, <2>5, <2>8 DEF StoppedWhenLooked
  <2>10. QED
    BY <2>1, <2>2, <2>3, <2>6, <2>7, <2>8, <2>9 DEF FrozenInv
<1>3. ASSUME Kills \/ Owns \/ (\E t \in Threads : Reaps(t) \/ Quits(t))
             \/ \E step \in BOOLEAN : Resumes(step)
      PROVE  ~Frozen'
  BY <1>3 DEF Kills, Owns, Reaps, Reads, Quits, Resumes, StopNext, StopAllThreads, Frozen
<1>4. ASSUME NEW t \in Threads, Tells(t) \/ Drops(t)
      PROVE  FrozenInv'
  <2>1. /\ UNCHANGED <<run, report, last_status, singlestep>>
        /\ Listed' \subseteq Listed /\ Queued' \subseteq Queued /\ h' = t
        /\ Frozen /\ Turn(t)
    BY <1>4, SameSets DEF Tells, Drops, Removed, Turn, kernel, Frozen
  <2>2. StoppedWhenLooked'
    BY <2>1 DEF FrozenInv, StoppedWhenLooked
  <2>3. ASSUME NEW x \in Threads, Unreaped(x)'
        PROVE  /\ singlestep' /\ phase' # "user" /\ ~check_events_again'
               /\ phase' = "continue" => run'[h'] # "stopped"
               /\ \A u \in Queued' : last_status'[u] = "exit"
               /\ \A u \in Threads : Unreaped(u)' => u = x
    <3>1. \A u \in Threads : Unreaped(u)' <=> Unreaped(u)
      BY <2>1 DEF Unreaped
    <3>2. /\ singlestep /\ ~check_events_again
          /\ \A u \in Queued : last_status[u] = "exit"
          /\ \A u \in Threads : Unreaped(u) => u = x
      BY <2>1, <2>3, <3>1 DEF FrozenInv
    <3>3. t \in Queued /\ last_status[t] = "exit" /\ run[t] # "stopped"
      BY <2>1, <3>2 DEF Turn, StatusInv, Ending
    <3>4. phase' # "user" /\ ~check_events_again'
      BY <1>4, <3>3 DEF Tells, Drops, Answered
    <3>5. QED
      BY <2>1, <3>1, <3>2, <3>3, <3>4
  <2>4. QED
    BY <2>2, <2>3 DEF FrozenInv
<1>5. ASSUME ~singlestep, Frozen
      PROVE  \A t \in Threads : ~Unreaped(t)
  BY <1>5 DEF FrozenInv
<1>6. ASSUME NEW t \in Threads, NEW u \in Threads, Detaches(t, u)
      PROVE  FrozenInv'
  <2>1. Frozen /\ ~singlestep /\ UNCHANGED report
    BY <1>6 DEF Detaches, Turn, Frozen
  <2>2. run' = [run EXCEPT ![u] = IF @ = "stopped" THEN "gone" ELSE @] /\ Listed' = Listed \ {u}
    BY <1>6 DEF Detaches, Removed
  <2>3. \A x \in Threads : ~Unreaped(x)'
    BY <1>5, <2>1, <2>2 DEF Unreaped
  <2>4. StoppedWhenLooked'
    BY <2>1, <2>2, ListedThreads DEF FrozenInv, StoppedWhenLooked
  <2>5. QED
    BY <2>3, <2>4 DEF FrozenInv
<1>7. ASSUME NEW t \in Threads, NEW m \in msgs, Attaches(t, m)
      PROVE  FrozenInv'
  <2>1. Frozen /\ ~singlestep /\ UNCHANGED report
    BY <1>7 DEF Attaches, Turn, Frozen
  <2>2. /\ m.th \in Threads /\ run[m.th] \in {"held", "wild"} /\ Listed' = Listed \cup {m.th}
        /\ run' = [run EXCEPT ![m.th] = "stopped"]
    BY <1>7, Attaching DEF Attaches, Attach
  <2>3. report[m.th] = Null
    BY <2>2 DEF UnbornInv, Unborn
  <2>4. \A x \in Threads : ~Unreaped(x)'
    BY <1>5, <2>1, <2>2, <2>3 DEF Unreaped
  <2>5. StoppedWhenLooked'
    BY <2>1, <2>2, ListedThreads DEF FrozenInv, StoppedWhenLooked
  <2>6. QED
    BY <2>4, <2>5 DEF FrozenInv
<1>8. ASSUME NEW step \in BOOLEAN, Waits(step)
      PROVE  FrozenInv'
  <2>1. /\ UNCHANGED <<run, report, last_status, threads, events, check_events_again>>
        /\ Frozen /\ phase' = "answer" /\ singlestep' = step /\ Asks(step)
    BY <1>8 DEF Waits, Asks, Frozen
  <2>2. Listed' = Listed /\ Queued' = Queued
    BY <2>1, SameSets
  <2>3. StoppedWhenLooked'
    BY <2>1, <2>2 DEF FrozenInv, StoppedWhenLooked
  <2>4. ASSUME NEW x \in Threads, Unreaped(x)'
        PROVE  /\ singlestep' /\ phase' # "user" /\ ~check_events_again'
               /\ phase' = "continue" => run'[h'] # "stopped"
               /\ \A u \in Queued' : last_status'[u] = "exit"
               /\ \A u \in Threads : Unreaped(u)' => u = x
    <3>1. \A u \in Threads : Unreaped(u)' <=> Unreaped(u)
      BY <2>1 DEF Unreaped
    <3>2. step /\ ~check_events_again
      BY <2>1, <2>4, <3>1, ResumedIsRead
    <3>3. /\ \A u \in Queued : last_status[u] = "exit"
          /\ \A u \in Threads : Unreaped(u) => u = x
      BY <2>1, <2>4, <3>1 DEF FrozenInv
    <3>4. QED
      BY <2>1, <2>2, <3>1, <3>2, <3>3
  <2>5. QED
    BY <2>3, <2>4 DEF FrozenInv
<1>9. QED
  BY <1>1, <1>2, <1>3, <1>4, <1>6, <1>7, <1>8 DEF Debugged

-----------------------------------------------------------------------------
(* The theorems *)

LEMMA StartLists ==
  /\ <<Main>> \in Seq(Threads) /\ Len(<<Main>>) = 1 /\ <<Main>>[1] = Main
  /\ ToSet(<<>>) = {}
<1>1. Main \in Threads
  BY InferiorAssumption
<1>2. <<Main>> \in Seq(Threads) /\ Len(<<Main>>) = 1 /\ <<Main>>[1] = Main
  BY <1>1
<1>3. ToSet(<<>>) = {}
  BY DEF ToSet
<1>4. QED
  BY <1>2, <1>3

LEMMA InvStarts == Init => Inv
<1> SUFFICES ASSUME Init PROVE Inv
  OBVIOUS
<1> USE InferiorAssumption DEF Init
<1>1. threads = <<Main>> /\ events = <<>> /\ Listed = {Main} /\ Queued = {}
  <2>1. threads = <<Main>> /\ events = <<>>
    OBVIOUS
  <2>2. threads \in Seq(Threads) /\ Len(threads) = 1 /\ threads[1] = Main
    BY <2>1, StartLists
  <2>3. ASSUME NEW x PROVE x \in ToSet(threads) <=> x = Main
    <3>1. x \in ToSet(threads) <=> \E i \in 1..Len(threads) : threads[i] = x
      BY ONLY <2>2, ToSetMember
    <3>2. (\E i \in 1..Len(threads) : threads[i] = x) <=> x = Main
      BY ONLY <2>2
    <3>3. QED
      BY ONLY <3>1, <3>2
  <2>4. ToSet(threads) = {Main}
    BY <2>3
  <2>5. ToSet(events) = {}
    BY <2>1, StartLists
  <2>6. QED
    BY ONLY <2>1, <2>4, <2>5 DEF Listed, Queued
<1>2. TypeOK
  <2>1. threads \in Seq(Threads) /\ events \in Seq(Threads)
    BY StartLists
  <2>2. /\ run \in [Threads -> Lives] /\ at \in [Threads -> Places]
        /\ report \in [Threads -> Status] /\ last_status \in [Threads -> Status]
    BY DEF Lives, Places, Status
  <2>3. /\ pending \in [Threads -> SUBSET (Signals \cup {Trap})]
        /\ last_signal \in [Threads -> Signals \cup {Null}]
        /\ sent \in [Threads -> SUBSET Signals]
    OBVIOUS
  <2>4. /\ told \in [type : Loops \cup {"over", "step", "load", "hit", "signal"},
                     th : Threads \cup {Null}]
        /\ handles \subseteq Threads \cup {Null}
    OBVIOUS
  <2>5. /\ expired \subseteq Threads /\ last_signaled_thread \in Threads \cup {Null}
        /\ current_thread_is_dead \in BOOLEAN /\ check_events_again \in BOOLEAN
        /\ do_search_for_threads \in BOOLEAN /\ singlestep \in BOOLEAN /\ phase = "user"
        /\ cur \in Nat /\ h \in Threads /\ merged \subseteq Threads /\ found \subseteq Threads
    OBVIOUS
  <2>6. msgs \subseteq [event : {"create", "death"}, th : Threads, by : Threads]
    OBVIOUS
  <2>7. libs \in Nat /\ noise \in 0..MaxNoise
    <3>1. libs = 0 /\ noise = 0 /\ MaxNoise \in Nat
      OBVIOUS
    <3>2. QED
      BY ONLY <3>1
  <2>8. QED
    BY ONLY <2>1, <2>2, <2>3, <2>4, <2>5, <2>6, <2>7 DEF TypeOK
<1>3. IsInjective(threads) /\ IsInjective(events)
  <2>1. threads \in Seq(Threads) /\ events \in Seq(Threads)
    BY <1>1
  <2>2. \A i, j \in 1..Len(threads) : threads[i] = threads[j] => i = j
    BY <1>1
  <2>3. \A i, j \in 1..Len(events) : events[i] = events[j] => i = j
    BY <1>1
  <2>4. QED
    BY <2>1, <2>2, <2>3, InjectiveSeq
<1>4. UnbornInv /\ MsgsInv /\ ListInv /\ StatusInv /\ FlagsInv
  BY <1>1 DEF UnbornInv, MsgsInv, ListInv, StatusInv, FlagsInv, Unborn, Alive, Ending, Runs
<1>5. StopInv /\ StepInv /\ FrozenInv
  BY <1>1 DEF StopInv, StepInv, FrozenInv, StoppedWhenLooked, Stopping, Unreaped
<1>6. SentInv /\ HitsInv /\ ToldInv
  BY <1>1 DEF SentInv, Somewhere, HitsInv, HitsAreKeptUnlessMerged, ToldInv, ToldOfKnown
<1>7. QED
  BY <1>2, <1>3, <1>4, <1>5, <1>6 DEF Inv, TypeInv

\* What has been found by search stays found.
LEMMA FoundGrows == [Next]_vars => found \subseteq found'
<1>1. CASE UNCHANGED vars
  BY <1>1 DEF vars, history
<1>2. CASE Debuggee
  BY <1>2 DEF Debuggee, Hit, LibraryEvent, ThreadDies, StepDone, Exit, RunOn, ThreadCreated,
       SendSignal, TakeSignal, Trapped, history
<1>3. CASE \E step \in BOOLEAN : ContinueDebugEvent(step)
  BY <1>3 DEF ContinueDebugEvent
<1>4. CASE WaitForEvents \/ AllStopped \/ EnsureStopped
  BY <1>4 DEF WaitForEvents, GarbageQueue, CollectNone, Collect, Blocked, UnknownThread, AllStopped,
       EnsureStopped, EnsureTraced, EnsureSkipped, EnsureRunning, Kill, OwnTrap, OtherStop, NoMore, At
<1>5. ASSUME NEW t, NEW search, ProceedEvent(t, search) PROVE found \subseteq found'
  BY <1>5 DEF ProceedEvent, ProcessExit, ThreadExit, ExpiredThread, Step, SolibEvent, ThreadEvent,
       BreakpointHit, StrayTrap, SignalStop, history
<1>6. ASSUME NEW u, Search(u) PROVE found \subseteq found'
  BY <1>6 DEF Search
<1>7. CASE WaitForDebugEvent
  BY <1>5, <1>6, <1>7 DEF WaitForDebugEvent, CheckAgain, NextEvent
<1>8. QED
  BY <1>1, <1>2, <1>3, <1>4, <1>7 DEF Next, Debugger

LEMMA InvGoesOn == (found = {} => Inv) /\ [Next]_vars => (found = {} => Inv)'
<1> SUFFICES ASSUME found = {} => Inv, [Next]_vars, found' = {} PROVE Inv'
  OBVIOUS
<1>0. found = {} /\ Inv
  BY FoundGrows
<1>1. CASE Next
  <2>0. Inv /\ found = {}
    BY <1>0
  <2>1. (Lived \/ Debugged) /\ Counted /\ phase # "over"
    BY <1>1, <2>0, Moves DEF Inv
  <2>2. CASE Lived
    <3>1. TypeInv' /\ UnbornInv' /\ MsgsInv' /\ ListInv' /\ StatusInv' /\ FlagsInv'
      BY <2>0, <2>1, <2>2, TypeLived, UnbornLived, MsgsLived, ListLived, StatusLived, FlagsLived DEF Inv
    <3>2. StopInv' /\ StepInv' /\ FrozenInv'
      BY <2>0, <2>1, <2>2, StopLived, StepLived, FrozenLived DEF Inv
    <3>3. SentInv' /\ HitsInv' /\ ToldInv'
      BY <2>0, <2>1, <2>2, SentLived, HitsLived, UserLived DEF Inv
    <3>4. QED
      BY <3>1, <3>2, <3>3 DEF Inv
  <2>3. CASE Debugged
    <3>1. TypeInv' /\ UnbornInv' /\ MsgsInv' /\ ListInv'
      BY <2>0, <2>1, <2>3, TypeDebugged, UnbornDebugged, MsgsDebugged, ListDebugged DEF Inv
    <3>2. StatusInv' /\ FlagsInv'
      BY <2>0, <2>1, <2>3, StatusDebugged, FlagsDebugged DEF Inv
    <3>3. StopInv' /\ StepInv' /\ FrozenInv'
      BY <2>0, <2>1, <2>3, StopDebugged, StepDebugged, FrozenDebugged DEF Inv
    <3>4. SentInv' /\ HitsInv' /\ ToldInv'
      BY <2>0, <2>1, <2>3, SentDebugged, HitsDebugged, UserDebugged DEF Inv
    <3>5. QED
      BY <3>1, <3>2, <3>3, <3>4 DEF Inv
  <2>4. QED
    BY <2>1, <2>2, <2>3
<1>2. CASE UNCHANGED vars
  <2>1. /\ UNCHANGED <<run, at, pending, report, msgs, libs, noise>>
        /\ UNCHANGED <<threads, last_status, last_signal, expired>>
        /\ UNCHANGED <<last_signaled_thread, current_thread_is_dead, check_events_again>>
        /\ UNCHANGED <<do_search_for_threads, singlestep, events, phase, cur, h, told, handles>>
        /\ UNCHANGED <<sent, merged, found>>
    BY <1>2 DEF vars, kernel, info, flags, control, history
  <2>2. Listed' = Listed /\ Queued' = Queued /\ Current' = Current
    BY <2>1 DEF Listed, Queued, Current
  <2>3. TypeInv' /\ UnbornInv' /\ MsgsInv' /\ ListInv'
    BY <1>0, <2>1, <2>2 DEF Inv, TypeInv, TypeOK, UnbornInv, MsgsInv, ListInv, Unborn, Alive, Ending
  <2>4. StatusInv' /\ FlagsInv'
    BY <1>0, <2>1, <2>2 DEF Inv, StatusInv, FlagsInv, Frozen, Ending, Runs
  <2>5. StopInv'
    BY <1>0, <2>1, <2>2 DEF Inv, StopInv, Stopping, Unreaped, Runs, Current
  <2>6. StepInv' /\ FrozenInv'
    BY <1>0, <2>1, <2>2 DEF Inv, StepInv, FrozenInv, StoppedWhenLooked, Frozen, Stopping, Active, Unreaped, Runs
  <2>7. SentInv' /\ HitsInv' /\ ToldInv'
    BY <1>0, <2>1, <2>2 DEF Inv, SentInv, Somewhere, Alive, HitsInv, HitsAreKeptUnlessMerged, HitKnown, ToldInv, ToldOfKnown,
       Runs
  <2>8. QED
    BY <2>3, <2>4, <2>5, <2>6, <2>7 DEF Inv
<1>3. QED
  BY <1>1, <1>2

\* The parts of the invariant hold together in every state the debugger and its
\* debuggee reach, whatever the debuggee does and the user asks for.
THEOREM InvAlways == Spec => [](found = {} => Inv)
<1>1. QED
  BY InvStarts, InvGoesOn, PTL DEF Spec

\* When the debugger judges an event and when the user looks, every thread in its
\* list is stopped or has ended (stop_all_threads, thread.c).
THEOREM LooksAtStopped == Spec => [](found = {} => StoppedWhenLooked)
<1>1. Inv => StoppedWhenLooked
  BY DEF Inv, FrozenInv
<1>2. QED
  BY <1>1, InvAlways, PTL

\* No thread is queued twice, and the status an event was made of is not overwritten
\* before it is judged (create_event, ensure_stopped).
THEOREM EventsAreKept == Spec => [](found = {} => OneEventEach)
<1>1. Inv => OneEventEach
  <2>1. SUFFICES ASSUME Inv PROVE OneEventEach
    OBVIOUS
  <2>2. TypeOK /\ IsInjective(events)
    BY <2>1 DEF Inv, TypeInv
  <2>3. ASSUME phase # "over", NEW t \in Queued \ expired
        PROVE  last_status[t] # Null /\ report[t] = Null /\ run[t] \in {"stopped", "zombie"}
    <3>1. t \in Threads
      BY <2>1, ListedThreads DEF Inv
    <3>2. last_status[t] # Null /\ report[t] = Null /\ ~Runs(t)
      BY <2>1, <3>1 DEF Inv, StatusInv
    <3>3. ~Unborn(t) /\ run[t] # "gone"
      BY <2>1, <2>3, <3>1 DEF Inv, UnbornInv, ListInv
    <3>4. run[t] \in Lives
      BY <2>2, <3>1 DEF TypeOK
    <3>5. QED
      BY <3>2, <3>3, <3>4 DEF Unborn, Runs, Lives
  <2>4. QED
    BY <2>2, <2>3 DEF OneEventEach
<1>2. QED
  BY <1>1, InvAlways, PTL

\* Of a living thread, a signal sent to it and not yet delivered is held at exactly one
\* of the places between the kernel and thread_info, and no other signal is held.
THEOREM SignalsAreKept == Spec => []SignalsKept
<1>1. (found = {} => Inv) => SignalsKept
  <2>1. SUFFICES ASSUME Inv, NEW t \in Threads, Alive(t), NEW s \in Signals
                 PROVE  IF s \in sent[t] THEN \E p \in Holders(t, s) : Holders(t, s) = {p}
                        ELSE Holders(t, s) = {}
    BY DEF SignalsKept, Alive
  <2>2. /\ s \in sent[t] <=> s \in pending[t] \/ Somewhere(t, s)
        /\ ~(s \in pending[t] /\ Somewhere(t, s))
    BY <2>1 DEF Inv, SentInv
  <2>3. /\ s = last_signal[t] => t \notin Queued /\ report[t] = Null
        /\ t \in Queued => report[t] = Null
        /\ s # Null
    BY <2>1, InferiorAssumption DEF Inv, StatusInv
  <2>4. \A p : p \in Holders(t, s) <=> \/ p = "kernel" /\ s \in pending[t]
                                       \/ p = "status" /\ s = report[t]
                                       \/ p = "event" /\ t \in Queued /\ s = last_status[t]
                                       \/ p = "thread_info" /\ s = last_signal[t]
    BY DEF Holders
  <2>5. CASE s \notin sent[t]
    BY <2>2, <2>4, <2>5 DEF Somewhere
  <2>6. ASSUME s \in sent[t], NEW p \in {"kernel", "status", "event", "thread_info"},
               p \in Holders(t, s)
        PROVE  Holders(t, s) = {p}
    <3>1. \A q \in Holders(t, s) : q = p
      BY <2>2, <2>3, <2>4, <2>6 DEF Somewhere
    <3>2. QED
      BY <2>6, <3>1
  <2>7. CASE s \in sent[t]
    <3>1. \E p \in {"kernel", "status", "event", "thread_info"} : p \in Holders(t, s)
      BY <2>2, <2>4, <2>7 DEF Somewhere
    <3>2. QED
      BY <2>6, <2>7, <3>1
  <2>8. QED
    BY <2>5, <2>7
<1>2. QED
  BY <1>1, InvAlways, PTL

\* A breakpoint that was executed is told or can still be told, unless its SIGTRAP met
\* that of ensure_stopped or was taken for the end of a step.
THEOREM HitsAreTold == Spec => [](found = {} => HitsAreKeptUnlessMerged)
<1>1. Inv => HitsAreKeptUnlessMerged
  BY DEF Inv, HitsInv
<1>2. QED
  BY <1>1, InvAlways, PTL

\* The upper level and proc_info know the same threads, and its assertions fail only
\* when the end of a thread that was detached is told again (Krn_Prog.mod:441, 471).
THEOREM ToldAreKnown == Spec => []ToldOfKnown
<1>1. (found = {} => Inv) => ToldOfKnown
  BY DEF Inv, ToldInv, ToldOfKnown
<1>2. QED
  BY <1>1, InvAlways, PTL

\* While one thread is stepped, from its resumption until all are stopped, no other runs,
\* has a status nobody has read, or has an event other than its end.
THEOREM StepsAlone == Spec => [](found = {} => StepInv)
<1>1. Inv => StepInv
  BY DEF Inv
<1>2. QED
  BY <1>1, InvAlways, PTL
=============================================================================
