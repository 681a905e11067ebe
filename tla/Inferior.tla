------------------------------- MODULE Inferior -------------------------------
(***************************************************************************)
(* The process layer of the Linux debugger, in C:                          *)
(* debug/src/xd_386/Linux/linux_layer/{inferior,events,thread}.c.          *)
(* A debuggee of several light-weight processes is driven with ptrace and  *)
(* waitpid.  The upper level asks continue_debug_event to resume it and    *)
(* wait_for_debug_event what happened; ProcessEvents (Krn_Prog.mod:390)    *)
(* does both again, in the same mode, until the answer is for the user.    *)
(* It has a list of threads of its own, made from the answers, and asserts *)
(* that it knows the threads it is told of.                                *)
(*                                                                         *)
(* A step of the debugger ends where a thread of the debuggee may do       *)
(* something the debugger reads next: at every waitpid, between reading a  *)
(* state and sending SIGTRAP, and between that and waiting.  Everything    *)
(* else it does while the threads it knows are stopped.                    *)
(*                                                                         *)
(* The kernel and the pthread library are external: a thread takes a       *)
(* pending signal before it executes anything, a signal that is already    *)
(* pending merges, and a thread stops with one status for waitpid.         *)
(* Start-up, re-execution (do_reexec), state 'D' and the exit code 5,      *)
(* which reads as SIGTRAP, are left out.  The model ends where a status    *)
(* nobody has set is judged: only after a thread has been found by search. *)
(***************************************************************************)
EXTENDS Integers, SequencesExt

CONSTANTS
  Threads,    \* the light-weight processes there may be
  Main,       \* proc_info->main_thread
  Signals,    \* what may be sent to the debuggee, SIGTRAP excepted
  Trap,       \* SIGTRAP
  Chld,       \* SIGCHLD
  Reported,   \* the signals for which is_signal_reporting_enabled
  Null,       \* NULL, status -1, signal 0
  Modes,      \* the values of do_singlestep the user may ask for
  MaxNoise    \* bound: how often the debuggee does something of its own,
              \* the creation and the death of threads not counted

ASSUME InferiorAssumption ==
  /\ Main \in Threads
  /\ Trap \notin Signals
  /\ Reported \subseteq Signals
  /\ Null \notin Threads \cup Signals \cup {Trap, "exit"}
  /\ "exit" \notin Signals \cup {Trap}
  /\ Modes \subseteq BOOLEAN
  /\ MaxNoise \in Nat

VARIABLES
  \* the kernel and the pthread library
  run,        \* what a thread does: see Lives
  at,         \* what the instruction before its program counter is: see Places
  pending,    \* its pending signals
  report,     \* the status waitpid would return for it
  msgs,       \* messages for td_ta_event_getmsg
  libs,       \* changes of the library list not yet seen by the debugger
  noise,      \* how much the debuggee has done of its own
  \* proc_info, the thread_info objects and the events queue
  threads,
  last_status,
  last_signal,
  expired,
  last_signaled_thread,
  current_thread_is_dead,
  check_events_again,
  do_search_for_threads,
  singlestep,
  events,
  \* the control of the debugger
  phase,      \* where the debugger is
  cur,        \* the position stop_all_threads has reached in the list
  h,          \* di.thread_info, the H_Thread of the upper level
  told,       \* the type of the last answer and the thread it is about
  handles,    \* the threads the upper level knows (Krn_Prog.mod, AddThread)
  \* history, read by the properties only
  sent,       \* the signals sent to a thread and not yet delivered to it
  merged,     \* the threads whose hit met a SIGTRAP that was pending already
  found       \* the threads search_for_unregistered_threads has registered

kernel == <<run, at, pending, report, msgs, libs, noise>>
info == <<threads, last_status, last_signal, expired>>
flags == <<last_signaled_thread, current_thread_is_dead, check_events_again,
           do_search_for_threads, singlestep>>
control == <<phase, cur, h, told, handles>>
history == <<sent, merged, found>>
vars == <<kernel, info, flags, events, control, history>>

Lives == {"none", "held", "wild", "running", "stepping", "stopped", "zombie", "gone"}
Places == {"code", "bp", "lib", "create", "death"}
Status == Signals \cup {Trap, "exit", Null}
Listed == ToSet(threads)
Queued == ToSet(events)
-----------------------------------------------------------------------------
(* The debuggee: external.  It executes only with no signal pending.       *)

Runs(t) == run[t] \in {"running", "stepping"}
Free(t) == Runs(t) /\ pending[t] = {}
Noisy == noise < MaxNoise /\ noise' = noise + 1

\* t executed an int 3 (or one single step) and stops with SIGTRAP behind it.
Trapped(t, where, lives) ==
  /\ run' = [lives EXCEPT ![t] = "stopped"]
  /\ report' = [report EXCEPT ![t] = Trap]
  /\ at' = [at EXCEPT ![t] = where]
  /\ merged' = merged \ {t}
  /\ UNCHANGED <<pending, info, flags, events, control, sent, found>>

Executes(t) == Free(t) /\ at[t] = "code"

Hit(t) == Executes(t) /\ Noisy /\ Trapped(t, "bp", run) /\ UNCHANGED <<msgs, libs>>

LibraryEvent(t) ==
  Executes(t) /\ Noisy /\ Trapped(t, "lib", run) /\ libs' = libs + 1 /\ UNCHANGED msgs

\* The creator stops at thread_create_event; the new thread is held meanwhile.
ThreadCreated(t, u) ==
  /\ Executes(t) /\ run[u] = "none"
  /\ Trapped(t, "create", [run EXCEPT ![u] = "held"])
  /\ msgs' = msgs \cup {[event |-> "create", th |-> u, by |-> t]}
  /\ UNCHANGED <<libs, noise>>

ThreadDies(t) ==
  /\ Executes(t) /\ t # Main
  /\ Trapped(t, "death", run)
  /\ msgs' = msgs \cup {[event |-> "death", th |-> t, by |-> t]}
  /\ UNCHANGED <<libs, noise>>

StepDone(t) ==
  /\ Free(t) /\ run[t] = "stepping" /\ at[t] = "code"
  /\ Trapped(t, "code", run)
  /\ UNCHANGED <<msgs, libs, noise>>

Zombie(t) ==
  /\ run' = [run EXCEPT ![t] = "zombie"]
  /\ report' = [report EXCEPT ![t] = "exit"]
  /\ at' = [at EXCEPT ![t] = "code"]

Exit(t) ==
  /\ Executes(t) /\ Noisy /\ Zombie(t)
  /\ UNCHANGED <<pending, msgs, libs, info, flags, events, control, history>>

\* t goes on behind the int 3 it had executed: a dying thread ends, and the
\* thread it created and nobody attached to runs untraced.
RunOn(t) ==
  /\ Free(t) /\ at[t] # "code"
  /\ IF at[t] = "death" THEN Zombie(t)
     ELSE /\ run' = [u \in Threads |->
                       IF run[u] = "held" /\ \E m \in msgs : m.th = u /\ m.by = t
                       THEN "wild" ELSE run[u]]
          /\ at' = [at EXCEPT ![t] = "code"]
          /\ UNCHANGED report
  /\ UNCHANGED <<pending, msgs, libs, noise, info, flags, events, control, history>>

SendSignal(t, s) ==
  /\ run[t] \in {"running", "stepping", "stopped"} /\ s \notin sent[t]
  /\ t \notin expired /\ phase # "over" /\ Noisy
  /\ pending' = [pending EXCEPT ![t] = @ \cup {s}]
  /\ sent' = [sent EXCEPT ![t] = @ \cup {s}]
  /\ UNCHANGED <<run, at, report, msgs, libs, info, flags, events, control, merged, found>>

TakeSignal(t, s) ==
  /\ Runs(t) /\ s \in pending[t]
  /\ pending' = [pending EXCEPT ![t] = @ \ {s}]
  /\ run' = [run EXCEPT ![t] = "stopped"]
  /\ report' = [report EXCEPT ![t] = s]
  /\ UNCHANGED <<at, msgs, libs, noise, info, flags, events, control, history>>

Debuggee ==
  \E t \in Threads :
    \/ Hit(t) \/ LibraryEvent(t) \/ ThreadDies(t) \/ StepDone(t) \/ Exit(t) \/ RunOn(t)
    \/ \E u \in Threads : ThreadCreated(t, u)
    \/ \E s \in Signals : SendSignal(t, s)
    \/ \E s \in Signals \cup {Trap} : TakeSignal(t, s)
-----------------------------------------------------------------------------
(* thread.c: resuming and stopping *)

\* ResumeAllThreads goes through the list unless one thread is to be stepped.
Continued(step, last) ==
  {t \in Threads : run[t] = "stopped" /\ (t = last \/ (~step /\ t \in Listed))}

\* Mutant: last_signal is not cleared once the signal has been passed on.
ResumeAllThreadsAgain(step, last) ==
  LET cont == Continued(step, last)
  IN  /\ run' = [t \in Threads |->
                   IF t \notin cont THEN run[t] ELSE IF step THEN "stepping" ELSE "running"]
      /\ sent' = [t \in Threads |->
                    IF t \in cont THEN sent[t] \ {last_signal[t]} ELSE sent[t]]
      /\ UNCHANGED <<last_status, last_signal>>

ResumeAllThreads(step, last) ==
  LET cont == Continued(step, last)
  IN  /\ run' = [t \in Threads |->
                   IF t \notin cont THEN run[t] ELSE IF step THEN "stepping" ELSE "running"]
      /\ last_status' = [t \in Threads |->
                           IF t \in cont \ {last} THEN Null ELSE last_status[t]]
      /\ last_signal' = [t \in Threads |-> IF t \in cont THEN Null ELSE last_signal[t]]
      /\ sent' = [t \in Threads |->
                    IF t \in cont THEN sent[t] \ {last_signal[t]} ELSE sent[t]]

\* waitpid returned the status of t, which becomes an event.
Reap(t) ==
  /\ report' = [report EXCEPT ![t] = Null]
  /\ last_status' = [last_status EXCEPT ![t] = report[t]]
  /\ events' = Append(events, t)

At(p) == phase = p /\ UNCHANGED <<run, at, msgs, libs, noise, threads, last_signal, expired,
                                  current_thread_is_dead, check_events_again,
                                  do_search_for_threads, singlestep, h, told, handles,
                                  sent, found>>
Quiet == UNCHANGED <<report, last_status, events>>
Current == threads[cur]
StopNext == phase' = "stop" /\ cur' = cur + 1

\* Mutant: the status of a thread that has stopped already is thrown away.
EnsureTracedDrops ==
  /\ At("stop") /\ cur <= Len(threads) /\ run[Current] = "stopped"
  /\ report' = IF singlestep THEN report ELSE [report EXCEPT ![Current] = Null]
  /\ StopNext
  /\ UNCHANGED <<pending, last_status, events, last_signaled_thread, merged>>

\* Mutant: a stopped thread is queued whether or not waitpid has a status.
EnsureTracedTwice ==
  /\ At("stop") /\ cur <= Len(threads) /\ run[Current] = "stopped"
  /\ IF ~singlestep /\ Current # last_signaled_thread THEN Reap(Current) ELSE Quiet
  /\ StopNext
  /\ UNCHANGED <<pending, last_signaled_thread, merged>>

\* A stop nobody waited for is an event; the thread that made the first event
\* is left alone, and so is every thread while one is stepped.
EnsureTraced ==
  /\ At("stop") /\ cur <= Len(threads) /\ run[Current] = "stopped"
  /\ IF ~singlestep /\ Current # last_signaled_thread /\ report[Current] # Null
     THEN Reap(Current) ELSE Quiet
  /\ StopNext
  /\ UNCHANGED <<pending, last_signaled_thread, merged>>

EnsureSkipped ==
  /\ At("stop") /\ cur <= Len(threads) /\ run[Current] \notin {"running", "stepping", "stopped"}
  /\ Quiet /\ StopNext
  /\ UNCHANGED <<pending, last_signaled_thread, merged>>

EnsureRunning ==
  /\ At("stop") /\ cur <= Len(threads) /\ Runs(Current)
  /\ phase' = "kill"
  /\ Quiet /\ UNCHANGED <<cur, pending, last_signaled_thread, merged>>

Kill ==
  /\ At("kill")
  /\ IF run[Current] = "zombie" THEN UNCHANGED pending
     ELSE pending' = [pending EXCEPT ![Current] = @ \cup {Trap}]
  /\ merged' = IF Trap \in pending[Current] THEN merged \cup {Current} ELSE merged
  /\ phase' = "first"
  /\ Quiet /\ UNCHANGED <<cur, last_signaled_thread>>

\* The first SIGTRAP is taken for the one that was sent; any other status is
\* an event, and waitpid is called again, this time without waiting.
OwnTrap ==
  /\ phase \in {"first", "more"} /\ At(phase)
  /\ report[Current] = Trap
  /\ report' = [report EXCEPT ![Current] = Null]
  /\ StopNext
  /\ UNCHANGED <<pending, last_status, events, last_signaled_thread, merged>>

OtherStop ==
  /\ phase \in {"first", "more"} /\ At(phase)
  /\ report[Current] \notin {Trap, Null}
  /\ Reap(Current)
  /\ phase' = "more"
  /\ UNCHANGED <<cur, pending, last_signaled_thread, merged>>

\* Mutant: the second waitpid waits as well, without WNOHANG.
NoMoreWaits ==
  /\ At("more") /\ report[Current] = Trap
  /\ Quiet /\ StopNext
  /\ UNCHANGED <<pending, last_signaled_thread, merged>>

NoMore ==
  /\ At("more") /\ report[Current] = Null
  /\ Quiet /\ StopNext
  /\ UNCHANGED <<pending, last_signaled_thread, merged>>

\* Mutant: the last thread of the list is not stopped.
AllStoppedEarly ==
  /\ At("stop") /\ cur >= Len(threads)
  /\ phase' = "answer"
  /\ Quiet /\ UNCHANGED <<cur, pending, last_signaled_thread, merged>>

AllStopped ==
  /\ At("stop") /\ cur > Len(threads)
  /\ phase' = "answer"
  /\ Quiet /\ UNCHANGED <<cur, pending, last_signaled_thread, merged>>

EnsureStopped ==
  EnsureTraced \/ EnsureSkipped \/ EnsureRunning \/ Kill \/ OwnTrap \/ OtherStop \/ NoMore
-----------------------------------------------------------------------------
(* events.c: wait_for_events_internal *)

StopAllThreads(first) == phase' = "stop" /\ cur' = 1 /\ last_signaled_thread' = first

Collect(t) ==
  /\ At("collect") /\ report[t] # Null /\ t \in Listed
  /\ Reap(t)
  /\ UNCHANGED <<phase, cur, pending, last_signaled_thread, merged>>

\* No child has a status: stop the others, or wait when there is no event yet.
CollectNone ==
  /\ At("collect") /\ \A t \in Threads : report[t] = Null
  /\ IF events = <<>> THEN phase' = "blocked" /\ UNCHANGED <<cur, last_signaled_thread>>
     ELSE StopAllThreads(Head(events))
  /\ Quiet /\ UNCHANGED <<pending, merged>>

Blocked(t) ==
  /\ At("blocked") /\ report[t] # Null /\ t \in Listed
  /\ Reap(t)
  /\ StopAllThreads(t)
  /\ UNCHANGED <<pending, merged>>

\* The assertion of create_event: a thread that had ended when its death was
\* noticed is no longer in the list when its status arrives.
UnknownThread(t) ==
  /\ phase \in {"collect", "blocked"} /\ At(phase) /\ report[t] # Null /\ t \notin Listed
  /\ phase' = "crashed"
  /\ Quiet /\ UNCHANGED <<cur, pending, last_signaled_thread, merged>>

\* The local variable events is not initialised: what is tested, and later
\* appended to, may be a pointer to anywhere.
GarbageQueue ==
  /\ At("collect") /\ events = <<>>
  /\ phase' = "crashed"
  /\ Quiet /\ UNCHANGED <<cur, pending, last_signaled_thread, merged>>

WaitForEvents ==
  GarbageQueue \/ CollectNone \/ \E t \in Threads : Collect(t) \/ Blocked(t) \/ UnknownThread(t)
-----------------------------------------------------------------------------
(* inferior.c: proceed_event *)

Tell(type, t) == told' = [type |-> type, th |-> t]
\* ProcessEvents goes on after these answers and returns to the user after others.
Loops == {"created", "exited", "ask"}

\* Its assertions: it knows the thread that made the event, unless that thread
\* may be dead, and a thread that is said to have ended.
Knows(type, t) ==
  /\ type \in {"exited", "ask"} \/ h' \in handles
  /\ type = "exited" => t \in handles

Answer(type, t, again) ==
  /\ Tell(type, t)
  /\ phase' = IF ~Knows(type, t) THEN "failed" ELSE IF type \in Loops THEN "continue" ELSE "user"
  /\ handles' = CASE type = "created" -> handles \cup {t}
                   [] type = "exited" -> handles \ {t}
                   [] OTHER -> handles
  /\ check_events_again' = again

RemoveThread(t) ==
  IF t \in Listed THEN \E i \in 1..Len(threads) : threads[i] = t /\ threads' = RemoveAt(threads, i)
  ELSE UNCHANGED threads

ForgetSignaled(t) ==
  IF t = last_signaled_thread
  THEN last_signaled_thread' = Null /\ current_thread_is_dead' = TRUE
  ELSE UNCHANGED <<last_signaled_thread, current_thread_is_dead>>

Ended(t) == last_status[t] = "exit" \/ (last_status[t] = Chld /\ t = Main)

\* The end of the main thread is the end of the process: terminate_all_threads.
ProcessExit(t) ==
  /\ Ended(t) /\ t = Main
  /\ run' = [u \in Threads |-> IF u \in Listed THEN "gone" ELSE run[u]]
  /\ report' = [u \in Threads |-> IF u \in Listed THEN Null ELSE report[u]]
  /\ Tell("over", t) /\ phase' = "over" /\ check_events_again' = FALSE
  /\ UNCHANGED <<pending, at, msgs, libs, noise, info, last_signaled_thread,
                 current_thread_is_dead, handles, history>>

\* Done as well for a thread that is out of the list already, its death having
\* been noticed before it ended: then the upper level does not know it any more.
ThreadExit(t) ==
  /\ Ended(t) /\ t # Main
  /\ RemoveThread(t) /\ ForgetSignaled(t) /\ Answer("exited", t, FALSE)
  /\ UNCHANGED <<kernel, last_status, last_signal, expired, history>>

\* An event of a thread whose death was noticed before.
ExpiredThread(t) ==
  /\ ~Ended(t) /\ t \in expired
  /\ Answer("ask", t, FALSE)
  /\ UNCHANGED <<kernel, info, last_signaled_thread, current_thread_is_dead, history>>

\* Mutant: the events of a thread that has been detached are judged like others.
JudgedAnyway(t, s) == ~Ended(t) /\ s = last_status[t]

Judged(t, s) == ~Ended(t) /\ t \notin expired /\ s = last_status[t]

Step(t) ==
  /\ Judged(t, Trap) /\ singlestep
  /\ Answer("step", t, FALSE)
  /\ merged' = IF at[t] = "bp" THEN merged \cup {t} ELSE merged
  /\ UNCHANGED <<kernel, info, last_signaled_thread, current_thread_is_dead, sent, found>>

\* check_solib_event: one change of the library list for each call.
SolibEvent(t) ==
  /\ Judged(t, Trap) /\ ~singlestep /\ at[t] = "lib"
  /\ IF libs > 0 THEN Answer("load", t, TRUE) /\ libs' = libs - 1
     ELSE Answer("ask", t, FALSE) /\ UNCHANGED libs
  /\ UNCHANGED <<run, at, pending, report, msgs, noise, info, last_signaled_thread,
                 current_thread_is_dead, history>>

\* update_thread_list and attach_thread.
Attach(m) ==
  /\ m.event = "create" /\ m.th \notin Listed
  /\ threads' = Append(threads, m.th)
  /\ run' = [run EXCEPT ![m.th] = "stopped"]
  /\ Answer("created", m.th, TRUE)
  /\ UNCHANGED <<expired, last_signaled_thread, current_thread_is_dead>>

\* update_thread_list and detach_thread: the thread ends untraced.
Detach(m) ==
  /\ m.event = "death" /\ m.th \in Listed
  /\ RemoveThread(m.th) /\ expired' = expired \cup {m.th}
  /\ run' = [run EXCEPT ![m.th] = IF @ = "stopped" THEN "gone" ELSE @]
  /\ ForgetSignaled(m.th)
  /\ Answer("exited", m.th, m.th # last_signaled_thread)

\* The thread that died has ended before, and is not in the list.
NoSuchThread(m, t) ==
  /\ m.event = "death" /\ m.th \notin Listed
  /\ Answer("ask", t, FALSE)
  /\ UNCHANGED <<run, threads, expired, last_signaled_thread, current_thread_is_dead>>

\* The assertion of update_thread_list: the new thread is not in the list.
CreatedBefore(m) ==
  /\ m.event = "create" /\ m.th \in Listed
  /\ phase' = "crashed"
  /\ UNCHANGED <<run, threads, expired, last_signaled_thread, current_thread_is_dead,
                 check_events_again, told, handles>>

ThreadEvent(t) ==
  /\ Judged(t, Trap) /\ ~singlestep /\ at[t] \in {"create", "death"}
  /\ \/ /\ msgs = {} /\ Answer("ask", t, FALSE)
        /\ UNCHANGED <<run, msgs, threads, expired, last_signaled_thread, current_thread_is_dead>>
     \/ \E m \in msgs :
          /\ msgs' = msgs \ {m}
          /\ Attach(m) \/ Detach(m) \/ NoSuchThread(m, t) \/ CreatedBefore(m)
  /\ UNCHANGED <<at, pending, report, libs, noise, last_status, last_signal, history>>

\* The upper level puts the program counter back to the breakpoint.
BreakpointHit(t) ==
  /\ Judged(t, Trap) /\ ~singlestep /\ at[t] = "bp"
  /\ Answer("hit", t, FALSE)
  /\ at' = [at EXCEPT ![t] = "code"]
  /\ UNCHANGED <<run, pending, report, msgs, libs, noise, info, last_signaled_thread,
                 current_thread_is_dead, history>>

StrayTrap(t) ==
  /\ Judged(t, Trap) /\ ~singlestep /\ at[t] = "code"
  /\ Answer("ask", t, FALSE)
  /\ last_signal' = [last_signal EXCEPT ![t] = Null]
  /\ UNCHANGED <<kernel, threads, last_status, expired, last_signaled_thread,
                 current_thread_is_dead, history>>

SignalStop(t) ==
  \E s \in Signals :
    /\ Judged(t, s)
    /\ last_signal' = [last_signal EXCEPT ![t] = s]
    /\ Answer(IF s \in Reported THEN "signal" ELSE "ask", t, FALSE)
    /\ UNCHANGED <<kernel, threads, last_status, expired, last_signaled_thread,
                   current_thread_is_dead, history>>

\* search: do_search_for_threads before the event; a library that is loaded, not
\* one that is unloaded, sets it again once libpthread is there.
ProceedEvent(t, search) ==
  /\ h' = t
  /\ UNCHANGED <<singlestep, cur>>
  /\ \/ ProcessExit(t) \/ ThreadExit(t) \/ ExpiredThread(t)
     \/ Step(t) \/ SolibEvent(t) \/ ThreadEvent(t) \/ BreakpointHit(t) \/ StrayTrap(t)
     \/ SignalStop(t)
  /\ do_search_for_threads' \in
       IF phase' = "user" /\ told'.type = "load" THEN {search, TRUE} ELSE {search}
-----------------------------------------------------------------------------
(* inferior.c: the two calls of the upper level *)

\* With events still queued nothing is resumed.
ContinueDebugEvent(step) ==
  LET last == IF current_thread_is_dead THEN last_signaled_thread ELSE h
  IN  /\ \/ phase = "user" /\ step \in Modes
         \/ phase = "continue" /\ step = singlestep
      /\ singlestep' = step
      /\ last_signaled_thread' = last
      /\ current_thread_is_dead' = FALSE
      /\ IF events # <<>> \/ check_events_again
         THEN phase' = "answer" /\ UNCHANGED <<run, last_status, last_signal, sent>>
         ELSE phase' = "collect" /\ ResumeAllThreads(step, last)
      /\ UNCHANGED <<at, pending, report, msgs, libs, noise, threads, expired,
                     check_events_again, do_search_for_threads, events, cur, h, told,
                     handles, merged, found>>

\* search_for_unregistered_threads and attach_thread.  The answer is about the
\* main thread and does not say which thread is new: the upper level reads what
\* the debug_event holds there from an earlier answer, here Null.
Search(u) ==
  /\ do_search_for_threads /\ do_search_for_threads' = FALSE
  /\ run[u] \in {"held", "wild"} /\ u \notin Listed
  /\ threads' = Append(threads, u)
  /\ run' = [run EXCEPT ![u] = "stopped"]
  /\ h' = Main
  /\ Answer("created", Null, TRUE)
  /\ found' = found \cup {u}
  /\ UNCHANGED <<at, pending, report, msgs, libs, noise, last_status, last_signal, expired,
                 last_signaled_thread, current_thread_is_dead, singlestep, cur, sent, merged>>

\* The event made before may have more to tell.  A search may find nothing even if
\* there is something: for a known thread update_td_thrhandle returns no value.
CheckAgain ==
  /\ phase = "answer" /\ check_events_again
  /\ ProceedEvent(last_signaled_thread, FALSE) \/ \E u \in Threads : Search(u)
  /\ UNCHANGED events

NextEvent ==
  /\ phase = "answer" /\ ~check_events_again /\ events # <<>>
  /\ ProceedEvent(Head(events), do_search_for_threads)
  /\ events' = Tail(events)

WaitForDebugEvent == CheckAgain \/ NextEvent

Debugger ==
  \/ \E step \in BOOLEAN : ContinueDebugEvent(step)
  \/ WaitForEvents \/ AllStopped \/ EnsureStopped \/ WaitForDebugEvent
-----------------------------------------------------------------------------
(* Specification *)

\* create_process and the events of the start have put the main thread under
\* control; it stands where the user looks for the first time.
Init ==
  /\ run = [t \in Threads |-> IF t = Main THEN "stopped" ELSE "none"]
  /\ at = [t \in Threads |-> "code"]
  /\ pending = [t \in Threads |-> {}]
  /\ report = [t \in Threads |-> Null]
  /\ msgs = {} /\ libs = 0 /\ noise = 0
  /\ threads = <<Main>>
  /\ last_status = [t \in Threads |-> Null]
  /\ last_signal = [t \in Threads |-> Null]
  /\ expired = {}
  /\ last_signaled_thread = Main
  /\ current_thread_is_dead = FALSE /\ check_events_again = FALSE
  /\ do_search_for_threads = FALSE /\ singlestep = FALSE
  /\ events = <<>>
  /\ phase = "user" /\ cur = 1 /\ h = Main /\ told = [type |-> "hit", th |-> Main]
  /\ handles = {Main}
  /\ sent = [t \in Threads |-> {}] /\ merged = {} /\ found = {}

Next == Debuggee \/ Debugger

Spec == Init /\ [][Next]_vars
FairSpec == Spec /\ WF_vars(EnsureStopped \/ AllStopped)
                 /\ \A t \in Threads, s \in Signals \cup {Trap} : WF_vars(TakeSignal(t, s))
-----------------------------------------------------------------------------
(* Properties *)

TypeOK ==
  /\ run \in [Threads -> Lives]
  /\ at \in [Threads -> Places]
  /\ pending \in [Threads -> SUBSET (Signals \cup {Trap})]
  /\ report \in [Threads -> Status]
  /\ msgs \subseteq [event : {"create", "death"}, th : Threads, by : Threads]
  /\ libs \in Nat /\ noise \in 0..MaxNoise
  /\ threads \in Seq(Threads)
  /\ last_status \in [Threads -> Status]
  /\ last_signal \in [Threads -> Signals \cup {Null}]
  /\ expired \subseteq Threads
  /\ last_signaled_thread \in Threads \cup {Null}
  /\ current_thread_is_dead \in BOOLEAN /\ check_events_again \in BOOLEAN
  /\ do_search_for_threads \in BOOLEAN /\ singlestep \in BOOLEAN
  /\ events \in Seq(Threads)
  /\ phase \in {"user", "continue", "answer", "collect", "blocked", "stop", "kill",
                "first", "more", "over", "failed", "crashed"}
  /\ cur \in Nat /\ h \in Threads
  /\ told \in [type : Loops \cup {"over", "step", "load", "hit", "signal"},
               th : Threads \cup {Null}]
  /\ handles \subseteq Threads \cup {Null}
  /\ sent \in [Threads -> SUBSET Signals]
  /\ merged \subseteq Threads /\ found \subseteq Threads

Frozen == phase \in {"user", "continue", "answer"}

\* Whenever the debugger judges an event or the user looks, every thread it
\* knows is stopped or has ended (stop_all_threads).
StoppedWhenLooked == Frozen => \A t \in Listed : run[t] \in {"stopped", "zombie"}

\* A thread has at most one event, whose status nothing has overwritten.
OneEventEach ==
  /\ TypeOK
  /\ IsInjective(events)
  /\ phase # "over" => \A t \in Queued \ expired :
       last_status[t] # Null /\ report[t] = Null /\ run[t] \in {"stopped", "zombie"}

\* The holders of signal s sent to t.
Holders(t, s) ==
  {p \in {"kernel", "status", "event", "thread_info"} :
     \/ p = "kernel" /\ s \in pending[t]
     \/ p = "status" /\ s = report[t]
     \/ p = "event" /\ t \in Queued /\ s = last_status[t]
     \/ p = "thread_info" /\ s = last_signal[t]}

\* A signal that stops a thread is passed on to it once, or still held at one place.
SignalsKept ==
  found = {} => \A t \in Threads : run[t] \in {"running", "stepping", "stopped"} =>
    \A s \in Signals :
      IF s \in sent[t] THEN \E p \in Holders(t, s) : Holders(t, s) = {p} ELSE Holders(t, s) = {}

\* Somebody knows of the hit of t.
HitKnown(t) ==
  \/ Trap \in pending[t]
  \/ report[t] = Trap
  \/ t \in Queued /\ last_status[t] = Trap

\* No breakpoint that was executed is forgotten (HitsAreKept); it is only when
\* the SIGTRAP of ensure_stopped meets another or a hit is taken for a step.
HitsAreKept == \A t \in Threads : at[t] = "bp" /\ run[t] \notin {"gone", "zombie"} => HitKnown(t)
HitsAreKeptUnlessMerged ==
  \A t \in Threads : at[t] = "bp" /\ run[t] \notin {"gone", "zombie"} => HitKnown(t) \/ t \in merged

\* The upper level and proc_info know the same threads, and no assertion that it
\* knows whom it is told of fails (Krn_Prog.mod:441, 471), except for a thread
\* that was detached and then ends: its end is told twice.  A thread found by
\* search is told under an address that is none; nothing is said from then on.
ToldOfKnown ==
  found = {} =>
    IF phase = "failed" THEN told.type = "exited" /\ told.th \in expired ELSE handles = Listed

\* The two exceptions, which are not properties of this code (InferiorTwice.cfg,
\* InferiorSearch.cfg): an end is told once; a new thread is told by its address.
ToldOnce == phase = "failed" => found # {}
NewIsNamed == told.th # Null

\* stop_all_threads comes to its end.
StoppingEnds == phase = "stop" ~> phase = "answer"
=============================================================================
