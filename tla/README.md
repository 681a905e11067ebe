# XDS in TLA+

This directory specifies parts of XDS 2.60, the Modula-2 and Oberon-2 development
system of this repository: the process scheduler and the semaphores of its ISO
library, once on coroutines and once on threads, its buffered files, the make
facility of its compiler, the core of its linker, and the layer of its Linux debugger
that drives the debuggee.  The specifications are translated from the sources,
model-checked with TLC on small instances, and partly proved with TLAPS for instances
of any size.

    tlc -config ProcessesMixed.cfg MCProcesses       a model-checking run
    tlapm ProcessesProofs.tla                        a proof; also RegulateProofs,
                                                     SequenceFacts, ThreadsProofs,
                                                     MakeProofs, InferiorProofs,
                                                     LinkerProofs, DevDataProofs

`PROJECT.json` lists the components, the runs, the theorems, the hazards of the code
with the properties that cover them, and for each definition the source lines it
models.  For every property of a passing run it also names a mutant: a definition,
marked as such in its module, that contains a plausible bug and under which TLC finds
the property violated.

## 1. The system

Paths are relative to `src/`.

| Component | State it keeps | Operations | How it interacts | Hard behaviour |
|---|---|---|---|---|
| ISO Processes, single-threaded (`lib/src/isoimp/Processes.mod` 231-559) | ring of ready descriptors, `prs.current`, corpse, attached event sources, `hcnt` | Create, Start, StopMe, SuspendMe, Activate, SuspendMeAndActivate, Switch, Wait, Attach, Detach | transfers between coroutines; used by Semaphores and by every concurrent program | a call of one process is finished by another one, after a TRANSFER; the urgencies and the order of the ring; disposal of a stack that somebody may still stand on |
| ISO Semaphores, single-threaded (`Semaphores.mod` 102-210) | count, circular list of items that live on the claimants' stacks | Create, Destroy, Claim, CondClaim, Release | suspends and activates through Processes, so that any call may be preempted inside | preemption between waking a claimant and the end of Destroy; exceptions out of SuspendMe |
| Multi-threaded Processes and Semaphores (`Processes.mod` 1-230, `Semaphores.mod` 1-100, `xr/xrThreads.mod`, `os/POSIX/xosThreads.c`) | threads, a boolean semaphore per process, counting semaphores, the ring of processes under the recursive mutex `plock`, source tables | the same interface, creation with its handshake, end, PrepareToGC | operating-system threads, condition variables | an owner and a count that are read without the lock; reset-then-wait; "non-atomic" hand-offs; spurious wake-ups; a thread that ends while others go through the ring |
| Coroutines, interrupts (`syslib/COROUTINES.mod`, `xrnCoroutines`) | saved stack pointers, interrupt level | NEWCOROUTINE, TRANSFER, IOTRANSFER, LISTEN | under Processes | a coroutine that returns; interrupts |
| Exceptions, termination (`xr/xrExceptions.mod`, `TERMINATION.mod`) | per-coroutine handler stacks, list of finalisers | RAISE, RETRY, protection domains, HALT, finalisation | called by compiled code and every library | raising inside a finaliser, RETRY, exceptions that leave a coroutine |
| Memory manager (`xr/xrO2MM.mod`, `xrBlockManager`, `ulib/LocalHeap.mod`) | blocks, free lists, marks, finalisation lists | NEW, DISPOSE, collect | walks all stacks; stops threads | conservative marking, finalisers that resurrect, free-list limits |
| Buffered random-access files (`lib/xDevData.mod`, `isoimp/RndFile.mod`, `SeqFile`, `StreamFile`) | buffer and its place in the file, kernel position, unread characters, flags | Open, raw and text reads and writes, Look, Skip, Flush, SetPos, CurrentPos, EndPos, Close | device table of `IOLink`/`IOChan`; kernel file position | alternating reads, writes and seeks through one buffer; errors in the middle of a transfer |
| Channel I/O, conversions (`TextIO`, `WholeConv`, ...) | none besides the channel's | conversions | devices | boundaries of number ranges |
| make facility (`comp/src/u/xcMake.ob2`, `xcMain.ob2`, `xm.ob2`; symbol files in `fe/pcO.ob2`, `u/xiFiles.ob2`) | the project: files, their imports and products, tags, errors; on the disk: sources, symbol files with version keys, code files, dates | Append, Regulate, IsCompilable, CompileModule, SetResult, MakeBatch; reading, comparing and writing symbol files | compiles modules that read each other's products | the order of compilation; decisions from dates after edits, failures and kills; equal dates |
| Compiler driver (`xmConfig`, `xmArgs`, redirection, messages) | option stack, equations, search paths | option lookup, Save/Restore | read by everything | nesting of pragmas |
| Front end (`comp/src/fe`) | symbol tables, syntax trees | parse, resolve, evaluate constants | writes symbol files | unbounded data |
| Back ends (`be_krnl`, `be_x86`, `be_c2`, ...) | program graphs | optimise, allocate registers, emit | after the front end | unbounded data |
| Linker (`utils/xlink/src`: `struct.cpp`, `link.cpp`, `args.cpp`, readers, `xpe.cpp`) | list of files with segments and fixups, table of names, exports, marks, addresses, error count | read object modules and options, bind names, collect what is needed, order, address, copy and fix up text, write the image | reads what the compiler and other tools write | the order of the files against the result; cycles among segments; two computations of one address; counts made in one pass and used in another |
| Debugger, process layer (`debug/src/xd_386/Linux/linux_layer/{inferior,events,thread}.c`) | list of threads, last status and signal of each, queue of events, flags | continue_debug_event, wait_for_debug_event, stop_all_threads, ensure_stopped, proceed_event | `ptrace` and `waitpid`; the pthread library's thread messages; ProcessEvents in `Krn_Prog.mod` | threads stop, end and are signalled while the debugger decides; several events at a time |
| Debugger, upper levels; remote debugging (`debug/src`) | breakpoints, execution state, connection | set, go, step, evaluate; requests over a line | process layer; remote kernel | breakpoints that are in the code or not; lost packets |
| Utility libraries, OS layer, terminal windows, TopSpeed and PIM libraries | small | wrappers | operating system | their own schedulers in the ported libraries |
| Other tools (librarian, resource compiler, `h2d`, disassembler, profiler, IDE) | files | convert | - | sequential |

For each component, what makes it correct:

- Processes: a process executes under its own identity and resumes where it stopped;
  the ready ones are linked, once, and nobody else is; the most urgent ready process
  executes; equals take turns; nothing resumes a stack that has been released;
  passiveProgram is raised exactly when nothing can happen any more.
- Semaphores: permits are conserved; a sleeper is linked and a linked one sleeps.
- Multi-threaded processes: the mutex excludes; no activation and no release is lost;
  nobody returns from SuspendMe without an Activate; who goes through the ring sees
  one ring; the collector sees every thread.
- Exceptions and termination: every handler is entered at most once per raise, every
  finaliser runs once, in reverse order, whatever raises on the way.
- Memory: what is reachable is not collected, what is finalised is finalised once.
- Files: a file with a buffer behaves as one without; after a failed Reread or Rewrite
  nothing is read or written in the old mode.
- make: imports come first; a cycle is reported exactly when there is one; after a
  make without errors everything is made from what is on the disk now; a make right
  after it does nothing; errors reach exactly the clients.
- Linker: exactly what is needed is linked, in whatever order it is found; a name is
  bound to one definition, and which of the public, COMMON and weak ones that is does
  not depend on when they were seen (an import holds a name only if it came first);
  nothing overlaps in the image and everything stands where references say it does.
- Debugger: when somebody looks everything is stopped; every event of every thread is
  told once, and of a thread that is known; a signal reaches the program once; a
  breakpoint is in the code exactly when the program runs.

The hazards, each at its line, are in `PROJECT.json`.

## 2. The modules

| Module | Models | Kind |
|---|---|---|
| `Processes` | `Processes.mod` 231-559 | specification |
| `ISOProcesses` | what `isodef/Processes.def` promises | abstract specification |
| `MCProcesses` | urgencies for the checked instances | model |
| `SequenceFacts` | lemmas on sequences and least elements | proofs |
| `ProcessesProofs` | theorems of the scheduler and of the semaphores | proofs |
| `Semaphores` | `Semaphores.mod` 102-210, over `Processes` | specification |
| `SemaphoreSpec` | what `isodef/Semaphores.def` promises | abstract specification |
| `MCSemaphores` | model of the semaphores, refinement mapping | model |
| `Mutex` | `xosThreads.c`: X2C_EnterMutex, X2C_ExitMutex | specification |
| `Threads` | the semaphores of `xosThreads.c`, processes of `xrThreads.mod`, `Processes.mod` 1-230 and `Semaphores.mod` 1-100, over `Mutex` | specification |
| `MCThreads` | names of the processes | model |
| `ThreadsProofs` | theorems of the mutex and of processes on threads | proofs |
| `Regulate` | `xcMake.ob2`: Append, MakeClosure, MakeImport, Regulate | specification |
| `MCRegulate` | disks: import graphs, combinations of files | model |
| `RegulateProofs` | theorems of Regulate | proofs |
| `Make` | `xm.ob2` Recompile, `xcMake.ob2` IsCompilable and SetResult, `xcMain.ob2` CompileModule and MakeBatch, symbol files of `pcO` and `xiFiles` | specification |
| `MCMake` | small programs | model |
| `MakeProofs` | theorems of the make facility | proofs |
| `Linker` | `xlink/src/struct.cpp`, as `link.cpp` calls it for a PE image | specification |
| `MCLinker` | object modules and exports | model |
| `LinkerProofs` | theorems of the linker | proofs |
| `Inferior` | `linux_layer/inferior.c`, `events.c`, `thread.c`, ProcessEvents of `Krn_Prog.mod` | specification |
| `MCInferior` | names of threads and signals | model |
| `InferiorProofs` | theorems of the debugger | proofs |
| `FileBytes` | what reading and writing do to a sequence of bytes | operators |
| `RandomFile` | what `RndFile.def`, `SeqFile.def` and `IOChan.def` promise | abstract specification |
| `DevData` | `xDevData.mod`, `RndFile.mod`, `SeqFile.mod` over `xosFiles.mod` | specification |
| `MCDevData` | bytes, strings and flags of the checked instance | model |
| `DevDataProofs` | theorems of the buffered files | proofs |

`Semaphores` extends `Processes` and calls its actions, so a Claim that suspends is
one step of both.  `Threads` extends `Mutex` and runs it as plock.  `Make` takes the
order that `Regulate` computes as a constant with the assumption `OrderIsRegulated`,
which is what `Regulate`'s property `ImportsFirst`, proved under the same name, says
when no cycle was reported.

### Processes

One call is one action, from the call to the next time a coroutine is back in its
program.  That includes what the *resumed* coroutine does inside the call it was
parked in: after TRANSFER it returns inside GoNext, disposes of `corpse`, and Switch
then reads `info`.  The circular list is the sequence `ring`, current first.  A
coroutine has the name of the process it was created for: `running` is the stack the
machine executes, `body[p]` the one the descriptor of `p` says to resume.  The two
have to be apart, because Tie writes the executing coroutine into the descriptor of
whatever is current.  `at` says where a parked coroutine continues: it has not begun,
it is inside GoNext, inside Switch, or it has stopped.  A failing ASSERT (compiled in
in the debug builds, `lib/src/m/lib.prj`), a resumed stopped coroutine, passiveProgram
in the only process and listening for ever are outcomes.

COROUTINES.TRANSFER is taken to switch stacks and nothing else.  Interrupts are not
modelled: no handler of this variant of the library activates a process, so `Wait`
ends only through Activate.

`FreeHandOff = FALSE` restricts the *clients*: they call SuspendMeAndActivate and
Switch only when nobody else is ready.  Without it the library breaks (run
`handoff_identity`).  Two more obligations of clients are part of the guards: a
process that has stopped is not named any more, and a process is created once.

### Semaphores

`s^.lst` is a sequence of processes, `waitsFor` and `destroys` are the return
addresses on the stacks.  Destroy is one action per turn of its loop, because Activate
may hand the processor to the claimant it wakes.  `permits` is a history variable:
what the calls so far leave.  When SuspendMe raises passiveProgram, Claim ends with
its item still linked on a stack that is gone; a later Release finds the item intact
or overwritten, both are possible.  Client obligations: one process destroys a
semaphore, a process that waits in Claim is left to Release, and
`PassiveClaims = FALSE`: the last ready process does not call a Claim that must wait.

### Mutex and Threads

`Mutex` is the recursive mutex, access by access: `lock` is the holder of the pthread
mutex, `thread` and `count` are the fields that X2C_EnterMutex and X2C_ExitMutex read
*before* they have it, and `at` is the access a thread is about to make.  m->thread is
not initialised, so its first value is any thread.  C gives such races no meaning; the
model takes each access as atomic and in program order, which is what the compilers
and processors of the supported platforms do with an aligned word.

In `Threads` the body of a semaphore operation runs under the lock of that semaphore
and is one step.  Waiting on a condition variable splits an operation: the process is
"asleep", then "woken" by a signal, a broadcast or nothing at all, and looks again
(`Acquire`).  `m->waiters` is not a variable, it is who is inside the loop.  A process
has `controll`, which Activate sets, and while it is being created `controll1`, by
which its thread tells the creator that it is in the ring; registration and its undoing
are done with plock, so they are steps of `Mutex` around `Link`.  The processes with
permission to go through the ring are any that call X2C_StartIterateThreads, that is,
`EnterMutex` with depth.  SuspendMeAndActivate and Switch are `HandOff` and, later,
`HandedOff`, as the source says itself (`Processes.mod` 118).

`activated` records whether a passive process has been activated, and whether that
came between the two halves of its own hand-off.  `live` are the semaphores that exist:
a program activates processes that exist and have not begun to end.  A claimant waits
in the semaphore without plock, as the library's own calls do (`Free`).

### Regulate

A source is a file on the disk (name and extension) with its heading; a file of the
project is a name and a mode, as in `p.list`.  The two are different: a source becomes
the node named in its *heading*, and symbol and code files are nodes that are never
read.  The actions follow the loops: Append's search for an argument, the scanner
hearing one import after the other, MakeClosure's walk over a list that grows under
it (one half of Parse at a time), Order's recursion with an explicit stack, the two
loops of Order and the last loop of Regulate.  Foreign modules (C, assembler, SL1,
object files), header files and redirection are left out; headings are abstracted to
name, kind, imports, and whether the scanner accepts them.

### Make

A unit is a source.  On the disk there are its text (two counters: interface and the
rest), its symbol file (date, version key, the interface it describes, key and
interface of every module it shows) and its code file (date, what it was made from).
A run of xm is a `job` going through a `plan`: for a make, decide - compile - write
the symbol file - write the code file - next; for BATCH only the decisions; for
COMPILE, and for the batch file when the user runs it, only the compilations.  The
user edits sources, removes files and kills xm at any point; a compilation may fail
after its imports were read or in its code generator.  Comparison of symbol files leaves
out the module's own key and compares those of its imports, as `WriteTag` does.

A compilation reads the symbol files of what it imports depth first, each once
(`Reads`, of which `FilesAreRead` and `FilesAreReadInDepth` say this).  A symbol file
shows keys and types of other modules.  When one of these has been read from its own
file before, its key must be that one; when it is only known through such other files,
*incompletely*, the files must agree, and its own file, when it is read at last,
replaces the key without a check (`pcO.ob2` 2205-2214, 1964-1972, 2014-2017).  `Early`
are the files that show a module before its own is read, `Clash` is error 192, `Stops`
where the reading ends, and `Known` what the compilation then knows of a module: its
present key with the types of the first file that showed it.  `Mixed` says that this is
not what the module is, without any error; `mixed` is the history of it, which the next
complete make in the submode ALL clears.

The options CHANGESYM and M2CMPSYM are chosen at the start, as a project file would.

What the user is assumed to do: sources are edited between runs, not during one, and
an edited source gets a date later than what was there (`Ties = FALSE`).  `Ties = TRUE`
lets events share a date.  A type in the interface of a module comes from one of its
imports or from the interface of one (`UnitsAreModules`): the scanner cannot name
others.  An edit of an interface gives one that was never there before.

### Linker

An object module is what a reader delivers for a file: segments with their class,
group, alignment, length and fixups, the names it declares (public, COMMON, imported
by ordinal or name, weak, absolute), the exports it asks for, its library, and whether
/SMART was on.  TLC reads them in every order.  A segment is its file and its place in
it, the segment of a COMMON block is `<<0, k>>`.

The phases are those of `link.cpp`: options and files, PrepareExport, the roots (entry
point and exports), CollectAll when the last file was read without smart linking,
CreateCollections and addresses, the image.  A file is opened (`OpenFile`), its
declarations and its exports are read one by one (`ReadDeclaration`, `ReadExport`;
`item` is the next one), and it is left (`FileRead`).  Among public, COMMON and weak
declarations rank decides, whichever comes first; an import that meets a name which is
bound to anything else leaves it so with a warning, and one that comes first stays, but
for an error if a public or COMMON declaration outside the libraries follows.  What
*collects* is one action per fixup: the recursion CollectSegments - CollectFixup -
CollectSegments is a `stack` of segments and positions, so that the marks on a cycle are
seen half made.  `CollectAllSegments` and `PassFile` are the turns of CollectAll's loop,
including its `changed = changed || ...`, which stops evaluating the call once something
has changed.  `Place` does the order of segments within their collections, the numbers
of the jumps, and the addresses; `CreateImages` the second computation of offsets and
the count of fixups that the first pass has to agree with.  The assertions on the room
of an image and on that count, an absolute name as the target of a fixup and the endless
look-up of a weak name are phases of their own (`overrun`, `miscounted`, `asserted`,
`hung`).

Four assumptions on the constants say what is delivered.  `ObjectsAssumption`:
fixups, declarations and exports refer to identifiers or to segments of their own file,
and a file with import descriptors has an external name, which CollectSegments takes
from `extrnls` without a look whether there is one.  `OptionsAssumption`: entry point
and options name identifiers, and the ordinals that options ask for are numbers.
`NullAssumption`: `Null` is none of all this.  `PageAssumption`: the alignment of the
sections is a positive number.

qsort is not stable: which of the exports without a number gets which one is left
open.  The exact bytes, relocation entries and headers are not modelled.

### Inferior

The kernel and the pthread library are outside `src/` and modelled as far as the code
uses them: `run` says what a thread does, `at` which instruction it has just executed
(a breakpoint, the library's thread-creation or -death breakpoint, the loader's one),
`pending` its signals, `report` the status waitpid would return, `msgs` what
td_ta_event_getmsg would.  A thread takes a pending signal before it executes
anything, and a signal that is pending already is not pending twice.

The debugger's own variables have their names in the code.  A step ends where the
debuggee may do something that the debugger reads next: at every waitpid, between
reading a thread's state and sending it SIGTRAP, between sending and waiting
(`phase` is where).  proceed_event runs while all known threads are stopped: each of
its branches is one action.  `told` is the answer the upper level gets; when it is
"created", "exited" or "ask", ProcessEvents continues by itself, and otherwise the user
says whether to go on or to step.  ProcessEvents keeps threads of its own, `handles`,
and asserts that it knows the thread it is told of (`Knows`, `Krn_Prog.mod` 440-475);
the phase `failed` is a failure of this assertion.  `sent`, `merged` and `found` are
history.

After a library was loaded, the next look for more events first searches the pthread
library for a thread that is in no list (`Search`, `inferior.c` 918-939).  It may come
upon one whose creation event is still unread, which ends in the assertion of
update_thread_list (`CreatedBefore`), and its answer "created" does not name the thread:
the field that should has what an earlier answer put there, which the model takes for
Null.  The search may also find nothing when there is something: the function that its
callback calls for a thread it knows returns without a value (`thread.c` 414).

Left out: starting and re-executing the debuggee, state D, the exit status 5 (which
waitpid's caller takes for a SIGTRAP), failing ptrace calls, detaching, the insertion
and removal of breakpoints (`at[t] = "bp"` is an int 3 that was there).  Where the status
of a thread is judged that nobody has set, which happens only after a search has found
one, the model ends.  The local
`events` of wait_for_events_internal is not initialised: the outcome other than NULL
is the phase `crashed`, and so is a failed assertion of create_event (`UnknownThread`).
When an exit is queued while the death of the same thread is told, its thread_info is
taken out of the list a second time and its end told again (`ThreadExit`); the list is
taken to stay as it is, and the assertion of ProcessEvents (471) fails.

### DevData

One channel, which may be closed and opened again in any of the five ways of RndFile
and SeqFile.  `buf` is the valid part of the buffer (its length is `blen`), `kpos` the
position of the stream below.  A method is one action; the procedures under it
(bRead, bWrite, bFlush, textread, ...) are operators on the record of a call, which
carries the device data through the system calls in the order of the code and stops
where one fails.  `room` is how many bytes the device transfers in the call before it
fails, so a failure may hit any transfer of the call, and leave half of it done.

What is written is also visible before it is flushed: `Content` is the disk with a
modified buffer laid over it, and `Where` the position of the next character, with
the ones put back by Look or TextRead not yet taken.  The refinement maps `RandomFile`'s
file and position to these.

The code does not keep the position through every call, so the program is held to some
rules (`Careful`, guards `Placed`, `Clear` and `Selected`): after a Flush in the middle
of the buffer, after a read of more than a buffer that met the end of the file, and
after a long transfer that failed, it sets the position before it goes on; what it has
looked at it takes before it writes, sets the position or asks for it; it asks for
EndPos only within the file, and synchronises only an empty buffer; and after a Reread
or Rewrite that has failed it does not read or write before one of them, or an Open, has
worked.  In return `RandomFile` has position Unknown after such calls, and no mode after
a failed Reread or Rewrite.  `Careful = FALSE` drops the rules.

Reading and writing are what the *mode* of the channel allows, as Open, Reread and
Rewrite have set its methods; the others raise an exception (`Forbidden`).  Rewrite
(`SeqFile.mod` 182-205) has five ways to end.  There may be no memory for the name: all
methods are forbidden and it returns.  The flush may fail: an exception, the mode as it
was (`kept`).  The stream may fail to close, whose handle Rewrite takes from the device
data that Close has just disposed of: an exception, the mode as it was, on a channel
without device data (`chan` is "disposed").  The file may not be opened again: all is
forbidden and it returns, also without device data.  Or it works.  What a call does with
disposed data is undefined; `Next` leaves such calls out, as programs that may rely on
anything must, and `Careless` has them (`UseDisposed`).

Bytes are 0 and LF = 1.  The line mark is one character, as `platform.def` has it for
Unix; SkipLook is a Skip and a Look, WriteLn a Write of LF.  Seeks and tells succeed.
A channel that only reads raw uses the same `read`: it never puts back a character.
The streams of C are taken to have one position for reading and writing and to allow
either after the other, as glibc's do (the C standard wants a seek in between).

## 3. The runs

| Run | Question | Instance | Result |
|---|---|---|---|
| `scheduler` | does the most urgent process run; do ring, states, coroutines and corpse agree; is the ring a queue in which everybody gets a turn; does Switch return what was passed; does the library keep the promises of `Processes.def` | 3 processes of urgency 0, 1 of urgency 1, 1 source | holds |
| `semaphores` | are permits conserved and sleepers linked when claimants preempt; does the library keep the promises of `Semaphores.def` | 1 semaphore, counts to 2, 4 processes, 1 above | holds |
| `threads` | does the mutex exclude; is no Activate and no Release lost; does SuspendMe wait for an Activate; is the ring one ring for who goes through it; does an activated process go on | 3 processes, nesting to 2, counts to 2 | holds |
| `order` | is the order right for every import graph; is a cycle reported exactly when there is one; is every source found; does it end | 375 graphs of 3 modules, 320 disks with 6 sources, 2 arguments | holds |
| `make` | is a make complete, and free of import errors, unless a compilation alone has mixed interfaces; does it settle, do clients of failed modules wait, is an interface never replaced without CHANGESYM | definition P with implementation, Oberon-2 modules Q, which shows P, and R, and a main program that reads R and Q before P; CHANGESYM on, and off with M2CMPSYM on; clock 5, 2 events | holds |
| `linker` | is exactly what is needed linked; is a name bound to the import that comes first, or else as if all files were known at once; are the fixups that are counted the ones that are written; does the text stand at its address and nothing overlap; do the texts fit into their images; are ordinals distinct | up to 4 of 9 object modules in any order, up to 2 of 4 exports, with and without an entry point | holds |
| `debugger` | is everything stopped when somebody looks; is an event kept; is every hit told unless it merged with the debugger's own SIGTRAP; does stopping end; and until a search has found a thread: does a signal reach the program once, and do both levels know the same threads, but for the second end of a detached one | 3 threads, a signal that is reported and one that is not, 2 events besides threads coming and going, steps, searches | holds |
| `files` | is a file with a buffer a file with one position and a mode, whatever fails; do buffer, file and stream position agree | buffer of 2, file up to 5 bytes, reads of 1 and 4, writes of 1, 2 and 5, positions 1 and 4, 3 points of failure in a transfer, and those of Rewrite | holds |
| `handoff_identity` | does Me return the identity of the caller | 3 processes | **violated** |
| `three_urgencies` | do Tie's assertions hold | 4 processes, 3 urgencies | **violated** |
| `hits_are_kept` | is every hit told or queued | 3 threads | **violated** |
| `fixups_counted` | are fixups counted once when an export names a segment of its own module | up to 2 of 9 object modules, 1 export | **violated** |

Ten more configurations state promises that the code does not keep; they are variants
of the runs above, and each shows what an assumption named in section 2, or an exception
in a property, is for.  TLC finds all of them violated:

| Configuration | Module, property | What TLC shows |
|---|---|---|
| `SemaphoresPassive` | `MCSemaphores`, `PermitsConserved` | a Claim that ends with passiveProgram leaves its item linked, and the next Release gives it the permit (why `PassiveClaims` is FALSE) |
| `ThreadsHandOff` | `MCThreads`, `HandOffKept` | the process that is activated by SuspendMeAndActivate activates the caller before the caller suspends, and the caller's reset wipes that out: `Processes.def` 51 promises "an atomic sequence", `Processes.mod` 118 says `(* !!! non-atomic *)` |
| `MakeBatch` | `MCMake`, `BatchIsComplete` | the batch file is decided from the dates before anything in it is compiled; the code that would note the future products is commented out |
| `DevDataFlush` | `MCDevData`, `FlushKeepsPosition` | bFlush leaves the stream at the end of what was in the buffer, although the position was inside it (why `Careful` is TRUE) |
| `MakeAlone` | `MCMake`, `AlwaysComplete` | after an edit of P's interface, the compilation of P alone and then of the main program alone succeeds: it has P's old types from the file of Q and P's new key, and its code file is younger than the symbol files it imports, so that a make leaves it while it rebuilds the rest (why `MakeIsComplete` speaks of `mixed`) |
| `DevDataModes` | `MCDevData`, `FailureForbids` | a Reread or Rewrite that raises an exception leaves the old mode; `SeqFile.def` 65 and 74 promise that neither mode is selected |
| `DevDataRewrite` | `MCDevData`, `NothingDisposedIsUsed` (of `Careless`) | after a Rewrite that has not closed or not opened the file, the methods of the channel use device data that are disposed of |
| `InferiorTwice` | `MCInferior`, `ToldOnce` | a thread's exit is queued, its death is told first and detaches it, and the exit is then told for a thread ProcessEvents does not know any more: the exception in `ToldOfKnown` |
| `InferiorSearch` | `MCInferior`, `NewIsNamed` | a thread that is found by search is told as created without saying which it is (why some properties and the theorems of the debugger speak of `found`) |
| `LinkerImage` | `MCLinker`, `TextFits` | an import library whose sections have the alignment that COFF files default to: `struct.cpp` 1765 asserts that its text fits into the image of IDATA, and it does not (section 4) |

The bounds.  Four processes are the fewest with a current, two others to be in order,
and one to be tied in between or stopped; Tie and UnTie look at neighbours only.  Two
urgencies are what the code supports: three break it.

Three threads are two that compete and one that is between reading the owner and
comparing it, or that acts on one process while another one does; a nesting of two has
both ends of every branch of the mutex.

Three modules have every kind of cycle (self imports too), diamonds and chains; two
arguments can name one module twice.  A make needs clock ticks for: a first build, an
edit or a single compilation, and the make that is judged, and one more for the
products; two events are an edit with a kill, a failure or a removal, or two edits.  The
five units are the fewest in which a main program reads a symbol file that shows a
definition before that definition's own, and another one after it; `mixed` becomes TRUE,
and makes follow it, with errors 192 and without.

The nine object modules have between them: a cycle between segments and one between
files, a library in two files, files that are to be whole, a segment without linkable
text, COMMON blocks of different lengths in a library and outside, a name that is COMMON
here and public elsewhere, imports by kind of names that others declare weak, COMMON and
public, weak and absolute names, exports of own segments, COFF
import stubs with their descriptor.  With four files a round of CollectAll passes
over a file that the next one must find, and a name can be declared, declared again
and be replaced.

Of three threads one can be the source of the first event, the second be stopped, and
the third be created or die meanwhile; two events of the debuggee's own put one thread
in the queue while a second has its status unread.

A write of 5 into a buffer of 2 fills the rest of the buffer, goes to the disk directly
with a whole buffer and starts a new one, in each alignment; a read of 4 does the same;
files of 5 bytes hold the buffer with something before and after it, and position 4 lies
behind the end of shorter ones, where a gap begins.  The failure after 1 byte hits the
first transfer of a call, after 3 the second.

Symmetry is not used: Main is special, modules differ by their place in the program,
and some runs check liveness.  Deadlock is not checked, since in all systems everybody
may stop: programs end, users go home, a linker is done.

`MaxArgs`, `MaxCount`, `MaxDepth`, `MaxClock`, `MaxEvents`, `MaxFiles`, `MaxExports`,
`MaxNoise` and `MaxLen` are the only bounds that are not in the code.

Fairness.  `scheduler` assumes `WF(StopMe \/ SuspendMe \/ Wait)` for `ReadyRuns`: the
running process keeps giving up the processor, as the processes of a cooperative
program do; the scheduler itself has no preemption, so without that nothing can be
promised.  `order` assumes `WF(Work)`: xm is a sequential program and nothing in it
waits.  `threads` assumes `WF(Acquire(t))` for every thread: who has been woken gets
the semaphore's lock, which nobody holds across anything that waits, and looks.  It is
weak fairness of the look only: nobody is obliged to activate, to release or to wake
anybody.  `debugger` assumes, for `StoppingEnds`, that the debugger runs while it is
not in a waitpid, `WF(EnsureStopped \/ AllStopped)`, and that the kernel delivers a
signal that is pending, `WF(TakeSignal(t, s))`; the debuggee's own threads are obliged
to nothing.  All other properties are safety properties and assume none.

## 4. What was found

Each of these is a run, and an entry in `PROJECT.json` "findings".

- `handoff_identity`: SuspendMeAndActivate unties the caller and then ties the other
  process on the caller's stack; Tie saves the executing coroutine in the descriptor
  of `prs.current`, by now a third process.  When that one is resumed the caller's
  stack runs under its name.
- `three_urgencies`: UnTie makes `p^.fwd` current, the *least* urgent ready process.
  With one process above its peers that is still a most urgent one (proved below);
  with three levels the next Tie fails its own assertion.
- `hits_are_kept`: ensure_stopped sends SIGTRAP to a thread and takes the first SIGTRAP
  it sees for its own.  If the thread has meanwhile executed a breakpoint, its hit is
  neither told nor queued, and the thread goes on behind the int 3.
- `fixups_counted`: PrepareSections collects the segment that an export names without
  asking whether it has been collected already, so that its fixups count twice and the
  assertion at the end of CreateImages fails.

Divergences that were seen while modelling and have no run, besides those of the
configurations above.

Library, single-threaded:

- Switch to a less urgent process leaves the caller executing (`Processes.mod` 461;
  `Processes.def` 54 says p becomes the executing process).  A second StopMe before
  anybody returns inside GoNext overwrites the corpse (393), Wait is ended by Activate
  only (478), and Destroy goes on as long as there are claimants (`Semaphores.mod` 164).
- CurrentPos after Look is one too far (`xDevData.mod` 805), EndPos beyond the end is the
  position (`xDevData.mod` 840; `RndFile.def` 72), and SynchronizePos looks at bpos only
  (`xDevData.mod` 927) where its comment says that the buffer must be empty.
- Rewrite takes the handle to close from device data that Close has disposed of, and
  raises before it changes the methods when that fails (`SeqFile.mod` 195-197); after a
  failed opening it forbids reading and writing, but positions, Flush and Close still go
  to the disposed data (`DevDataRewrite`).

Library on threads:

- Release counts and signals, and whoever comes first takes the permit;
  `Semaphores.def` 24 says that it allows a waiting process to become ready, and
  otherwise counts.
- The locks and semaphores are not freed: the Delete procedures of `xosThreads.c` set
  the pointer to NULL before they free it, and the failure paths of
  X2C_CreateISOProcess leave `controll1` behind.
- Attach lists a source twice that is attached twice, and drops one without a word when
  the table is full (`Processes.mod` 161).  The `info` of Switch is never reset.
- When a thread cannot be suspended PrepareToGC raises with plock taken, and resumes
  threads by the tags of another one (`xrThreads.mod` 290).  X2C_SuspendThread sends
  SIGSTOP, which stops the whole process.
- UntieFile of the last file returns with `rlock` taken (`xDevData.mod` 455).

make:

- `xm =make hello` with `hello.ob2` and `hello.mod` takes the first without an error
  (`xcMake.ob2` 746; `usage.tex` 584).
- Version keys count from the second xm was started, so a later run can hand out a key
  that an earlier one used for another interface (`xmFS.ob2` 492; `errors.tex` 955).
- Error 192 does not come when a module was known incompletely before its own symbol
  file is read (`pcO.ob2` 2205): a compilation alone then mixes interfaces, and a make
  that comes later may find nothing to do, or report 192 in another module (`MakeAlone`).
- Equal dates: with `Ties = TRUE`, in the example that `errors.tex` gives for error 192,
  a make that follows a killed one within a tick reports it (`xcMake.ob2` 375;
  `errors.tex` 973 says never).  A source that is
  edited while it is compiled gets products younger than the edit (`xcMain.ob2` 642).
- An Oberon-2 symbol file older than an imported one is no reason to compile
  (`xcMake.ob2` 371; `usage.tex` 656).  `make` shows that makes are complete
  nevertheless, and that following the manual would keep them from settling.

Linker:

- /NOSMART is honoured for all files or none, as it was when the last file was read
  (`args.cpp` 151; `xlink.tex` 483 says "for subsequent files").
- A COFF weak external is made to forward to itself (`readcoff.cpp` 286), and
  resolveFixupTarget follows it for ever if nothing defines it (`struct.cpp` 419);
  CollectName does not follow such names at all.  An absolute name as the target of a
  fixup fails an assertion (444).
- IsIDATA_DOLLAR tests the character behind the one it means (1179), so that the
  segments of COFF import libraries are never sorted by it.
- An export that overrides another one keeps the rank of the old one (852).
- The text of IDATA is copied from offset 0 while its addresses begin behind the
  import directory, 20 bytes for each library (1482, 1758): with alignments over 4, and
  a COFF section that names none gets 16 (`readcoff.cpp` 118), the two come apart.
  `LinkerImage` has the case in which the texts then need more room than there is and
  the assertion of 1765 stops the linker; where they fit, the image is wrong without a
  word.  `TextIsPlaced` says that a section whose
  beginning does not suit its segments is the only reason.
- A BSS segment of a COFF file may have fixups, which are counted and never written;
  the readers of OMF files reject them (`NoFixupWithoutText`).

Debugger:

- When the user steps, a hit that is still queued for another thread is told as the end
  of the step (`inferior.c` 725); a hit of a breakpoint that has been removed meanwhile
  is no hit any more, and its thread goes on behind the int 3 (842).  `merged` has the
  first, the second is not modelled.
- The exit status that a thread leaves in the branch of ensure_stopped for stopped
  threads is read and thrown away (`thread.c` 725).
- The list of events that wait_for_events_internal tests is not initialised
  (`events.c` 88).
- A thread may have ended when its death message is read.  The branch for TD_DEATH
  takes it out of the list all the same (`thread.c` 541), so that its exit status finds
  no thread_info and the assertion of create_event fails (`events.c` 14).  Writing down
  the invariant of the list has shown this: without `UnknownThread` a status could
  become an event of a thread the debugger does not know.
- The exit of a thread that is queued when its death is told is told as well:
  remove_thread_info_entry runs twice (`inferior.c` 686), and ProcessEvents fails its
  assertion (`InferiorTwice`).
- search_for_unregistered_threads tells a new thread as an event of the main thread,
  with whatever address the event record has, and may register one whose TD_CREATE comes
  later, so that the assertion of update_thread_list fails (`thread.c` 496;
  `InferiorSearch`).

## 5. What is proved

**Processes** (`ProcessesProofs`).  For any set of processes, any finite set of
sources, and any history:

- `Consistent`: `Inv` is an invariant, where `Inv` is the type invariant, `hcnt`
  counting the attached sources, and `SchedulerInv`.  The properties themselves are
  not inductive: that the ring agrees with the states is preserved only because the
  current process is the one that executes and its coroutine is live, which in turn
  needs that descriptors hold their own coroutines (`body[p] = p`), and that stopped
  ones are not linked.  `SchedulerInv` is the conjunction of these.
- `RingIsReady`, `OwnIdentity` and `DisposesTheDead` follow from it and state
  properties that `scheduler` checks; `TypeCorrect` and `CountsSources` (the counter of
  sources cannot get out of step, however often one is attached and detached) follow
  too, and no run checks them again.
- `MostUrgentFirst`: if at most one process is above the others, the most urgent ready
  process executes and no assertion of Tie fails.  The invariant is that nobody in the
  ring is more urgent than its first element (`Ordered`).
- `KeepsThePromise`: under the same condition the scheduler implements `ISOProcesses`
  (`ImplementsISO`).  Every operation maps to one step of the abstract one or to none;
  the disposal that GoNext does on another stack is invisible, because a stopped
  process and a freed one have the same abstract status.
- `SwitchIsAnswered` (SwitchResult): what a caller of Switch gets has waited in `info`
  while others ran.  The invariant is that a ready process parked in Switch has been
  made ready by Tie, which leaves NIL there (`SwitchersInv`).
- `EqualsTakeTurns` (NoOvertaking): among equals Tie appends, and nothing else puts
  anybody into the ring.

All assume `FreeHandOff = FALSE`, the client obligation of section 2; urgencies are
arbitrary except in `MostUrgentFirst` and `KeepsThePromise`.  The lemmas at the head of
the module say what InsertAt, a rotation and Tail do to a list without duplicates, and
from that what Tie and UnTie do to the ring.

**Mutex** (`ThreadsProofs`).  For any set of threads and any depth of nesting:
`MutexTyped` and `MutexExcludes` (MutualExclusion), from `MutexInv`.  Exclusion is not
inductive, because a thread acts on a count and an owner that it has read before.  What
is needed is `Owners` (who is at an access that changes the fields has the pthread
mutex, and a positive count is the depth of the holder) and `NoOldOwner`: a thread that
has seen a positive count and is about to compare the owner either has the mutex or is
not the thread in the field.  That is where the order of the two writes in
X2C_EnterMutex matters: owner first, then count.

**Threads** (`ThreadsProofs`).  For any number of processes and any counts, spurious
wake-ups included:

- `UsesMutex`: the program implements `MutexSpec`, from which `ProgramExcludes`
  (MutualExclusion) follows without another proof, and `IterationsAreSafe`
  (IterationsSeeOneRing): whoever changes the ring has plock, and so has whoever goes
  through it.
- `ActivationsAreKept` (ActivationsKept) and `SuspensionsLast` (OnlyActivatedReturn),
  from `ControlInv`: an Activate of a passive process opens its semaphore, which
  nobody but that process closes; and a process that is not in the ring yet has not
  been activated, because its creator still waits for the handshake.
- `ReleasesAreKept` (WakeupsSuffice), from `PermitsInv`: while a claimant sleeps there
  are no more permits than claimants that were woken and have not looked yet.  It
  needs that the set of the woken is finite.
- `ProgramTyped`.

**Semaphores** (last part of `ProcessesProofs`).  For any processes, semaphores and
counts, on the conditions `Obligations`: the two obligations of the clients
(`FreeHandOff = FALSE`, `PassiveClaims = FALSE`) and at most one process above the
others.

- `CallsAgree`: `CallsInv` is an invariant.  It has the invariant and the order of the
  scheduler, that a process inside a call that waits is passive or ready and parked in
  the scheduler (`WaitersParked`), that the list of a semaphore holds exactly the
  sleepers, each once, and the count is 0 while it holds anybody (`Queues`), and that
  the accounts balance (`Permits`).  None of these is inductive alone: that Release
  moves the first of the list into the ring depends on that process being passive,
  and parked rather than stopped.
- `NoWakeupIsLost` (SleepersAreQueued) and `PermitsAreKept` (PermitsConserved) follow.
- `UsesScheduler`: `SemSpec => Spec`, so that the theorems on the scheduler hold
  under the semaphores.
- `KeepsItsPromise`: any one semaphore, beside any others, implements `SemaphoreSpec`
  (`ImplementsSemaphore`).

**Regulate** (`RegulateProofs`).  For any set of module names, any disk (`Texts` is
arbitrary) and any number of arguments, so for import graphs of any size and shape:

- `TypeCorrect`, from `TypeInv`, which adds that what is being scanned exists.
- `OrderIsRegulated` (ImportsFirst), `ReportsAreTrue` (CyclesAreReal) and
  `NothingForgotten` (NodesAreTheList), from `OrderInv`.  None of them is inductive.
  The depth-first search is right because a file with the tag ordered is tied or on
  the stack of activations (`OrderedIsUnderWay`), an activation has left behind only
  imports with the tag (`PastIsOrdered`), and each activation reaches the one above it
  along imports (`StackIsAPath`); so an import that is not tied when Order returns
  leads back to the file, and all others precede it (`LateIsReported`).  That the
  loops over the list miss nothing is `Progress`.
- `HeadingsWereRight` (HeadingsAgree), from `HeadingInv`: as long as there is no error
  every source module in the list agrees with a heading, and what the scanner has
  collected is what it has heard.
- `ClosureIsComplete` (Located), from `ClosureInv`: the loop over the list that grows
  under it has located, or is scanning, a source for every symbol file it has passed
  (`PastIsLocated`), and every imported name has its symbol file in the list
  (`ImportsAreListed`), also when a second source of the same node replaces its
  imports.

These assume of the constants only that disks are disks and that `None` is not a
heading, a source, a file, or the state of a scan.

**Make** (`MakeProofs`).  For any set of units and imports, any order that Regulate
may compute, and any history of edits, removals, makes, batches, single compilations,
failures and kills, with the options as they are.

Whatever the dates, `FlowIsRight`: `FlowInv` is an invariant.  It says where the job is
in its plan (`JobInv`), that a symbol file never knows an interface that is newer than
the source's (`InterfaceInv`), that a compilation under way has loaded what is on the
disk (`CompileInv`), and that in a make a file the loop has passed is marked if
anything it loads is (`MarksInv`).  From it:

- `ClientsAlwaysWait` (ClientsWait).  The property speaks of all that a file loads,
  the code looks at direct imports only; `MarksInv` carries the marks along, because
  imports come first in the order.
- `InterfaceIsKept` (InterfaceKept).

If no two events share a date (`Ties = FALSE`), `DatesTell`: `Inv` is an invariant.
That a make is complete is as far from inductive as it could be: it depends on what
every earlier run has left.  What is needed is what a date *means* (`MadeFrom`, as long
as nothing is mixed): a
symbol file or code file that is not older than a source was made from this text, and
one that is not older than a symbol file has seen this key and interface, or the symbol
file it was seen through is out of date itself (`Agrees`).  This last escape is what an
interrupted or single compilation leaves behind; it closes because an interface that
has gone does not come back (`InterfaceInv`), and because the outputs of a job are
younger than all it has not yet written (`DatesInv`).  Nothing is assumed about version
keys: that they are handed out twice by later runs does no harm within these bounds.
In a make `MakeInv` then grows with the position in the plan.  Whatever it has passed
exists and is not out of date (`Settled`), with mixing or without it, and so a make never
lacks a symbol file.  When nothing was mixed before, or in the submode ALL (`Sure`), what
it has passed is also made from what there is (`Right`); so the symbol files that the
next compilation reads agree, whatever their order (`Consistent`), it knows modules as
they are, and mixes nothing (`LoadedRight`).  At the end of a make ALL this is `MadeFrom`
again.

- `MakeCompletes` (MakeIsComplete), `DatesSettle` (MakeSettles) and
  `ImportsNeverFail` (NoImportFault).

The first is for histories in which no compilation has mixed interfaces since the last
complete make ALL, and `ImportsNeverFail` says that only a compilation outside of a make
can begin to; `DatesSettle` is without exception.

The proof found that the first assumption on `Uses` was too weak: with a type in an
interface that no import shows, a make need not be complete.

**Inferior** (`InferiorProofs`).  For any set of threads and signals, any debuggee
and any user.  `Moves` first says what a step can do to the state, as far as the
invariant sees it: six moves of the debuggee (`Lived`) and eleven of the debugger
(`Debugged`); everything after it is about these.  `InvAlways`: `Inv` is an invariant
as long as no thread has been found by search (`found = {}`).  Its parts need each other:

- `ListInv`: what lives is in the list, and only what has ended drops out of it;
  `UnbornInv` and `MsgsInv`: a thread nobody has attached to has done nothing that the
  debugger sees, and there is one message of its creation.
- `StatusInv`: a status is with the kernel, in the queue, or passed on, at one of them.
  A thread with an event is stopped or has ended, so that its status cannot change.
- `StopInv`: what stop_all_threads has passed is stopped or has ended and, without
  single step, has no status left that nobody has read.  This needs what the debugger
  knows in the middle of a waitpid: a thread it waits for and that runs has SIGTRAP
  pending.
- `StepInv`: from the resumption for a step until all are stopped, at most one thread
  runs, has an unread status, or has an event that is not its end.  ensure_stopped
  reads no statuses then, and this is why nothing is lost by that.
- `FrozenInv`: a status that is unread when the debugger decides is that of the stepped
  thread; all that is told before it is resumed are ends of other threads.  That is
  what keeps a resumed thread from losing it.
- `FlagsInv`, `SentInv`, `HitsInv`: check_events_again and current_thread_is_dead; the
  places of a signal; the first SIGTRAP after Kill is the debugger's own or merged.
- `ToldInv`: the upper level knows the threads of the list; an event of a thread that is
  not in it is of one that was detached, so that a failed assertion is about its end.

From it follow `LooksAtStopped` (StoppedWhenLooked), `EventsAreKept` (OneEventEach),
`SignalsAreKept` (SignalsKept), `HitsAreTold` (HitsAreKeptUnlessMerged), `ToldAreKnown`
(ToldOfKnown) and `StepsAlone`.  Assumed of the constants: that the main thread is one,
and that SIGTRAP, NULL and the status of an exit are no other signal or thread.

**Linker** (`LinkerProofs`).  For any object modules, in any number and order, any
options and any identifiers, so for references and cycles of any shape:

- `LinkingInv`: `BindingOK` and `CollectingOK` are invariants.  `BindingOK` says that
  what names and exports refer to exists.  Exactly the needed is linked for two
  reasons, and both need the state in the middle of the recursion.  *Enough*: the
  fixups of a marked segment have been followed, or its call is still on the stack and
  the ones before its position have been (`Followed`), and so have import descriptors
  (`Described`) and the roots that PrepareSections has passed (`Rooted`); and when
  CollectAll goes on to the next file, the files behind it want nothing, or something
  has changed and it will come back (`Swept`), which is where `changed` tested too
  early could have cost a file.  *Not too much*: every set of segments that has what
  the program needs (`Needs`) contains what is marked (`Minimal`).
- `OnlyNeeded` (OnlyNeededIsLinked) follows when the stack is empty and the sweep ends.
- `DefinitionsInv` and `FirstsInv`: the same for binding.  `OneDefinition` speaks of all
  files; what is inductive is that a name is bound as the declarations read *so far*
  demand, the current file up to `item`: by rank (`DefinitionsOK`), and to an import
  exactly when that was the first declaration read (`FirstsOK`).  `Definitions`
  (OneDefinition) follows from the two.

- `PlacedInv`: `TablesOK` (what is marked are segments and COMMON blocks that exist)
  and `PlacedOK`.  The layout is one in which the ends of the segments follow from each
  other (`Laid`), each section holds the marked segments of its class once (`Ordered`),
  and sections and jumps follow one another from page to page (`Follow`).  `Placed`
  (TextIsPlaced) follows: two extents are of different sections, or in the order of
  one; and laying a section out from 0 gives what laying it out from its base gives,
  less the base, when the base is a multiple of every alignment in it, which is where
  IDATA fails; then the texts fit where the addresses did.
- `CountInv`: `CountOK`.  While segments are collected, the number of fixups is the
  size of a set: the fixups of the marked segments but for those that a call on the
  stack has before it (`Passed`); one segment is at most once on the stack
  (`Distinct`), which is what an export of a segment breaks.  `FixupsOfNames`
  (FixupsCountedByName) follows, since the texts of the sections are the marked
  segments, and the ones without text have no fixups.
- `NumbersInv` and `OrdinalsOf` (OrdinalsAssigned): whatever order qsort leaves the
  exports without a number in, each gets a free number over the one before, and the
  numbers passed over are the user's.

What the linker computes over sequences (numbers, collections, addresses) is written
with recursive functions; `SequenceFacts` shows that they exist, from a least
counterexample (`Recursion`), and what flattening, inserting and mapping one to one do
to the elements of a sequence and to the size of a set.

Assumed of the constants: the four assumptions of section 2.

**DevData** (`DevDataProofs`).  For a buffer of any size, any bytes, any lengths,
positions, strings and flags, a device that may fail after any number of bytes of any
call, and a program that keeps to the rules (`Careful = TRUE`):

- What reading and writing do to sequences of bytes comes first: `Bytes` of an
  `Overlay`, overlays that continue each other, bytes of the file taken in two or three
  pieces.  Then each procedure has a lemma for every state of a call in which the
  buffer is in its bounds and holds what the disk holds unless it is modified
  (`Sound`): `bFlushDoes`, `bReadDoes`, `bWriteDoes`, `readDoes`, `textwriteDoes`,
  `TextReadsDoes`, `SoughtDoes`.  They say what is got or written of the file as the
  user sees it (`All`), where the position is then (`At`), and that a transfer that
  fails has lost nothing.  The two loops (the pieces of textwrite, the characters of
  TextRead) are recursive functions; that these exist is shown
  from a least counterexample.
- The inductive invariant is `Inv`: the state between calls is sound; a character put
  back is the one before the position; while the position is kept the stream stands at
  the end of an unmodified buffer (`Behind`), and when it is lost the buffer is modified
  or empty, so that the next SetPos repairs it; a channel that is closed, or whose
  device data are disposed of, has nothing that is not written.  The last two are what
  the properties lack: without them a SetPos after a failed flush would not be known to
  end where it should, and an Open after a Close not to find all that was written.
- `BufferIsKept` (BufferAgrees) follows, and so does `Refines` (ImplementsRandomFile),
  with one lemma for each action that names the step of `RandomFile` it is, and for
  Rewrite one for each way it ends.  The mapping of the mode has none while a failed
  Reread or Rewrite has left the old one (`kept`): the theorem is about programs that do
  not use it, and what the code does instead is `FailureForbids`.

The proof has shown that Reread is a step of `RandomFile` only if it may set the
position 0 whatever `Positions` is, which `RandomFile` now says.  Assumed of the
constants: `DeviceAssumption`.

Only model-checked: liveness (`ReadyRuns`, `Terminates`, `ActivatedRuns`,
`StoppingEnds`), which with ENABLED is beyond the prover; and what happens to a file
when the program does not keep to the rules; and what the debugger keeps after a search
has found a thread (StoppedWhenLooked, OneEventEach, HitsAreKeptUnlessMerged).

## 6. What is not modelled

By component:

- Processes: interrupts and LISTEN; running out of memory in Create.
- Threads: the tables of event sources, the collector that stops the others,
  deletion of mutexes and semaphores, priorities, the Win32 and OS/2 layers.
- make: the GLOBAL mode (two passes over the project), project files and their dates,
  headers, foreign modules, linking; edits during a compilation; symbol files
  truncated by a copy that is interrupted (`xmISOFM.ob2` 191).  With M2CMPSYM a
  definition whose text was touched and whose symbol file is kept is compiled by every
  make; `MakeSettles` says that nothing else is.
- Linker: the formats of object files and libraries, 16-bit code, resources, JET
  imports, import and export tables of the image, ELF and LX, debug information, map
  files.
- Debugger: see `Inferior` above; over the process layer everything but the list of
  threads of ProcessEvents; what happens after a failed assertion or the judgement of a
  status that nobody has set.
- Files: line and no buffering, terminals, StreamFile and standard channels,
  two-character line marks, locks, failing seeks and tells; the result of closing the
  stream in Close, which does not look at it (Rewrite does, and there it is modelled);
  what calls on disposed device data do; what a read at the end of the file leaves
  (`xDevData.mod` 177).

The components marked `not_modelled` in `PROJECT.json` each have their reason there.
Most of the 170,000 lines of C and C++ in the repository are window procedures,
dialogues, format readers and ported back-end tables that are sequential and keep no
state a property could be about beyond their own data; a third of them will not be
modelled.  The core of XDS is in Modula-2 and Oberon-2, and so are most of the modelled
lines.

## 7. Plan

1. Done: the scheduler, its abstract specification and proofs; semaphores; order (with
   proofs) and recompilation of the make facility; buffered files and the file with a
   position that they implement; processes on threads and the mutex (with proofs); the
   core of the linker; the process layer of the debugger.
2.  Done: `ThreadsProofs` and the proofs of the semaphores; the refinements of the
scheduler and of the semaphores as theorems.
3. Done: `MakeProofs`, `InferiorProofs`, `LinkerProofs` and `DevDataProofs`.
4. Done: the addresses, the count of fixups and the ordinals of the linker.
5. `Termination`: the loop over the finalisers with exceptions inside it; the option
   stack of the compiler; the collector's PrepareToGC beside `Threads`.
