-------------------------------- MODULE Make --------------------------------
(***************************************************************************)
(* The make facility's second half: the loop of xm over the files in the   *)
(* order of Regulate, with the decision whether to compile a file          *)
(* (xcMake.IsCompilable), what a compilation reads and writes (pcM2, pcO,  *)
(* xiFiles), and what is left on the disk when it fails or is killed.      *)
(*                                                                         *)
(* A unit is a source file.  A definition and an Oberon-2 module write a   *)
(* symbol file, all but definitions write a code file; either is written   *)
(* to a temporary file that is renamed when it is complete.  The user      *)
(* edits sources and removes files while no job runs.  The sources exist,  *)
(* so that a symbol file is an output of some unit and its date is read    *)
(* again for every decision, while the date of a source, which IsCompilable*)
(* keeps, cannot change in between.                                        *)
(***************************************************************************)
EXTENDS Integers, SequencesExt

CONSTANTS Unit,       \* source files
          Mode,       \* Mode[u]: "def", "mod", "main" or "oberon"
          Imports,    \* Imports[u]: the modules u names, for a mod its own
          Uses,       \* Uses[u]: the modules whose types are in u's interface
          Order,      \* the order of Regulate
          Reads,      \* Reads[u]: the symbol files, as they are read to compile u
          OptionSets, \* the options CHANGESYM and M2CMPSYM of a project
          Ties,       \* may two events fall into one tick of the file dates?
          Jobs,       \* the modes the user runs: "make", "batch", "compile"
          MaxClock,   \* bound on the clock
          MaxEvents,  \* bound: edits, removals, kills, failed compilations
          None

Defs == {u \in Unit : Mode[u] \in {"def", "oberon"}}
Imps == {u \in Unit : Mode[u] # "def"}

\* What is loaded to compile u: its imports and what their symbol files import.
Loaded == [u \in Unit |->
             {m \in Defs : \A S \in SUBSET Defs :
                Imports[u] \subseteq S /\ (\A x \in S : Imports[x] \subseteq S) => m \in S}]

\* A type in the interface of u belongs to an import of u, or is in the interface
\* of one.
ASSUME UnitsAreModules ==
  /\ Mode \in [Unit -> {"def", "mod", "main", "oberon"}]
  /\ Imports \in [Unit -> SUBSET Defs] /\ Uses \in [Defs -> SUBSET Defs]
  /\ \A u \in Defs : Uses[u] \subseteq Imports[u] \cup UNION {Uses[m] : m \in Imports[u]}
\* The outcome of Regulate when no cycle was reported (module Regulate).
ASSUME OrderIsRegulated ==
  /\ Order \in Seq(Unit) /\ IsInjective(Order) /\ ToSet(Order) = Unit
  /\ \A i \in 1..Len(Order) : \A m \in Imports[Order[i]] : \E j \in 1..(i-1) : Order[j] = m
\* Symbol files are read depth first, each once: a file, then its import list.
ASSUME FilesAreRead ==
  /\ Reads \in [Unit -> Seq(Defs)]
  /\ \A u \in Unit : IsInjective(Reads[u]) /\ ToSet(Reads[u]) = Loaded[u]
ASSUME FilesAreReadInDepth ==
  \A u \in Unit : \A i \in 1..Len(Reads[u]) :
    LET path == <<u>> \o Reads[u]
        open == {k \in 1..i : ~(Imports[path[k]] \subseteq {path[j] : j \in 2..i})}
    IN  path[i + 1] \in Imports[path[Max(open)]]
ASSUME Options ==
  /\ OptionSets \subseteq [changesym : BOOLEAN, m2cmpsym : BOOLEAN] /\ Ties \in BOOLEAN
  /\ Jobs \subseteq {"make", "batch", "compile"}
  /\ MaxClock \in Nat /\ MaxEvents \in Nat

\* What a symbol file and a code file hold.
Stamps == [key : Nat, iface : Nat]
SymFile(u) == [time : Nat, key : Nat, iface : Nat, uses : [Uses[u] -> Stamps]]
CodeFile(u) == [time : Nat, body : Nat, iface : Nat, seen : [Imports[u] -> Stamps]]
ASSUME NoneIsNoFile ==
  /\ \A u \in Defs : None \notin SymFile(u)
  /\ \A u \in Imps : None \notin CodeFile(u)
  /\ None \notin Seq(Unit)

VARIABLES
  options, \* the project's options, the same in every job
  src,     \* source: date, state of its text and of the interface in it
  sym,     \* symbol file of a module: date, version key, interface, and the
           \* key and interface of the modules it uses; None when missing
  code,    \* code file: date, what it was made from
  clock,   \* the file system's date
  vers,    \* fs.vers, the counter behind VersionTag
  job,     \* "idle", or the mode xm runs in
  all,     \* the submode ALL
  plan,    \* the files the job goes through
  pos,     \* how far it is
  step,    \* "decide", "compile", "sym" or "code"
  failed,  \* the files with the tag error
  faults,  \* the import errors reported by this job
  errs,    \* p.errs
  events,  \* counts the bounded events
  batch,   \* the batch file: the units it compiles, or None
  clean,   \* the job that ended last, without errors and with nothing
           \* changed since; "none" otherwise
  mixed    \* history: since the last make of everything a compilation has
           \* taken an old interface for a present one (Mixed); no action
           \* depends on it

disk == <<src, sym, code>>
run  == <<job, all, plan, pos, step, failed, faults, errs>>
vars == <<options, disk, clock, vers, run, events, batch, clean, mixed>>

-----------------------------------------------------------------------------
(* The user *)

Idle == job = "idle"

\* The next event is at a later date, unless dates are too coarse to tell.
NextTick == clock' \in (clock + (IF Ties THEN 0 ELSE 1))..(clock + 1) /\ clock' <= MaxClock
Event    == events < MaxEvents /\ events' = events + 1

Edit(u, part) ==
  /\ Idle /\ Event /\ NextTick
  /\ src' = [src EXCEPT ![u] = [time  |-> clock',
                                body  |-> IF part = "body" THEN @.body + 1 ELSE @.body,
                                iface |-> IF part = "iface" THEN @.iface + 1 ELSE @.iface]]
  /\ clean' = "none"
  /\ UNCHANGED <<sym, code, vers, run, batch>>

RemoveSym(u) ==
  /\ Idle /\ sym[u] # None /\ Event
  /\ sym' = [sym EXCEPT ![u] = None]
  /\ clean' = "none"
  /\ UNCHANGED <<src, code, clock, vers, run, batch>>

RemoveCode(u) ==
  /\ Idle /\ code[u] # None /\ Event
  /\ code' = [code EXCEPT ![u] = None]
  /\ clean' = "none"
  /\ UNCHANGED <<src, sym, clock, vers, run, batch>>

\* A process begins: VersionTag counts from the time of day.
Begin(j, a, p) ==
  /\ Idle /\ NextTick
  /\ vers' = clock'
  /\ job' = j /\ all' = a /\ plan' = p /\ pos' = 1
  /\ step' = IF j \in {"make", "batch"} THEN "decide" ELSE "compile"
  /\ failed' = {} /\ faults' = {} /\ errs' = 0
  /\ batch' = IF j = "batch" THEN <<>> ELSE None
  /\ clean' = "none"
  /\ UNCHANGED <<disk, events>>

StartMake(a) == "make" \in Jobs /\ Begin("make", a, Order)
StartBatch   == "batch" \in Jobs /\ Begin("batch", FALSE, Order)
StartCompile(u) == "compile" \in Jobs /\ Begin("compile", FALSE, <<u>>)
\* The user runs the batch file.
RunBatch == batch # None /\ clean = "listed" /\ Begin("run", FALSE, batch)

\* The process dies.  Whatever it was writing was under a temporary name.
Kill ==
  /\ ~Idle /\ Event
  /\ job' = "idle" /\ all' = FALSE /\ plan' = <<>> /\ pos' = 1 /\ step' = "decide"
  /\ failed' = {} /\ faults' = {} /\ errs' = 0
  /\ batch' = None
  /\ UNCHANGED <<disk, clock, vers, clean>>

-----------------------------------------------------------------------------
(* The decision *)

cur == plan[pos]

Advance == pos' = pos + 1
           /\ step' = IF job \in {"make", "batch"} THEN "decide" ELSE "compile"

\* Mutant of Later: equal dates are later.
LaterOrEqual(u, t) == src[u].time > t \/ \E m \in Imports[u] : sym[m] # None /\ sym[m].time >= t
\* The source of u, or a symbol file it imports, is later than t.
Later(u, t) == src[u].time > t \/ \E m \in Imports[u] : sym[m] # None /\ sym[m].time > t

\* Mutant of TooOld: a missing file is not.
TooOldPresent(u, f) == f # None /\ Later(u, f.time)

\* An output f of u is missing or too old.
TooOld(u, f) == f # None => Later(u, f.time)

\* An Oberon-2 module's own symbol file only has to exist: when it did not
\* change it keeps its date.
OutOfDate(u) ==
  \/ \E m \in Imports[u] : sym[m] = None
  \/ u \in Defs /\ IF Mode[u] = "oberon" THEN sym[u] = None ELSE TooOld(u, sym[u])
  \/ u \in Imps /\ TooOld(u, code[u])

\* Mutant of Doubtful: only the unit's own error counts.
DoubtfulItself(u) == u \in failed

\* Invalidate: a known error passes on to the unit, and to its symbol file.
Doubtful(u) == u \in failed \/ Imports[u] \cap failed # {}

Invalidate ==
  /\ step = "decide" /\ pos <= Len(plan) /\ Doubtful(cur)
  /\ failed' = failed \cup {cur} /\ errs' = errs + 1
  /\ Advance
  /\ UNCHANGED <<disk, clock, vers, job, all, plan, faults, events, batch, clean>>

Skip ==
  /\ step = "decide" /\ pos <= Len(plan) /\ ~Doubtful(cur)
  /\ ~all /\ ~OutOfDate(cur)
  /\ Advance
  /\ UNCHANGED <<disk, clock, vers, job, all, plan, failed, faults, errs, events, batch, clean>>

\* In the submode BATCH the unit is written to the batch file, and nothing is
\* noted about what it would produce: SetResult(TRUE,FALSE) does nothing.
Take ==
  /\ step = "decide" /\ pos <= Len(plan) /\ ~Doubtful(cur)
  /\ all \/ OutOfDate(cur)
  /\ IF job = "batch" THEN batch' = Append(batch, cur) /\ Advance
                      ELSE step' = "compile" /\ UNCHANGED <<batch, pos>>
  /\ UNCHANGED <<disk, clock, vers, job, all, plan, failed, faults, errs, events, clean>>

-----------------------------------------------------------------------------
(* A compilation *)

Running(s) == ~Idle /\ step = s /\ pos <= Len(plan)

\* Files are written now or a tick later.
WriteTick == clock' \in clock..(clock + 1) /\ clock' <= MaxClock

\* SetResult(FALSE,TRUE); the modes without a make have no such tags.
Fail(f) ==
  /\ failed' = failed \cup {cur} /\ errs' = errs + 1 /\ faults' = faults \cup f
  /\ Advance

Stamp(s) == [key |-> s.key, iface |-> s.iface]

MissingSym(u) == \E m \in Loaded[u] : sym[m] = None

\* The files that show m before its own is read for u.  Until then m is only
\* known incompletely, and its own file replaces its key without a check.
Early(u, m) ==
  {i \in 1..Len(Reads[u]) : m \in Uses[Reads[u][i]] /\ \A j \in 1..i : Reads[u][j] # m}

\* Error 192: the i-th file shows another key of a module than is known of it,
\* from its own file or from one that shows it.
Clash(u, i) ==
  \E m \in Uses[Reads[u][i]] : \E j \in 1..i - 1 :
    LET shown == sym[Reads[u][i]].uses[m].key
    IN  \/ Reads[u][j] = m /\ shown # sym[m].key
        \/ {i, j} \subseteq Early(u, m) /\ shown # sym[Reads[u][j]].uses[m].key

\* Where the reading stops.
Stops(u) ==
  {i \in 1..Len(Reads[u]) :
     \/ sym[Reads[u][i]] = None
     \/ (\A j \in 1..i : sym[Reads[u][j]] # None) /\ Clash(u, i)}

\* What u gets to know of m: its present key, but the types as the first file
\* has them that shows them.
Known(u, m) ==
  [key |-> sym[m].key,
   iface |-> IF Early(u, m) = {} THEN sym[m].iface
                                 ELSE sym[Reads[u][Min(Early(u, m))]].uses[m].iface]

\* A module is known to u other than it is, and no error tells.
Mixed(u) == \E m \in Loaded[u] : \E i \in Early(u, m) : sym[Reads[u][i]].uses[m] # Stamp(sym[m])

\* The parser: an implementation takes the key of its definition, all other
\* modules take a new one.  The imports are read, then the text, in which
\* there may be an error.
Compile ==
  /\ Running("compile")
  /\ vers' = IF Mode[cur] = "mod" THEN vers ELSE vers + 1
  /\ \/ \E i \in Stops(cur) :
          /\ \A j \in Stops(cur) : i <= j
          /\ Fail({IF sym[Reads[cur][i]] = None THEN 425 ELSE 192}) /\ UNCHANGED events
     \/ Stops(cur) = {} /\ Fail({}) /\ Event
     \/ /\ Stops(cur) = {} /\ step' = IF cur \in Defs THEN "sym" ELSE "code"
        /\ UNCHANGED <<pos, failed, errs, faults, events>>
  /\ UNCHANGED <<disk, clock, job, all, plan, batch, clean>>

NewSym(u, t) == [time |-> t, key |-> vers, iface |-> src[u].iface,
                 uses |-> [m \in Uses[u] |-> Known(u, m)]]

\* Mutant of SameSym: the keys of the imports are left out, too.
SameInterface(s, t) == s.iface = t.iface

\* The comparison with the old file leaves out the date and the module's own key.
SameSym(s, t) == s.iface = t.iface /\ s.uses = t.uses

Compared(u) == sym[u] # None /\ (Mode[u] = "oberon" \/ options.m2cmpsym)

\* After the symbol file a definition is done.
SymDone == IF cur \in Imps THEN step' = "code" /\ UNCHANGED pos ELSE Advance

\* Mutant of WriteSym: CHANGESYM is not asked.
WriteSymAlways ==
  /\ Running("sym") /\ WriteTick
  /\ LET new == NewSym(cur, clock') IN
     IF Compared(cur) /\ SameSym(sym[cur], new)
     THEN SymDone /\ UNCHANGED <<sym, failed, errs, faults>>
     ELSE /\ sym' = [sym EXCEPT ![cur] = new]
          /\ SymDone /\ UNCHANGED <<failed, errs, faults>>
  /\ UNCHANGED <<src, code, vers, job, all, plan, events, batch, clean>>

WriteSym ==
  /\ Running("sym") /\ WriteTick
  /\ LET new == NewSym(cur, clock') IN
     CASE Compared(cur) /\ SameSym(sym[cur], new) ->
            SymDone /\ UNCHANGED <<sym, failed, errs, faults>>
       [] Compared(cur) /\ ~SameSym(sym[cur], new) /\ ~options.changesym ->
            Fail({193}) /\ UNCHANGED sym
       [] OTHER -> /\ sym' = [sym EXCEPT ![cur] = new]
                   /\ SymDone /\ UNCHANGED <<failed, errs, faults>>
  /\ UNCHANGED <<src, code, vers, job, all, plan, events, batch, clean>>

NewCode(u, t) == [time |-> t, body |-> src[u].body, iface |-> src[u].iface,
                  seen |-> [m \in Imports[u] |-> Known(u, m)]]

WriteCode ==
  /\ Running("code") /\ WriteTick
  /\ \/ /\ code' = [code EXCEPT ![cur] = NewCode(cur, clock')]
        /\ Advance /\ UNCHANGED <<failed, errs, faults, events>>
     \/ Fail({}) /\ Event /\ UNCHANGED code
  /\ UNCHANGED <<src, sym, vers, job, all, plan, batch, clean>>

\* The end of the loop.
Finish ==
  /\ ~Idle /\ pos > Len(plan)
  /\ clean' = IF errs # 0 THEN "none" ELSE IF job = "batch" THEN "listed" ELSE job
  /\ job' = "idle" /\ all' = FALSE /\ plan' = <<>> /\ pos' = 1 /\ step' = "decide"
  /\ failed' = {} /\ faults' = {} /\ errs' = 0
  /\ UNCHANGED <<disk, clock, vers, events, batch>>

-----------------------------------------------------------------------------
Init ==
  /\ options \in OptionSets
  /\ src = [u \in Unit |-> [time |-> 0, body |-> 0, iface |-> 0]]
  /\ sym = [u \in Defs |-> None] /\ code = [u \in Imps |-> None]
  /\ clock = 0 /\ vers = 0
  /\ job = "idle" /\ all = FALSE /\ plan = <<>> /\ pos = 1 /\ step = "decide"
  /\ failed = {} /\ faults = {} /\ errs = 0 /\ events = 0
  /\ batch = None /\ clean = "none" /\ mixed = FALSE

User == \/ \E u \in Unit : \E part \in {"body", "iface"} :
             (part = "iface" => u \in Defs) /\ Edit(u, part)
        \/ \E u \in Defs : RemoveSym(u)
        \/ \E u \in Imps : RemoveCode(u)
        \/ \E a \in BOOLEAN : StartMake(a)
        \/ StartBatch \/ RunBatch
        \/ \E u \in Unit : StartCompile(u)
        \/ Kill

Work == Invalidate \/ Skip \/ Take \/ Compile \/ WriteSym \/ WriteCode \/ Finish

\* The history of mixing, until everything is made anew.
Remember ==
  mixed' = (\/ mixed /\ ~(job = "make" /\ all /\ clean' = "make")
            \/ step = "compile" /\ step' \in {"sym", "code"} /\ Mixed(cur))

Next == (User \/ Work) /\ UNCHANGED options /\ Remember

Spec == Init /\ [][Next]_vars

-----------------------------------------------------------------------------
(* Properties *)

FreshSym(u) == /\ sym[u] # None
               /\ sym[u].iface = src[u].iface
               /\ \A m \in Uses[u] : sym[m] # None /\ sym[u].uses[m] = Stamp(sym[m])
FreshCode(u) == /\ code[u] # None
                /\ code[u].body = src[u].body /\ code[u].iface = src[u].iface
                /\ \A m \in Imports[u] : sym[m] # None /\ code[u].seen[m] = Stamp(sym[m])
AllFresh == (\A u \in Defs : FreshSym(u)) /\ (\A u \in Imps : FreshCode(u))

\* After a make without errors every symbol file and every code file was made
\* from the present sources and from the present interfaces of the imports,
\* although only dates were compared, whatever was edited, removed, compiled
\* alone, killed or failed before, and although the symbol file of an Oberon-2
\* module is not looked at: unless a compilation has mixed an old interface with
\* a new one, and not everything has been made since.
MakeIsComplete == clean = "make" /\ ~mixed => AllFresh

\* What would hold if the keys of symbol files kept compilations from mixing:
\* configuration MakeAlone.cfg shows how it fails.
AlwaysComplete == clean = "make" => AllFresh

\* A make right after it finds nothing to do: the dates settle, except that
\* with M2CMPSYM a definition whose symbol file is kept stays newer than it.
MakeSettles == clean = "make" => \A u \in Unit : OutOfDate(u) => options.m2cmpsym /\ Mode[u] = "def"

\* "If you always use the make facility this error will never be reported"
\* (errors.tex:973, error 192): in a make no symbol file is missing when it is
\* needed; two of them show different keys of a module only after a single
\* compilation has mixed interfaces, and not in the submode ALL; and no make
\* mixes interfaces itself.
NoImportFault ==
  job = "make" =>
    /\ 425 \notin faults
    /\ 192 \in faults => mixed /\ ~all
    /\ step = "compile" /\ Mixed(cur) => mixed /\ ~all

\* "If an error occured during compilation of a Modula-2 definition module or
\* an Oberon-2 module, all its client modules are not compiled at all"
\* (usage.tex:674), the clients of its clients included.
ClientsWait == job = "make" /\ step # "decide" => Loaded[cur] \cap failed = {}

\* Without CHANGESYM the interface of an Oberon-2 module, once there is a
\* symbol file, stays what its clients know, whatever its source becomes.
InterfaceKept ==
  [][\A u \in Defs : ~options.changesym /\ Mode[u] = "oberon" /\ sym[u] # None /\ sym'[u] # None
                     => SameSym(sym[u], sym'[u]) /\ sym[u].key = sym'[u].key]_vars

\* "The compiler creates a batch file of all necessary compilations"
\* (usage.tex:260): running it leaves nothing out of date.
BatchIsComplete == clean = "run" => AllFresh
=============================================================================
