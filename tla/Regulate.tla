------------------------------ MODULE Regulate ------------------------------
(***************************************************************************)
(* The make facility's first half (comp/src/u/xcMake.ob2): the files named *)
(* on the command line are appended to the project, MakeClosure adds every *)
(* module they import, directly or not, and Regulate puts the files into   *)
(* the order in which xm decides about them and compiles them.             *)
(*                                                                         *)
(* A source is a file of the disk, a file is a node of the project: two    *)
(* different things, because a source gets its node under the name in its  *)
(* heading, and because symbol and code files are nodes too.  The disk     *)
(* (text) does not change while xm runs.  The foreign modules that xm can  *)
(* take in place of an implementation (sl1, C, assembler, object files)    *)
(* and the header files are left out: none of them is parsed for imports.  *)
(***************************************************************************)
EXTENDS Integers, SequencesExt

CONSTANTS Names,    \* module names
          Texts,    \* the disks xm may find
          MaxArgs,  \* bound: arguments on the command line
          None

Exts   == {"ob2", "def", "mod"}
Source == [name : Names, ext : Exts]

\* What a heading says: its module name, for a .mod whether it is a program
\* or an implementation module, whether it is correct and of the kind the
\* extension asks for, and the imported names.
Text == [module : Names, program : BOOLEAN, ok : BOOLEAN, imports : Seq(Names)]

DEFs  == {"def", "oberon"}                   \* can produce a symbol file
IMPs  == {"mod", "main", "oberon", "code"}   \* can produce an object file
DEPs  == {"def", "mod", "main", "oberon"}    \* can be parsed for imports
Modes == DEPs \cup {"sym", "code"}
File  == [name : Names, mode : Modes]

\* A source being scanned: the name and the kind it is read for, how many of
\* its clauses have been heard, and the names collected from them.
Scanning == [source : Source, name : Names, imp : BOOLEAN, next : Nat \ {0},
             names : Seq(Names)]
Frame    == [file : File, next : Nat \ {0}]   \* an activation of Order

ASSUME TextsAreDisks == \A t \in Texts : t \in [Source -> Text \cup {None}]
ASSUME NoneIsNone == /\ None \notin Text /\ None \notin Source /\ None \notin File
                     /\ None \notin Scanning
                     /\ MaxArgs \in Nat

VARIABLES
  text,     \* the disk: source -> its heading, or None
  args,     \* the arguments appended so far
  phase,    \* "append", "closure", "order", "tie" or "done"
  list,     \* p.list: the files of the project, in the order of Include
  inp,      \* file.inp: the names it imports
  scan,     \* the source being scanned, or None
  cursor,   \* the file l of the loop over p.list
  half,     \* what Parse looks for next: "def" or "imp"
  ordered,  \* the files with the tag ordered
  stack,    \* the activations of Order: a file and its next import
  nodes,    \* the compilation order; the files in it have the tag tied
  reports,  \* the pairs named by the message "cycle in import"
  errs      \* p.errs

vars == <<text, args, phase, list, inp, scan, cursor, half, ordered, stack,
          nodes, reports, errs>>

-----------------------------------------------------------------------------
(* The project's list *)

Added(l, x) == IF x \in ToSet(l) THEN l ELSE Append(l, x)

SymOf(n)  == [name |-> n, mode |-> "sym"]
CodeOf(n) == [name |-> n, mode |-> "code"]

\* Include: a file comes with the files it produces.
Include(l, x) ==
  LET added == Append(l, x) IN
  IF x \in ToSet(l) THEN l
  ELSE CASE x.mode = "oberon" -> Added(Added(added, SymOf(x.name)), CodeOf(x.name))
         [] x.mode = "def"    -> Added(added, SymOf(x.name))
         [] OTHER             -> Added(added, CodeOf(x.name))

ChkFile(n, md) == \E i \in 1..Len(list) : list[i].name = n /\ list[i].mode \in md

-----------------------------------------------------------------------------
(* Looking for sources *)

Exists(s) == text[s] # None
At(n, e)  == [name |-> n, ext |-> e]
OneIf(b)  == IF b THEN 1 ELSE 0

AnyDef(n) == CASE Exists(At(n, "ob2")) -> At(n, "ob2")
               [] Exists(At(n, "def")) /\ ~Exists(At(n, "ob2")) -> At(n, "def")
               [] OTHER -> None
TwoDefs(n) == Exists(At(n, "ob2")) /\ Exists(At(n, "def"))

AnyImp(n) == CASE Exists(At(n, "ob2")) -> At(n, "ob2")
               [] Exists(At(n, "mod")) /\ ~Exists(At(n, "ob2")) -> At(n, "mod")
               [] OTHER -> None
TwoImps(n) == Exists(At(n, "ob2")) /\ (Exists(At(n, "mod")) \/ Exists(At(n, "def")))

-----------------------------------------------------------------------------
(* Scanning the heading of a source *)

Idle == scan = None

Scan(s, n, imp) ==
  scan' = [source |-> s, name |-> n, imp |-> imp, next |-> 1, names |-> <<>>]

\* The import clauses as the scanner hears of them: an implementation module
\* begins with its own name.
Clauses(s) == IF s.ext = "mod" /\ ~text[s].program
              THEN <<text[s].module>> \o text[s].imports
              ELSE text[s].imports

ScanImport ==
  /\ ~Idle
  /\ scan.next <= Len(Clauses(scan.source))
  /\ LET n == Clauses(scan.source)[scan.next] IN
       /\ scan' = [scan EXCEPT !.next = @ + 1, !.names = Added(@, n)]
       /\ list' = Added(list, SymOf(n))
  /\ UNCHANGED <<text, args, phase, inp, cursor, half, ordered, stack, nodes,
                 reports, errs>>

\* Mutant of ScanErrors: the name in the heading is not compared.
ScanErrorsNameless(s, n, imp) == OneIf(~text[s].ok)
                                 + OneIf(s.ext = "mod" /\ text[s].program /\ imp)

\* A .mod is a main module when its heading says so, unless an implementation
\* is expected: then a program heading is an error.
ModeOf(s, imp) == CASE s.ext = "def" -> "def"
                    [] s.ext = "ob2" -> "oberon"
                    [] s.ext = "mod" /\ text[s].program /\ ~imp -> "main"
                    [] OTHER -> "mod"

ScanErrors(s, n, imp) == OneIf(n # text[s].module) + OneIf(~text[s].ok)
                         + OneIf(s.ext = "mod" /\ text[s].program /\ imp)

ScanEnd ==
  /\ ~Idle
  /\ scan.next > Len(Clauses(scan.source))
  /\ LET x == [name |-> scan.name, mode |-> ModeOf(scan.source, scan.imp)] IN
       /\ list' = Include(list, x)
       /\ inp' = [inp EXCEPT ![x] = scan.names]
  /\ errs' = errs + ScanErrors(scan.source, scan.name, scan.imp)
  /\ scan' = None
  /\ UNCHANGED <<text, args, phase, cursor, half, ordered, stack, nodes, reports>>

-----------------------------------------------------------------------------
(* Project.Append: the arguments *)

\* PreScan reads the module name, which may differ from the file's.
PreScan(s, e) ==
  IF s # None /\ (s # None => Exists(s) /\ text[s].ok)
  THEN Scan(s, text[s].module, FALSE) /\ errs' = errs + e
  ELSE errs' = errs + e + 1 /\ UNCHANGED scan

Argument(a) ==
  /\ phase = "append" /\ Idle
  /\ Len(args) < MaxArgs
  /\ args' = Append(args, a)
  /\ UNCHANGED <<text, phase, list, inp, cursor, half, ordered, stack, nodes, reports>>

\* Without an extension a definition or an Oberon-2 module is tried first.
\* (If there is neither, there is no .ob2, so TwoImps cannot be the case.)
AppendName(n) ==
  /\ Argument(n)
  /\ PreScan(IF AnyDef(n) # None THEN AnyDef(n) ELSE AnyImp(n), OneIf(TwoDefs(n)))

AppendFile(s) == Argument(s) /\ PreScan(s, 0)

-----------------------------------------------------------------------------
(* Regulate *)

Start ==
  /\ phase = "append" /\ Idle
  /\ phase' = IF errs > 0 THEN "done" ELSE "closure"
  /\ UNCHANGED <<text, args, list, inp, scan, cursor, half, ordered, stack, nodes,
                 reports, errs>>

\* MakeClosure calls Parse for every file of the list, those it adds included.
\* Only symbol files are parsed: the sources in the list have been scanned.
ParseDef(n) ==
  /\ half = "def" /\ half' = "imp" /\ UNCHANGED cursor
  /\ IF ChkFile(n, DEFs)
     THEN UNCHANGED <<scan, errs>>
     ELSE /\ errs' = errs + OneIf(TwoDefs(n))
          /\ IF AnyDef(n) = None THEN UNCHANGED scan ELSE Scan(AnyDef(n), n, FALSE)

\* Mutant of ParseImp: content with any file of that name.
ParseImpAny(n) ==
  /\ half = "imp" /\ half' = "def" /\ cursor' = cursor + 1
  /\ IF ChkFile(n, DEFs \cup IMPs)
     THEN UNCHANGED <<scan, errs>>
     ELSE /\ errs' = errs + OneIf(TwoImps(n))
          /\ IF AnyImp(n) = None THEN UNCHANGED scan ELSE Scan(AnyImp(n), n, TRUE)

ParseImp(n) ==
  /\ half = "imp" /\ half' = "def" /\ cursor' = cursor + 1
  /\ IF ChkFile(n, IMPs)
     THEN UNCHANGED <<scan, errs>>
     ELSE /\ errs' = errs + OneIf(TwoImps(n))
          /\ IF AnyImp(n) = None THEN UNCHANGED scan ELSE Scan(AnyImp(n), n, TRUE)

Parse ==
  /\ phase = "closure" /\ Idle /\ cursor <= Len(list)
  /\ IF list[cursor].mode = "sym"
     THEN ParseDef(list[cursor].name) \/ ParseImp(list[cursor].name)
     ELSE cursor' = cursor + 1 /\ UNCHANGED <<scan, half, errs>>
  /\ UNCHANGED <<text, args, phase, list, inp, ordered, stack, nodes, reports>>

EndClosure ==
  /\ phase = "closure" /\ Idle /\ cursor > Len(list)
  /\ phase' = IF errs > 0 THEN "done" ELSE "order"
  /\ cursor' = 1
  /\ UNCHANGED <<text, args, list, inp, scan, half, ordered, stack, nodes, reports, errs>>

\* MakeImport: the k-th name that x imports stands for the first file of that
\* name that can produce its symbol file; own and foreign names for nothing.
IsDefOf(n, f) == f.name = n /\ f.mode \in DEFs
Import(x, k) ==
  LET n == inp[x][k]
      i == SelectInSeq(list, LAMBDA f : IsDefOf(n, f))
  IN  IF n = x.name \/ i = 0 THEN None ELSE list[i]

Imports(x) == {Import(x, k) : k \in 1..Len(inp[x])} \ {None}

tied == ToSet(nodes)

OrderNext ==
  /\ phase = "order" /\ stack = <<>> /\ cursor <= Len(list)
  /\ LET l == list[cursor] IN
       IF l.mode \in DEFs /\ l \notin ordered
       THEN ordered' = ordered \cup {l} /\ stack' = <<[file |-> l, next |-> 1]>>
       ELSE UNCHANGED <<ordered, stack>>
  /\ cursor' = cursor + 1
  /\ UNCHANGED <<text, args, phase, list, inp, scan, half, nodes, reports, errs>>

top == stack[Len(stack)]
Advanced == [stack EXCEPT ![Len(stack)].next = @ + 1]

\* Mutant of OrderImport: the import gets the tag, but is not gone into.
OrderImportTagged ==
  /\ phase = "order" /\ stack # <<>>
  /\ top.next <= Len(inp[top.file])
  /\ LET n == Import(top.file, top.next) IN
       ordered' = IF n = None THEN ordered ELSE ordered \cup {n}
  /\ stack' = Advanced
  /\ UNCHANGED <<text, args, phase, list, inp, scan, cursor, half, nodes, reports, errs>>

\* Order's first loop: the next import, unless it has the tag ordered.
OrderImport ==
  /\ phase = "order" /\ stack # <<>>
  /\ top.next <= Len(inp[top.file])
  /\ LET n == Import(top.file, top.next) IN
       IF n = None \/ n \in ordered
       THEN stack' = Advanced /\ UNCHANGED ordered
       ELSE /\ stack' = Append(Advanced, [file |-> n, next |-> 1])
            /\ ordered' = ordered \cup {n}
  /\ UNCHANGED <<text, args, phase, list, inp, scan, cursor, half, nodes, reports, errs>>

\* Mutant of OrderTie: excused when either of the two is an Oberon-2 module.
OrderTieEither ==
  /\ phase = "order" /\ stack # <<>>
  /\ top.next > Len(inp[top.file])
  /\ LET x == top.file
         late == {n \in Imports(x) : n \notin tied}
     IN  /\ reports' = reports \cup {<<x, n>> : n \in late}
         /\ errs' = errs + Cardinality({n \in late : "oberon" \notin {x.mode, n.mode}})
         /\ nodes' = Added(nodes, x)
  /\ stack' = Front(stack)
  /\ UNCHANGED <<text, args, phase, list, inp, scan, cursor, half, ordered>>

\* Its second loop reports every import that is not tied yet: an error unless
\* both are Oberon-2 modules.  Then the file is tied and Order returns.
OrderTie ==
  /\ phase = "order" /\ stack # <<>>
  /\ top.next > Len(inp[top.file])
  /\ LET x == top.file
         late == {n \in Imports(x) : n \notin tied}
     IN  /\ reports' = reports \cup {<<x, n>> : n \in late}
         /\ errs' = errs + Cardinality({n \in late : ~(x.mode = "oberon" /\ n.mode = "oberon")})
         /\ nodes' = Added(nodes, x)
  /\ stack' = Front(stack)
  /\ UNCHANGED <<text, args, phase, list, inp, scan, cursor, half, ordered>>

EndOrder ==
  /\ phase = "order" /\ stack = <<>> /\ cursor > Len(list)
  /\ phase' = "tie" /\ cursor' = 1
  /\ UNCHANGED <<text, args, list, inp, scan, half, ordered, stack, nodes, reports, errs>>

\* Mutant of Tie: the loop stays at a tied file.
TieStuck ==
  /\ phase = "tie"
  /\ IF cursor <= Len(list)
     THEN /\ list[cursor] \notin tied
          /\ nodes' = Append(nodes, list[cursor]) /\ cursor' = cursor + 1 /\ UNCHANGED <<phase, errs>>
     ELSE phase' = "done" /\ errs' = errs + OneIf(nodes = <<>>) /\ UNCHANGED <<nodes, cursor>>
  /\ UNCHANGED <<text, args, list, inp, scan, half, ordered, stack, reports>>

\* What is not tied follows in the order of the list.
Tie ==
  /\ phase = "tie"
  /\ IF cursor <= Len(list)
     THEN nodes' = Added(nodes, list[cursor]) /\ cursor' = cursor + 1 /\ UNCHANGED <<phase, errs>>
     ELSE phase' = "done" /\ errs' = errs + OneIf(nodes = <<>>) /\ UNCHANGED <<nodes, cursor>>
  /\ UNCHANGED <<text, args, list, inp, scan, half, ordered, stack, reports>>

-----------------------------------------------------------------------------
Init ==
  /\ text \in Texts
  /\ args = <<>> /\ phase = "append" /\ list = <<>>
  /\ inp = [x \in File |-> <<>>]
  /\ scan = None /\ cursor = 1 /\ half = "def"
  /\ ordered = {} /\ stack = <<>> /\ nodes = <<>> /\ reports = {} /\ errs = 0

Work == \/ ScanImport \/ ScanEnd \/ Start \/ Parse \/ EndClosure
        \/ OrderNext \/ OrderImport \/ OrderTie \/ EndOrder \/ Tie

Next == \/ \E n \in Names : AppendName(n)
        \/ \E s \in Source : AppendFile(s)
        \/ Work

Spec == Init /\ [][Next]_vars

\* Nothing in xm waits for anybody.
FairSpec == Spec /\ WF_vars(Work)

-----------------------------------------------------------------------------
(* Properties *)

TypeOK ==
  /\ text \in [Source -> Text \cup {None}]
  /\ args \in Seq(Names \cup Source)
  /\ phase \in {"append", "closure", "order", "tie", "done"}
  /\ list \in Seq(File)
  /\ inp \in [File -> Seq(Names)]
  /\ scan \in Scanning \cup {None}
  /\ cursor \in Nat \ {0} /\ half \in {"def", "imp"}
  /\ ordered \subseteq File
  /\ stack \in Seq(Frame)
  /\ nodes \in Seq(File)
  /\ reports \subseteq File \X File
  /\ errs \in Nat

\* Regulate succeeded: RecompileAndLink goes on to compile.
Ready == phase = "done" /\ errs = 0

Before(y, x) == \E i, j \in 1..Len(nodes) : i < j /\ nodes[i] = y /\ nodes[j] = x

\* "For each module the decision (to recompile or not) is made only after the
\* decision is made for all modules on which it depends" (usage.tex:604): in
\* the compilation order every file comes after the definitions and Oberon-2
\* modules it imports, whatever the imports look like and in whatever order
\* the files were found.  The exceptions are pairs of Oberon-2 modules, and
\* for each of them a cycle has been reported.
ImportsFirst ==
  Ready => \A x \in tied : \A y \in Imports(x) :
             \/ Before(y, x)
             \/ <<x, y>> \in reports /\ x.mode = "oberon" /\ y.mode = "oberon"

Closed(S) == \A x \in S : Imports(x) \subseteq S
Reaches(y, x) == \A S \in SUBSET {f \in ToSet(list) : f.mode \in DEFs} :
                   y \in S /\ Closed(S) => x \in S

\* "cycle in import" is never a false alarm: Order marks a file on entry and
\* ties it on return, so an import that is ordered but not tied is still on
\* its way, that is, it leads back to the file that imports it.
CyclesAreReal == \A r \in reports : r[2] \in Imports(r[1]) /\ Reaches(r[2], r[1])

\* "It then tries to do the same for each of the imported modules until all
\* the possible modules are located" (usage.tex:590): of everything that a
\* file of the project imports, the definition and the implementation are in
\* the project if there are sources for them, also when the importing file
\* was itself found late.
Located ==
  Ready => \A x \in ToSet(list) : \A n \in ToSet(inp[x]) :
             /\ Exists(At(n, "def")) \/ Exists(At(n, "ob2")) => ChkFile(n, DEFs)
             /\ Exists(At(n, "mod")) \/ Exists(At(n, "ob2")) => ChkFile(n, IMPs)

\* No file is decided about twice, and none is forgotten: the order holds
\* every file of the list once.
NodesAreTheList == Ready => IsInjective(nodes) /\ tied = ToSet(list)

\* A wrong heading stops the make before anything is compiled, whoever named
\* the file: each source module of the project was read from a correct source
\* of that module and kind, and its imports are those of the heading.
HeadingsAgree ==
  Ready => \A x \in ToSet(list) : x.mode \in DEPs =>
             \E s \in Source : /\ Exists(s) /\ text[s].ok /\ text[s].module = x.name
                              /\ x.mode = ModeOf(s, FALSE)
                              /\ ToSet(inp[x]) = ToSet(Clauses(s))

\* Every make comes to an end of its ordering, imports running in circles or not.
Terminates == <>(phase = "done")
=============================================================================
