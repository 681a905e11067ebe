-------------------------------- MODULE Linker --------------------------------
(***************************************************************************)
(* The core of the linker xlink, in C++: utils/xlink/src/struct.cpp, as    *)
(* link.cpp drives it for a PE image.  It reads object modules, binds      *)
(* names, marks the segments that are needed (smart linking), orders them, *)
(* gives them addresses and makes the image.                               *)
(*                                                                         *)
(* An object module is what a reader makes of a file: its segments with    *)
(* their fixups, its declarations and its exports.  A segment is <<f, i>>, *)
(* the i-th of the f-th file; <<0, k>> is the segment of the k-th COMMON   *)
(* block.  The recursion of CollectSegments and CollectFixup is a stack of *)
(* positions, one step for each fixup.  The tree that finds an export by   *)
(* name is its list.                                                       *)
(*                                                                         *)
(* A weak name forwards to itself, as readcoff.cpp:286 makes it.  Left     *)
(* out: offsets in segments, 16-bit code, resources, JET imports, TDINDEX  *)
(* and string fixups, link information, the other image formats, and       *)
(* IsIDATA_DOLLAR, which looks one character too far and never matches.    *)
(***************************************************************************)
EXTENDS Integers, FiniteSets, SequencesExt

CONSTANTS
  Names,      \* identifiers
  Objects,    \* the object modules there are
  Options,    \* exports of the command line and of .EDF files
  Entries,    \* what /ENTRY may name: identifiers or Null
  MaxFiles,   \* bound: how many files are given
  MaxExports, \* bound: how many exports are given as options
  Page,       \* xObjectOffset
  Null

VARIABLES
  files,      \* FileList
  item,       \* the declaration or export of CurrentFile to be read next
  names,      \* NAMES: what an identifier is bound to
  imported,   \* ImportedNames
  exports,    \* Exports, the last one made first
  mask,       \* EXPORT_SOURCE_MASK
  entry,      \* EntryPoint
  errors,     \* TotalErrors
  undefs,     \* Undefs
  phase,      \* where the linker is
  root,       \* the root PrepareSections has reached: 0 is the entry point
  stack,      \* the calls of CollectSegments that have not returned
  processed,  \* the segments with sf_processed
  commons,    \* the names whose COMMON block has its segment, in order
  used,       \* the names with K_USED
  idata,      \* the files with idata_processed
  nfixups,    \* NFixups
  file,       \* the file CollectAll has reached
  changed,    \* changed of CollectAll
  whole,      \* the files that are marked as processed
  layout      \* the order, the addresses and the text of the image

input == <<files, item, names, imported, exports, mask, entry>>
search == <<root, stack, processed, commons, used, idata, nfixups>>
sweep == <<file, changed, whole>>
vars == <<input, errors, undefs, phase, search, sweep, layout>>

-----------------------------------------------------------------------------
(* What the readers deliver: fixups refer to identifiers or to segments of  *)
(* their own file, and so do declarations and exports; a file with import   *)
(* descriptors has an external name (CollectSegments dereferences it).      *)

Imports == {"impfunc", "impvar"}
Kinds == {"public", "common", "weak"} \cup Imports
Fixups == [address : BOOLEAN, name : Names \cup {Null}, own : Nat]
Segments == [clazz : STRING, group : Nat, align : Nat \ {0}, len : Nat, fixups : Seq(Fixups)]
Declarations == [kind : Kinds, name : Names, arg : Nat]
OwnExports == [ext : Names, int : Names, ord : Nat, seg : Nat]

ASSUME NullAssumption ==
  /\ Null \notin Names
  /\ Null \notin Nat \X Nat
  /\ Null \notin [kind : Kinds, seg : (Nat \X Nat) \cup {Null}, arg : Nat]

ASSUME ObjectsAssumption ==
  \A o \in Objects :
    /\ o.segs \in Seq(Segments) /\ o.decls \in Seq(Declarations) /\ o.exports \in Seq(OwnExports)
    /\ \A i \in DOMAIN o.segs :
         /\ \A x \in ToSet(o.segs[i].fixups) : x.name = Null => x.own \in DOMAIN o.segs
         /\ o.segs[i].clazz = "IDATA" => o.extrnl \in Names
    /\ \A d \in ToSet(o.decls) : d.kind = "public" => d.arg = 0 \/ d.arg \in DOMAIN o.segs
    /\ \A e \in ToSet(o.exports) : e.seg = 0 \/ e.seg \in DOMAIN o.segs

ASSUME OptionsAssumption ==
  /\ Entries \subseteq Names \cup {Null}
  /\ \A e \in Options : e.int \in Names /\ e.ord \in Nat

ASSUME PageAssumption == Page \in Nat \ {0}

-----------------------------------------------------------------------------
(* Files and segments *)

OBJMOD == 1
CMDLINE == 2
EDFMOD == 4

Alignment(len) == CASE len <= 1 -> 1 [] len = 2 -> 2 [] len \in 3..4 -> 4
                    [] len \in 5..8 -> 8 [] OTHER -> 16

Common(n) == [clazz |-> "BSS", group |-> 0, align |-> Alignment(names[n].arg), len |-> names[n].arg,
              fixups |-> <<>>]
Seg(s) == IF s[1] = 0 THEN Common(commons[s[2]]) ELSE files[s[1]].segs[s[2]]
Linkable(s) == Seg(s).clazz # "DEBUG"

\* FileList has the file of the COMMON blocks last.
SegmentsOf(f) == [i \in DOMAIN files[f].segs |-> <<f, i>>]
FileSegments == FlattenSeq([f \in DOMAIN files |-> SegmentsOf(f)])
AllSegments == FileSegments \o [k \in DOMAIN commons |-> <<0, k>>]

-----------------------------------------------------------------------------
(* Reading *)

Replaceable(info) == info.kind \in {"weak", "common"}
Bound(kind, seg, arg) == [kind |-> kind, seg |-> seg, arg |-> arg]

\* A second declaration is an error if it may not come twice, or if it comes
\* from the library that has made the first.
TwiceDeclared(st, info, lib, may) ==
  LET same == lib # Null /\ info.seg # Null /\ files[info.seg[1]].lib = lib
  IN  IF may /\ ~same THEN st ELSE [st EXCEPT !.errors = @ + 1]

NewPublicName(st, d, lib) ==
  LET info == st.names[d.name]
  IN  IF info = Null \/ Replaceable(info)
      THEN [st EXCEPT !.names[d.name] =
              Bound("public", IF d.arg = 0 THEN Null ELSE <<Len(files), d.arg>>, 0)]
      ELSE TwiceDeclared(st, info, lib, lib # Null)

NewCommonName(st, d, lib) ==
  LET info == st.names[d.name]
  IN  CASE info = Null \/ (info # Null /\ info.kind = "weak") ->
             [st EXCEPT !.names[d.name] = Bound("common", Null, d.arg)]
        [] info # Null /\ info.kind = "common" ->
             [st EXCEPT !.names[d.name].arg = IF @ < d.arg THEN d.arg ELSE @]
        [] OTHER -> TwiceDeclared(st, info, lib, lib # Null)

\* Mutant: an import takes the place of a weak or COMMON name, as a public one does.
NewImportNameOver(st, d, lib) ==
  LET info == st.names[d.name]
  IN  CASE info = Null \/ (info # Null /\ Replaceable(info)) ->
             [st EXCEPT !.names[d.name] = Bound(d.kind, Null, d.arg), !.imported = Append(@, d.name)]
        [] info # Null /\ info.kind = d.kind /\ info.arg = d.arg -> st
        [] OTHER -> TwiceDeclared(st, info, lib, TRUE)

NewImportName(st, d, lib) ==
  LET info == st.names[d.name]
  IN  CASE info = Null -> [st EXCEPT !.names[d.name] = Bound(d.kind, Null, d.arg),
                                     !.imported = Append(@, d.name)]
        [] info # Null /\ info.kind = d.kind /\ info.arg = d.arg -> st
        [] OTHER -> TwiceDeclared(st, info, lib, TRUE)

NewWeakName(st, d) ==
  IF st.names[d.name] = Null THEN [st EXCEPT !.names[d.name] = Bound("weak", Null, 0)] ELSE st

Declare(st, d, lib) ==
  CASE d.kind = "public" -> NewPublicName(st, d, lib)
    [] d.kind = "common" -> NewCommonName(st, d, lib)
    [] d.kind \in Imports -> NewImportName(st, d, lib)
    [] d.kind = "weak" -> NewWeakName(st, d)

\* An export that is there already gives way to a source of a higher rank.
NewExport(st, e, seg, src) ==
  LET same == {i \in DOMAIN st.exports : st.exports[i].ext = e.ext}
      i == CHOOSE j \in same : TRUE
      old == st.exports[i]
      over == [old EXCEPT !.int = e.int, !.seg = IF seg # Null THEN seg ELSE @,
                          !.ord = IF e.ord # 0 THEN e.ord ELSE @]
  IN  CASE same = {} ->
             [st EXCEPT !.exports = <<[ext |-> e.ext, int |-> e.int, ord |-> e.ord, seg |-> seg,
                                       flag |-> {src}]>> \o @]
        [] same # {} /\ src \in old.flag -> [st EXCEPT !.errors = @ + 1]
        [] same # {} /\ \A x \in old.flag : x < src -> [st EXCEPT !.exports[i] = over]
        [] OTHER -> [st EXCEPT !.exports[i].flag = @ \cup {src}]

Reading == [names |-> names, imported |-> imported, exports |-> exports, errors |-> errors]

ReadAs(st) == /\ names' = st.names
              /\ imported' = st.imported
              /\ exports' = st.exports
              /\ errors' = st.errors

-----------------------------------------------------------------------------
(* The options of the command line come before the files, an .EDF file is *)
(* one of them.                                                            *)

Option ==
  /\ phase \in {"options", "read"}
  /\ Len(exports) + errors < MaxExports
  /\ \E e \in Options :
       /\ e.src = EDFMOD \/ phase = "options"
       /\ ReadAs(NewExport(Reading, e, Null, e.src))
       /\ mask' = IF e.src = EDFMOD THEN mask \ {OBJMOD} ELSE mask
  /\ UNCHANGED <<files, item, entry, undefs, phase, search, sweep, layout>>

CurrentFile == Last(files)

OpenFile ==
  /\ phase \in {"options", "read"}
  /\ Len(files) < MaxFiles
  /\ \E o \in Objects \ ToSet(files) : files' = Append(files, o)
  /\ item' = 1
  /\ phase' = "file"
  /\ UNCHANGED <<names, imported, exports, mask, entry, errors, undefs, search, sweep, layout>>

ReadDeclaration ==
  /\ phase = "file" /\ item \in DOMAIN CurrentFile.decls
  /\ ReadAs(Declare(Reading, CurrentFile.decls[item], CurrentFile.lib))
  /\ item' = item + 1
  /\ UNCHANGED <<files, mask, entry, undefs, phase, search, sweep, layout>>

ReadExport ==
  LET i == item - Len(CurrentFile.decls)
      e == CurrentFile.exports[i]
  IN  /\ phase = "file" /\ i \in DOMAIN CurrentFile.exports
      /\ ReadAs(NewExport(Reading, e, IF e.seg = 0 THEN Null ELSE <<Len(files), e.seg>>, OBJMOD))
      /\ item' = item + 1
      /\ UNCHANGED <<files, mask, entry, undefs, phase, search, sweep, layout>>

FileRead ==
  /\ phase = "file" /\ item > Len(CurrentFile.decls) + Len(CurrentFile.exports)
  /\ phase' = "read"
  /\ UNCHANGED <<input, errors, undefs, search, sweep, layout>>

Link ==
  /\ phase = "read"
  /\ phase' = IF errors = 0 /\ (entry # Null \/ exports # <<>>) THEN "prepare" ELSE "failed"
  /\ UNCHANGED <<input, errors, undefs, search, sweep, layout>>

-----------------------------------------------------------------------------
(* Exports *)

Exported(e) == e.flag \cap mask # {}

\* Mutant: the user's numbers are not passed over.
OrdinalsCounted(order) ==
  [i \in DOMAIN exports |-> IF i \in ToSet(order) THEN CHOOSE k \in DOMAIN order : order[k] = i ELSE exports[i].ord]

\* The numbers a sorted table gives to the exports without one: the free ones.
Ordinals(order) ==
  LET taken == {exports[i].ord : i \in {j \in DOMAIN exports : Exported(exports[j])}}
      free(c) == CHOOSE n \in c..c + Len(exports) : n \notin taken /\ \A m \in c..n - 1 : m \in taken
      given[k \in 0..Len(order)] == IF k = 0 THEN 0 ELSE free(given[k - 1] + 1)
  IN  [i \in DOMAIN exports |-> IF i \in ToSet(order) THEN given[CHOOSE k \in DOMAIN order : order[k] = i]
                                                     ELSE exports[i].ord]

Numbered(ord) == [i \in DOMAIN exports |-> [exports[i] EXCEPT !.ord = ord[i]]]

PrepareExport ==
  LET missing == {exports[i].int : i \in {j \in DOMAIN exports : exports[j].seg = Null /\ names[exports[j].int] = Null}}
      inuse == {i \in DOMAIN exports : Exported(exports[i])}
      unset == {i \in inuse : exports[i].ord = 0}
      twice == {i \in inuse \ unset : \E j \in inuse \ unset : i < j /\ exports[i].ord = exports[j].ord}
  IN  /\ phase = "prepare"
      /\ phase' = "roots"
      /\ undefs' = missing
      /\ IF missing = {}
         THEN /\ errors' = Cardinality(twice)
              /\ IF twice = {} THEN \E order \in SetToSeqs(unset) : exports' = Numbered(Ordinals(order))
                               ELSE UNCHANGED exports
         ELSE errors' = Cardinality(missing) /\ UNCHANGED exports
      /\ UNCHANGED <<files, item, names, imported, mask, entry, search, sweep, layout>>

-----------------------------------------------------------------------------
(* Smart linking *)

Caller == stack[1]
AtFixup == stack # <<>> /\ Caller.at <= Len(Seg(Caller.seg).fixups)
CurrentFixup == Seg(Caller.seg).fixups[Caller.at]

\* What is left of the stack when the current call goes on.
Onward == <<[Caller EXCEPT !.at = @ + 1]>> \o Tail(stack)
Call(s, rest) == <<[seg |-> s, at |-> 1]>> \o rest

CollectSegments(s, rest) ==
  /\ stack' = Call(s, rest)
  /\ processed' = processed \cup {s}

CollectOnce(s, rest) ==
  IF s \in processed THEN stack' = rest /\ UNCHANGED processed ELSE CollectSegments(s, rest)

createSegment(n) ==
  /\ commons' = Append(commons, n)
  /\ names' = [names EXCEPT ![n].seg = <<0, Len(commons')>>]
  /\ processed' = processed \cup {<<0, Len(commons')>>}

Undefined(n) ==
  /\ undefs' = undefs \cup {n}
  /\ errors' = IF n \in undefs THEN errors ELSE errors + 1

Kind(n) == IF names[n] = Null THEN "none" ELSE names[n].kind
Defined(n) == names[n] # Null /\ names[n].seg # Null

\* The steps of resolveFixupTarget and CollectFixup for an identifier.
ToDefined(n, rest) ==
  /\ Defined(n)
  /\ CollectOnce(names[n].seg, rest)
  /\ UNCHANGED <<names, commons, undefs, errors, phase>>

ToCommon(n, rest) ==
  /\ ~Defined(n) /\ Kind(n) = "common"
  /\ createSegment(n)
  /\ stack' = rest
  /\ UNCHANGED <<undefs, errors, phase>>

ToImport(n, rest) ==
  /\ Kind(n) \in Imports
  /\ stack' = rest
  /\ UNCHANGED <<names, commons, processed, undefs, errors, phase>>

ToNothing(n, rest) ==
  /\ Kind(n) = "none"
  /\ Undefined(n)
  /\ stack' = rest
  /\ UNCHANGED <<names, commons, processed, phase>>

\* An absolute name fails an assertion, a weak one is looked up for ever.
ToNowhere(n) ==
  /\ ~Defined(n) /\ Kind(n) \in {"public", "weak"}
  /\ phase' = IF Kind(n) = "public" THEN "asserted" ELSE "hung"
  /\ UNCHANGED <<names, commons, stack, processed, undefs, errors>>

Resolve(n, rest) ==
  /\ \/ ToDefined(n, rest) \/ ToCommon(n, rest) \/ ToImport(n, rest) \/ ToNothing(n, rest)
     \/ ToNowhere(n)
  /\ used' = IF Kind(n) = "none" THEN used ELSE used \cup {n}

Linking == phase \in {"roots", "all"}

\* Mutant: a fixup to a COMMON block is not counted.
FixupToNameUncounted ==
  LET f == CurrentFixup
  IN  /\ Linking /\ AtFixup
      /\ f.name # Null
      /\ Resolve(f.name, Onward)
      /\ nfixups' = IF f.address /\ (Defined(f.name) \/ Kind(f.name) \in Imports)
                    THEN nfixups + 1 ELSE nfixups
      /\ UNCHANGED <<files, item, imported, exports, mask, entry, root, idata, sweep, layout>>

FixupToName ==
  LET f == CurrentFixup
  IN  /\ Linking /\ AtFixup
      /\ f.name # Null
      /\ Resolve(f.name, Onward)
      /\ nfixups' = IF f.address /\ (Defined(f.name) \/ Kind(f.name) \in Imports \cup {"common"})
                    THEN nfixups + 1 ELSE nfixups
      /\ UNCHANGED <<files, item, imported, exports, mask, entry, root, idata, sweep, layout>>

FixupToSegment ==
  LET f == CurrentFixup
  IN  /\ Linking /\ AtFixup
      /\ f.name = Null
      /\ CollectOnce(<<Caller.seg[1], f.own>>, Onward)
      /\ nfixups' = IF f.address THEN nfixups + 1 ELSE nfixups
      /\ UNCHANGED <<input, errors, undefs, phase, root, commons, used, idata, sweep, layout>>

\* CollectName does nothing for an import, a weak and an absolute name.
CollectName(n, rest) ==
  \/ /\ ToDefined(n, rest) \/ ToCommon(n, rest) \/ ToNothing(n, rest)
     /\ used' = IF Kind(n) = "none" THEN used ELSE used \cup {n}
  \/ /\ names[n] # Null /\ ~Defined(n) /\ Kind(n) # "common"
     /\ stack' = rest
     /\ used' = used \cup {n}
     /\ UNCHANGED <<names, commons, processed, undefs, errors, phase>>

\* A segment of a COFF import library brings the import descriptor along.
Descriptor ==
  LET f == Caller.seg[1]
  IN  /\ Linking /\ stack # <<>> /\ ~AtFixup
      /\ Seg(Caller.seg).clazz = "IDATA" /\ f \notin idata
      /\ idata' = idata \cup {f}
      /\ CollectName(files[f].extrnl, stack)
      /\ UNCHANGED <<files, item, imported, exports, mask, entry, root, nfixups, sweep, layout>>

Return ==
  /\ Linking /\ stack # <<>> /\ ~AtFixup
  /\ Seg(Caller.seg).clazz = "IDATA" => Caller.seg[1] \in idata
  /\ stack' = Tail(stack)
  /\ UNCHANGED <<input, errors, undefs, phase, root, processed, commons, used, idata, nfixups, sweep, layout>>

\* The entry point is a fixup that is not counted.
EntryRoot ==
  /\ phase = "roots" /\ root = 0
  /\ root' = 1
  /\ IF entry # Null
     THEN Resolve(entry, <<>>)
     ELSE UNCHANGED <<names, commons, stack, processed, used, undefs, errors, phase>>
  /\ UNCHANGED <<files, item, imported, exports, mask, entry, idata, nfixups, sweep, layout>>

ExportRoot ==
  LET e == exports[root]
  IN  /\ phase = "roots" /\ root \in DOMAIN exports /\ stack = <<>>
      /\ root' = root + 1
      /\ \/ /\ ~Exported(e)
            /\ UNCHANGED <<names, commons, stack, processed, used, undefs, errors, phase>>
         \/ /\ Exported(e) /\ e.seg # Null
            /\ CollectSegments(e.seg, <<>>)
            /\ UNCHANGED <<names, commons, used, undefs, errors, phase>>
         \/ /\ Exported(e) /\ e.seg = Null
            /\ CollectName(e.int, <<>>)
      /\ UNCHANGED <<files, item, imported, exports, mask, entry, idata, nfixups, sweep, layout>>

\* xSmart is what it was for the file that was read last, an .EDF file being
\* read with the /SMART of the module before it.
RootsCollected ==
  /\ phase = "roots" /\ root = Len(exports) + 1 /\ stack = <<>>
  /\ phase' = IF Last(files).smart THEN "order" ELSE "all"
  /\ UNCHANGED <<input, errors, undefs, search, sweep, layout>>

-----------------------------------------------------------------------------
(* Files without smart linking *)

Unlinked(f) == {i \in DOMAIN files[f].segs : Linkable(<<f, i>>) /\ <<f, i>> \notin processed}
Wanted(f) == /\ ~files[f].smart /\ f \notin whole
             /\ files[f].lib # Null => \E i \in DOMAIN files[f].segs : <<f, i>> \in processed

CollectAllSegments ==
  /\ phase = "all" /\ stack = <<>> /\ file \in DOMAIN files
  /\ Wanted(file) /\ ~changed.all
  /\ IF Unlinked(file) # {}
     THEN /\ CollectSegments(<<file, CHOOSE i \in Unlinked(file) : \A j \in Unlinked(file) : i <= j>>, <<>>)
          /\ changed' = [changed EXCEPT !.here = TRUE]
          /\ UNCHANGED <<file, whole>>
     ELSE /\ whole' = whole \cup {file}
          /\ changed' = [all |-> changed.here, here |-> FALSE]
          /\ file' = file + 1
          /\ UNCHANGED <<stack, processed>>
  /\ UNCHANGED <<input, errors, undefs, phase, root, commons, used, idata, nfixups, layout>>

PassFile ==
  /\ phase = "all" /\ stack = <<>> /\ file \in DOMAIN files
  /\ ~Wanted(file) \/ changed.all
  /\ file' = file + 1
  /\ UNCHANGED <<input, errors, undefs, phase, search, changed, whole, layout>>

\* Mutant: one pass over the files.
CollectAllAtOnce ==
  /\ phase = "all" /\ stack = <<>> /\ file \notin DOMAIN files
  /\ phase' = "order"
  /\ UNCHANGED <<input, errors, undefs, search, sweep, layout>>

CollectAllAgain ==
  /\ phase = "all" /\ stack = <<>> /\ file \notin DOMAIN files
  /\ file' = 1
  /\ changed' = [all |-> FALSE, here |-> FALSE]
  /\ phase' = IF changed.all THEN "all" ELSE "order"
  /\ UNCHANGED <<input, errors, undefs, search, whole, layout>>

-----------------------------------------------------------------------------
(* The order of the segments *)

Classes == {"CODE", "DATA", "BSS", "CONST", "IDATA"}
Section(s) == IF Seg(s).clazz \in Classes THEN Seg(s).clazz ELSE "DATA"
Sorted == {"CONST", "IDATA"}

\* Into the run of its file, before the first one with fewer fixups.
InsertSegment(segs, s) ==
  LET n(q) == Len(Seg(q).fixups)
      run == {i \in DOMAIN segs : segs[i][1] = s[1]}
      first == CHOOSE i \in run : \A j \in run : i <= j
      stop == CHOOSE i \in first..Len(segs) + 1 :
                /\ \/ i = Len(segs) + 1
                   \/ i <= Len(segs) /\ (segs[i][1] # s[1] \/ n(segs[i]) < n(s))
                /\ \A j \in first..i - 1 : segs[j][1] = s[1] /\ n(segs[j]) >= n(s)
  IN  IF run = {} THEN Append(segs, s) ELSE InsertAt(segs, stop, s)

AddCollection(colls, s) ==
  LET sort == Section(s) \in Sorted
      g == Seg(s).group
      same == {i \in DOMAIN colls : colls[i].name = g}
      later == {i \in DOMAIN colls : sort /\ g < colls[i].name}
      new == [name |-> g, segs |-> <<s>>]
      put(segs) == IF sort THEN InsertSegment(segs, s) ELSE Append(segs, s)
  IN  CASE same # {} -> [i \in DOMAIN colls |-> IF i \in same THEN [colls[i] EXCEPT !.segs = put(@)] ELSE colls[i]]
        [] same = {} /\ later # {} -> InsertAt(colls, CHOOSE i \in later : \A j \in later : i <= j, new)
        [] OTHER -> Append(colls, new)

\* The segments of a section in the order of its collections.
OrderSegments(section) ==
  LET all == AllSegments
      mine(s) == s \in processed /\ Section(s) = section
      colls[k \in 0..Len(all)] ==
        IF k = 0 THEN <<>> ELSE IF mine(all[k]) THEN AddCollection(colls[k - 1], all[k]) ELSE colls[k - 1]
      made == colls[Len(all)]
  IN  FlattenSeq([i \in DOMAIN made |-> made[i].segs])

-----------------------------------------------------------------------------
(* Addresses *)

Up(n, align) == ((n + align - 1) \div align) * align

\* Where the segments begin, from addr on, and where the last one ends.
CalcAddress(segs, addr) ==
  LET end[i \in 0..Len(segs)] ==
        IF i = 0 THEN addr ELSE Up(end[i - 1], Seg(segs[i]).align) + Seg(segs[i]).len
  IN  [at |-> [i \in DOMAIN segs |-> Up(end[i - 1], Seg(segs[i]).align)], end |-> end[Len(segs)]]

Jumps == {i \in DOMAIN imported : imported[i] \in used /\ Kind(imported[i]) = "impfunc"}
Ndlls == Cardinality({names[n].arg : n \in {m \in ToSet(imported) : m \in used}})
JumpSize == 6

\* The sections follow one another, each on a page of its own.  The jumps to
\* imported procedures are part of the code, the import directory precedes
\* what COFF import libraries contribute to IDATA.
Place ==
  LET order == [c \in Classes |-> OrderSegments(c)]
      code == CalcAddress(order["CODE"], Page)
      jumps == Up(code.end, 2)
      data == CalcAddress(order["DATA"], Up(jumps + JumpSize * Cardinality(Jumps), Page))
      bss == CalcAddress(order["BSS"], Up(data.end, Page))
      const == CalcAddress(order["CONST"], Up(bss.end, Page))
      directory == Up(const.end, Page)
      imports == CalcAddress(order["IDATA"], directory + Ndlls * 20)
  IN  /\ phase = "order"
      /\ IF errors # 0
         THEN phase' = "failed" /\ UNCHANGED <<nfixups, layout>>
         ELSE /\ phase' = "image"
              /\ nfixups' = nfixups + Cardinality(Jumps)
              /\ layout' =
                   [order |-> order,
                    at |-> [c \in Classes |-> CASE c = "CODE" -> code.at [] c = "DATA" -> data.at
                                [] c = "BSS" -> bss.at [] c = "CONST" -> const.at [] c = "IDATA" -> imports.at],
                    base |-> [c \in Classes |-> CASE c = "CODE" -> Page
                                [] c = "DATA" -> Up(jumps + JumpSize * Cardinality(Jumps), Page)
                                [] c = "BSS" -> Up(data.end, Page) [] c = "CONST" -> Up(bss.end, Page)
                                [] c = "IDATA" -> directory + Ndlls * 20],
                    jumps |-> [i \in Jumps |-> jumps + JumpSize * Cardinality({j \in Jumps : j < i})],
                    text |-> <<>>]
      /\ UNCHANGED <<input, errors, undefs, root, stack, processed, commons, used, idata, sweep>>

-----------------------------------------------------------------------------
(* The image *)

\* Mutant: one text after the other.
CreateCollectionImagePacked(segs) ==
  LET end[i \in 0..Len(segs)] == IF i = 0 THEN 0 ELSE end[i - 1] + Seg(segs[i]).len
  IN  [i \in DOMAIN segs |-> end[i - 1]]

\* Where the text of the segments is copied to, from the start of the section.
CreateCollectionImage(segs) == CalcAddress(segs, 0).at

\* The room that the addresses have taken.
SectionLen(c) ==
  LET end == CalcAddress(layout.order[c], layout.base[c]).end
      jumps == JumpSize * Cardinality(DOMAIN layout.jumps)
  IN  (IF c = "CODE" THEN Up(end, 2) + jumps ELSE end) - layout.base[c]

\* A text does not fit into the image of its section.
Overruns(c) ==
  LET order == layout.order[c]
  IN  \E i \in DOMAIN order : CreateCollectionImage(order)[i] + Seg(order[i]).len > SectionLen(c)

\* ProcessFixup writes one for a segment or an import.
FixupsOf(s) == {<<s, i>> : i \in {j \in DOMAIN Seg(s).fixups : Seg(s).fixups[j].address}}

CreateImages ==
  LET texts == UNION {ToSet(layout.order[c]) : c \in Classes \ {"BSS"}}
      written == Cardinality(UNION {FixupsOf(s) : s \in texts}) + Cardinality(DOMAIN layout.jumps)
  IN  /\ phase = "image"
      /\ layout' = [layout EXCEPT !.text = [c \in Classes \ {"BSS"} |-> CreateCollectionImage(layout.order[c])]]
      /\ phase' = IF \E c \in Classes \ {"BSS"} : Overruns(c) THEN "overrun"
                  ELSE IF written = nfixups THEN "done" ELSE "miscounted"
      /\ UNCHANGED <<input, errors, undefs, search, sweep>>

-----------------------------------------------------------------------------
Init ==
  /\ files = <<>> /\ item = 1 /\ names = [n \in Names |-> Null] /\ imported = <<>> /\ exports = <<>>
  /\ mask = {OBJMOD, CMDLINE, EDFMOD} /\ entry \in Entries
  /\ errors = 0 /\ undefs = {} /\ phase = "options"
  /\ root = 0 /\ stack = <<>> /\ processed = {} /\ commons = <<>> /\ used = {} /\ idata = {}
  /\ nfixups = 0
  /\ file = 1 /\ changed = [all |-> FALSE, here |-> FALSE] /\ whole = {}
  /\ layout = <<>>

Next ==
  \/ Option \/ OpenFile \/ ReadDeclaration \/ ReadExport \/ FileRead \/ Link
  \/ PrepareExport \/ EntryRoot \/ ExportRoot \/ RootsCollected
  \/ FixupToName \/ FixupToSegment \/ Descriptor \/ Return
  \/ CollectAllSegments \/ PassFile \/ CollectAllAgain
  \/ Place \/ CreateImages

Spec == Init /\ [][Next]_vars

-----------------------------------------------------------------------------
(* Properties *)

FromFiles(S) == {s \in S : s[1] # 0}
DefinedIn(n) == IF names[n] # Null /\ names[n].kind = "public" /\ names[n].seg # Null THEN {names[n].seg} ELSE {}
FixupTargets(s) ==
  UNION {IF f.name = Null THEN {<<s[1], f.own>>} ELSE DefinedIn(f.name) : f \in ToSet(Seg(s).fixups)}
RootSegments ==
  (UNION {IF e.seg # Null THEN {e.seg} ELSE DefinedIn(e.int) : e \in {x \in ToSet(exports) : Exported(x)}})
  \cup (IF entry # Null THEN DefinedIn(entry) ELSE {})
AllOf(f) == {s \in ToSet(SegmentsOf(f)) : Linkable(s)}

\* T has what the program needs: the roots, what the fixups of its segments
\* refer to, the descriptors of import libraries and, if whole files are to
\* be linked, all of the files without smart linking that are in use.
Needs(T) ==
  /\ RootSegments \subseteq T
  /\ \A s \in FromFiles(T) :
       /\ FixupTargets(s) \subseteq T
       /\ Seg(s).clazz = "IDATA" => DefinedIn(files[s[1]].extrnl) \subseteq T
  /\ ~Last(files).smart =>
       \A f \in DOMAIN files : ~files[f].smart /\ (files[f].lib = Null \/ \E s \in T : s[1] = f)
                                 => AllOf(f) \subseteq T

Collected == phase \in {"order", "image", "done"}

\* What is linked is what the program needs and nothing else, in whatever
\* order the files come and with cycles among their segments: CollectAll
\* repeats until nothing changes, but it tests `changed' first and so passes
\* over files in a round that has changed something.
OnlyNeededIsLinked ==
  Collected => /\ Needs(processed)
               /\ \A T \in SUBSET FromFiles(processed) : Needs(T) => T = FromFiles(processed)

\* An error-free reading binds a name in one of two ways.  Where an import is
\* the first to declare it, in the order of the files, it stays bound to that
\* import, and public and COMMON declarations may only follow in libraries.
\* Everywhere else imports are passed over, and of the other declarations it
\* is as if they were known all at once: the first public one wins over weak
\* and COMMON ones, later public ones only come from other libraries, and a
\* COMMON block has the largest length asked for.
Declares(f, k, n) == k \in DOMAIN files[f].decls /\ files[f].decls[k].name = n
DeclaredFirst(f, k, n) ==
  /\ Declares(f, k, n)
  /\ \A g \in 1..f : \A j \in DOMAIN files[g].decls : Declares(g, j, n) => g = f /\ j >= k
Declared(f, kinds, n) == \E d \in ToSet(files[f].decls) : d.kind \in kinds /\ d.name = n

BoundToFirst(n) ==
  \E f \in DOMAIN files : \E k \in DOMAIN files[f].decls :
    /\ DeclaredFirst(f, k, n)
    /\ IF names[n].kind \in Imports
       THEN /\ files[f].decls[k].kind = names[n].kind /\ files[f].decls[k].arg = names[n].arg
            /\ \A g \in DOMAIN files : Declared(g, {"public", "common"}, n) => files[g].lib # Null
       ELSE files[f].decls[k].kind \notin Imports

BoundAtOnce(n) ==
  LET lengths == UNION {{d.arg : d \in {x \in ToSet(files[f].decls) : x.kind = "common" /\ x.name = n}} :
                          f \in DOMAIN files}
  IN  CASE names[n].kind = "public" /\ names[n].seg # Null ->
             LET f == names[n].seg[1]
             IN  /\ Declared(f, {"public"}, n)
                 /\ \A g \in 1..f - 1 : ~Declared(g, {"public"}, n)
                 /\ \A g \in f + 1..Len(files) : Declared(g, {"public"}, n) =>
                      files[g].lib # Null /\ files[g].lib # files[f].lib
        [] names[n].kind = "common" ->
             /\ names[n].arg \in lengths /\ \A l \in lengths : l <= names[n].arg
             /\ \A g \in DOMAIN files : ~Declared(g, {"public"}, n)
        [] names[n].kind = "weak" -> \A g \in DOMAIN files : ~Declared(g, {"public", "common"}, n)
        [] OTHER -> TRUE

OneDefinition ==
  errors = 0 /\ phase \in {"options", "read", "prepare"} =>
    \A n \in {m \in Names : names[m] # Null} : BoundToFirst(n) /\ BoundAtOnce(n)

\* The fixups that are counted while segments are collected are the ones that
\* are written into the image: CreateImages asserts so.
FixupsCounted == phase # "miscounted"

\* The same, where no export names a segment of its own module and none that
\* has no text has a fixup, which the readers of OMF files reject.
NoFixupWithoutText ==
  \A f \in DOMAIN files : \A i \in DOMAIN files[f].segs :
    files[f].segs[i].clazz = "BSS" => \A x \in ToSet(files[f].segs[i].fixups) : ~x.address
FixupsCountedByName ==
  (\A i \in DOMAIN exports : exports[i].seg = Null) /\ NoFixupWithoutText => FixupsCounted

\* The numbers of exports are different ones, the user's are kept, and the
\* rest fill the gaps from 1 on.
OrdinalsAssigned ==
  [][phase = "prepare" /\ phase' = "roots" /\ errors' = 0 =>
       LET out == {i \in DOMAIN exports : Exported(exports[i])}
       IN  /\ \A i, j \in out : exports'[i].ord = exports'[j].ord => i = j
           /\ \A i \in out : exports[i].ord # 0 => exports'[i].ord = exports[i].ord
           /\ \A i \in out : exports[i].ord = 0 =>
                \A k \in 1..exports'[i].ord - 1 : \E j \in out : exports'[j].ord = k]_vars

\* The texts of a section fit into its image: CreateCollectionImage asserts so.
TextFits == phase # "overrun"

\* The same, where the sections begin as their segments might; IDATA begins
\* behind the import directory, wherever that ends.
StartsAligned(c) == \A s \in ToSet(layout.order[c]) : layout.base[c] % Seg(s).align = 0
TextFitsAligned == TextFits \/ \E c \in Classes \ {"BSS"} : ~StartsAligned(c)

\* Segments, and the jumps to imports, do not overlap; each segment has its
\* alignment, and its text fits into the image and stands where its address
\* says, if the section begins where every one of its segments might.
Extents ==
  (UNION {{<<layout.at[c][i], layout.at[c][i] + Seg(layout.order[c][i]).len>> :
             i \in {j \in DOMAIN layout.order[c] : Seg(layout.order[c][j]).len > 0}} : c \in Classes})
  \cup {<<a, a + JumpSize>> : a \in ToSet(layout.jumps)}
TextIsPlaced ==
  /\ TextFitsAligned
  /\ phase = "done" =>
      /\ \A x, y \in Extents : x # y => x[2] <= y[1] \/ y[2] <= x[1]
      /\ \A s \in processed : Cardinality({c \in Classes : s \in ToSet(layout.order[c])}) = 1
      /\ Cardinality(Extents) = Cardinality({s \in processed : Seg(s).len > 0}) + Cardinality(Jumps)
      /\ \A c \in Classes : \A i \in DOMAIN layout.order[c] :
           layout.at[c][i] % Seg(layout.order[c][i]).align = 0
      /\ \A c \in Classes \ {"BSS"} :
           StartsAligned(c) =>
             layout.text[c] = [i \in DOMAIN layout.order[c] |-> layout.at[c][i] - layout.base[c]]
=============================================================================
