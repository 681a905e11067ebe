--------------------------- MODULE RegulateProofs ---------------------------
(***************************************************************************)
(* The ordering of a project for every set of module names, every disk and *)
(* any number of arguments: the types, the order and its completeness, the *)
(* truth of the cycle reports.  text never changes, and neither do list    *)
(* and inp once the ordering has begun.                                    *)
(***************************************************************************)
EXTENDS Regulate, SequenceFacts, FiniteSetTheorems

-----------------------------------------------------------------------------
(* The operators of the model *)

\* The list only grows at its end.
Grows(l, m) == /\ m \in Seq(File)
               /\ Len(l) <= Len(m)
               /\ \A i \in 1..Len(l) : m[i] = l[i]

LEMMA GrowsOnAndOn ==
  ASSUME NEW l \in Seq(File), NEW m, NEW n, Grows(l, m), Grows(m, n)
  PROVE  Grows(l, n)
<1>1. m \in Seq(File) /\ n \in Seq(File) /\ Len(l) \in Nat /\ Len(m) \in Nat /\ Len(n) \in Nat
  BY DEF Grows
<1>2. QED
  BY <1>1 DEF Grows

\* Added adds one member, behind what is there, and nothing twice.
LEMMA AddedShape ==
  ASSUME NEW l \in Seq(File), NEW x \in File
  PROVE  /\ Grows(l, Added(l, x))
         /\ ToSet(Added(l, x)) = ToSet(l) \cup {x}
<1>0. Len(l) \in Nat
  OBVIOUS
<1>1. CASE x \in ToSet(l)
  <2>1. Added(l, x) = l
    BY <1>1 DEF Added
  <2>2. QED
    BY <1>0, <1>1, <2>1 DEF Grows
<1>2. CASE x \notin ToSet(l)
  <2>1. Added(l, x) = Append(l, x)
    BY <1>2 DEF Added
  <2>2. /\ Append(l, x) \in Seq(File)
        /\ Len(Append(l, x)) = Len(l) + 1
        /\ \A i \in 1..Len(l) : Append(l, x)[i] = l[i]
        /\ ToSet(Append(l, x)) = ToSet(l) \cup {x}
    BY AppendShape
  <2>3. Grows(l, Append(l, x))
    BY <1>0, <2>2 DEF Grows
  <2>4. QED
    BY <2>1, <2>2, <2>3
<1>3. QED
  BY <1>1, <1>2

LEMMA AddedNames ==
  ASSUME NEW T, NEW l \in Seq(T), NEW x \in T
  PROVE  Added(l, x) \in Seq(T) /\ ToSet(Added(l, x)) = ToSet(l) \cup {x}
<1>1. CASE x \in ToSet(l)
  BY <1>1 DEF Added
<1>2. CASE x \notin ToSet(l)
  <2>1. Added(l, x) = Append(l, x)
    BY <1>2 DEF Added
  <2>2. QED
    BY <2>1, AppendShape
<1>3. QED
  BY <1>1, <1>2

LEMMA AddedInjective ==
  ASSUME NEW l \in Seq(File), NEW x \in File, IsInjective(l)
  PROVE  IsInjective(Added(l, x))
<1>1. CASE x \in ToSet(l)
  BY <1>1 DEF Added
<1>2. CASE x \notin ToSet(l)
  <2>1. Added(l, x) = Append(l, x)
    BY <1>2 DEF Added
  <2>2. \A i, j \in 1..Len(l) : l[i] = l[j] => i = j
    BY InjectiveSeq
  <2>3. \A i \in 1..Len(l) : l[i] # x
    BY <1>2, ToSetMember
  <2>4. /\ Append(l, x) \in Seq(File) /\ Len(Append(l, x)) = Len(l) + 1
        /\ \A i \in 1..Len(l) : Append(l, x)[i] = l[i]
        /\ Append(l, x)[Len(l) + 1] = x
    BY AppendShape
  <2>5. Len(l) \in Nat
    OBVIOUS
  <2>6. \A i, j \in 1..Len(Append(l, x)) : Append(l, x)[i] = Append(l, x)[j] => i = j
    BY <2>2, <2>3, <2>4, <2>5
  <2>7. IsInjective(Append(l, x))
    BY <2>4, <2>6, InjectiveSeq
  <2>8. QED
    BY <2>1, <2>7
<1>3. QED
  BY <1>1, <1>2

LEMMA ProductsAreFiles ==
  ASSUME NEW n \in Names
  PROVE  /\ SymOf(n) \in File /\ SymOf(n).mode = "sym" /\ SymOf(n).name = n
         /\ CodeOf(n) \in File /\ CodeOf(n).mode = "code" /\ CodeOf(n).name = n
BY DEF SymOf, CodeOf, File, Modes, DEPs

\* Include adds the file and symbol and code files, behind what is there.
LEMMA IncludeShape ==
  ASSUME NEW l \in Seq(File), NEW x \in File
  PROVE  /\ Grows(l, Include(l, x))
         /\ ToSet(l) \cup {x} \subseteq ToSet(Include(l, x))
         /\ \A f \in ToSet(Include(l, x)) : f \in ToSet(l) \cup {x} \/ f.mode \in {"sym", "code"}
<1>0. x.name \in Names
  BY DEF File
<1>1. CASE x \in ToSet(l)
  <2>1. Include(l, x) = l
    BY <1>1 DEF Include
  <2>2. Len(l) \in Nat
    OBVIOUS
  <2>3. Grows(l, l)
    BY <2>2 DEF Grows
  <2>4. QED
    BY <1>1, <2>1, <2>3
<1>2. CASE x \notin ToSet(l)
  <2>1. PICK l1 : l1 = Append(l, x)
    OBVIOUS
  <2>2. l1 = Added(l, x)
    BY <1>2, <2>1 DEF Added
  <2>3. l1 \in Seq(File) /\ Grows(l, l1) /\ ToSet(l1) = ToSet(l) \cup {x}
    BY <2>2, AddedShape DEF Grows
  <2>4. PICK sym, code : sym = SymOf(x.name) /\ code = CodeOf(x.name)
    OBVIOUS
  <2>5. sym \in File /\ sym.mode = "sym" /\ code \in File /\ code.mode = "code"
    BY <1>0, <2>4, ProductsAreFiles
  <2>6. PICK l2 : l2 = Added(l1, sym)
    OBVIOUS
  <2>7. l2 \in Seq(File) /\ Grows(l1, l2) /\ ToSet(l2) = ToSet(l1) \cup {sym}
    BY <2>3, <2>5, <2>6, AddedShape DEF Grows
  <2>8. PICK l3 : l3 = Added(l2, code)
    OBVIOUS
  <2>9. Grows(l2, l3) /\ ToSet(l3) = ToSet(l2) \cup {code}
    BY <2>5, <2>7, <2>8, AddedShape
  <2>10. PICK l4 : l4 = Added(l1, code)
    OBVIOUS
  <2>11. Grows(l1, l4) /\ ToSet(l4) = ToSet(l1) \cup {code}
    BY <2>3, <2>5, <2>10, AddedShape
  <2>12. Include(l, x) \in {l2, l3, l4}
    BY <1>2, <2>1, <2>4, <2>6, <2>8, <2>10 DEF Include
  <2>13. Grows(l, l2) /\ Grows(l, l3) /\ Grows(l, l4)
    BY <2>3, <2>7, <2>9, <2>11, GrowsOnAndOn
  <2>14. QED
    BY <2>3, <2>5, <2>7, <2>9, <2>11, <2>12, <2>13
<1>3. QED
  BY <1>1, <1>2

\* An import is a file of the project that can produce a symbol file, under the
\* imported name, which is not the importing file's own.
LEMMA ImportShape ==
  ASSUME list \in Seq(File), NEW x \in File, NEW k \in 1..Len(inp[x]), Import(x, k) # None
  PROVE  /\ Import(x, k) \in ToSet(list) /\ Import(x, k) \in File
         /\ Import(x, k).mode \in DEFs /\ Import(x, k).name = inp[x][k]
         /\ Import(x, k).name # x.name
<1>1. PICK I : I = {i \in 1..Len(list) : IsDefOf(inp[x][k], list[i])}
  OBVIOUS
<1>2. SelectInSeq(list, LAMBDA f : IsDefOf(inp[x][k], f)) = IF I # {} THEN Min(I) ELSE 0
  BY <1>1 DEF SelectInSeq
<1>3. inp[x][k] # x.name /\ I # {} /\ Import(x, k) = list[Min(I)]
  BY <1>2 DEF Import
<1>4. Min(I) \in I
  <2>1. I \in SUBSET Nat
    BY <1>1
  <2>2. QED
    BY <1>3, <2>1, LeastExists
<1>5. Min(I) \in 1..Len(list) /\ list[Min(I)].name = inp[x][k] /\ list[Min(I)].mode \in DEFs
  BY <1>1, <1>4 DEF IsDefOf
<1>6. list[Min(I)] \in ToSet(list) /\ list[Min(I)] \in File
  BY <1>5, ToSetMember
<1>7. QED
  BY <1>3, <1>5, <1>6

DefFiles == {f \in ToSet(list) : f.mode \in DEFs}

LEMMA ImportsAreDefFiles ==
  ASSUME list \in Seq(File), NEW x \in File
  PROVE  Imports(x) \subseteq DefFiles /\ IsFiniteSet(Imports(x)) /\ Imports(x) \subseteq File
<1>1. ASSUME NEW y \in Imports(x) PROVE y \in DefFiles /\ y \in File
  <2>1. PICK k \in 1..Len(inp[x]) : y = Import(x, k) /\ y # None
    BY DEF Imports
  <2>2. QED
    BY <2>1, ImportShape DEF DefFiles
<1>2. DefFiles \subseteq ToSet(list)
  BY DEF DefFiles
<1>3. IsFiniteSet(ToSet(list))
  BY ListFinite
<1>4. Imports(x) \in SUBSET ToSet(list)
  BY <1>1, <1>2
<1>5. QED
  BY <1>1, <1>3, <1>4, FS_Subset

-----------------------------------------------------------------------------
(* Types *)

\* What is being scanned exists.
ScanIsOpen == scan # None => Exists(scan.source)

TypeInv == TypeOK /\ ScanIsOpen

LEMMA HeadingShape ==
  ASSUME TypeOK, NEW s \in Source, Exists(s)
  PROVE  /\ text[s] \in Text /\ text[s].module \in Names /\ Clauses(s) \in Seq(Names)
         /\ \A n, imp : ModeOf(s, imp) \in DEPs /\ ScanErrors(s, n, imp) \in Nat
<1>1. text[s] \in Text
  BY DEF TypeOK, Exists
<1>2. text[s].module \in Names /\ text[s].imports \in Seq(Names)
  BY <1>1 DEF Text
<1>3. <<text[s].module>> \in Seq(Names)
  BY <1>2
<1>4. <<text[s].module>> \o text[s].imports \in Seq(Names)
  BY <1>2, <1>3, ConcatProperties
<1>5. ASSUME NEW n, NEW imp PROVE ModeOf(s, imp) \in DEPs /\ ScanErrors(s, n, imp) \in Nat
  <2>1. s.ext \in {"ob2", "def", "mod"}
    BY DEF Source, Exts
  <2>2. ModeOf(s, imp) \in DEPs
    BY <2>1 DEF ModeOf, DEPs
  <2>3. \A b : OneIf(b) \in Nat
    BY DEF OneIf
  <2>4. ScanErrors(s, n, imp) \in Nat
    BY <2>3 DEF ScanErrors
  <2>5. QED
    BY <2>2, <2>4
<1>6. QED
  BY <1>1, <1>2, <1>4, <1>5 DEF Clauses

LEMMA SourcesFound ==
  ASSUME NEW n \in Names
  PROVE  /\ AnyDef(n) # None => (AnyDef(n) \in Source /\ Exists(AnyDef(n)))
         /\ AnyImp(n) # None => (AnyImp(n) \in Source /\ Exists(AnyImp(n)))
<1>1. \A e \in Exts : At(n, e) \in Source
  BY DEF At, Source
<1>2. At(n, "ob2") \in Source /\ At(n, "def") \in Source /\ At(n, "mod") \in Source
  BY <1>1 DEF Exts
<1>3. AnyDef(n) = IF Exists(At(n, "ob2")) THEN At(n, "ob2")
                  ELSE IF Exists(At(n, "def")) THEN At(n, "def") ELSE None
  BY DEF AnyDef
<1>4. AnyImp(n) = IF Exists(At(n, "ob2")) THEN At(n, "ob2")
                  ELSE IF Exists(At(n, "mod")) THEN At(n, "mod") ELSE None
  BY DEF AnyImp
<1>5. QED
  BY <1>2, <1>3, <1>4

LEMMA ScanStarts ==
  ASSUME TypeInv, NEW s \in Source, NEW n \in Names, NEW imp \in BOOLEAN, Exists(s),
         Scan(s, n, imp), text' = text
  PROVE  scan' \in Scanning /\ ScanIsOpen'
<1>1. <<>> \in Seq(Names)
  BY EmptySeq
<1>2. QED
  BY <1>1 DEF Scan, Scanning, ScanIsOpen, Exists

LEMMA PreScanTypes ==
  ASSUME TypeInv, NEW s \in Source \cup {None}, NEW e \in Nat, PreScan(s, e), text' = text
  PROVE  scan' \in Scanning \cup {None} /\ ScanIsOpen' /\ errs' \in Nat
<1>1. errs \in Nat /\ scan \in Scanning \cup {None}
  BY DEF TypeInv, TypeOK, Scanning
<1>2. CASE s # None /\ Exists(s)
           /\ Scan(s, text[s].module, FALSE) /\ errs' = errs + e
  <2>1. text[s].module \in Names
    BY <1>2, HeadingShape DEF TypeInv
  <2>2. scan' \in Scanning /\ ScanIsOpen'
    BY <1>2, <2>1, ScanStarts
  <2>3. QED
    BY <1>1, <1>2, <2>2
<1>3. CASE errs' = errs + e + 1 /\ UNCHANGED scan
  BY <1>1, <1>3 DEF TypeInv, ScanIsOpen, Exists
<1>4. QED
  BY <1>2, <1>3 DEF PreScan

LEMMA ArgumentTypes ==
  ASSUME TypeInv, NEW a \in Names \cup Source, NEW s \in Source \cup {None}, NEW e \in Nat,
         Argument(a), PreScan(s, e)
  PROVE  TypeInv'
<1>1. text' = text
  BY DEF Argument
<1>2. scan' \in Scanning \cup {None} /\ ScanIsOpen' /\ errs' \in Nat
  BY <1>1, PreScanTypes
<1>3. args' \in Seq(Names \cup Source)
  BY DEF TypeInv, TypeOK, Argument
<1>4. QED
  BY <1>2, <1>3 DEF TypeInv, TypeOK, Argument, Scanning

LEMMA AppendTypes ==
  ASSUME TypeInv, \/ \E n \in Names : AppendName(n)
                  \/ \E s \in Source : AppendFile(s)
  PROVE  TypeInv'
<1>1. ASSUME NEW n \in Names, AppendName(n) PROVE TypeInv'
  <2>1. OneIf(TwoDefs(n)) \in Nat
    BY DEF OneIf
  <2>2. (IF AnyDef(n) # None THEN AnyDef(n) ELSE AnyImp(n)) \in Source \cup {None}
    BY SourcesFound
  <2>3. QED
    BY <1>1, <2>1, <2>2, ArgumentTypes DEF AppendName
<1>2. ASSUME NEW s \in Source, AppendFile(s) PROVE TypeInv'
  BY <1>2, ArgumentTypes DEF AppendFile
<1>3. QED
  BY <1>1, <1>2

LEMMA ScanImportTypes ==
  ASSUME TypeInv, ScanImport
  PROVE  TypeInv'
<1>1. scan \in Scanning /\ Exists(scan.source) /\ scan.source \in Source
      /\ scan.next \in Nat \ {0} /\ scan.names \in Seq(Names)
  BY DEF TypeInv, TypeOK, ScanImport, Idle, Scanning, ScanIsOpen
<1>2. Clauses(scan.source) \in Seq(Names)
  BY <1>1, HeadingShape DEF TypeInv
<1>3. PICK n : n = Clauses(scan.source)[scan.next]
  OBVIOUS
<1>4. n \in Names
  BY <1>1, <1>2, <1>3 DEF ScanImport
<1>5. scan' = [scan EXCEPT !.next = @ + 1, !.names = Added(@, n)] /\ list' = Added(list, SymOf(n))
  BY <1>3 DEF ScanImport
<1>6. Added(scan.names, n) \in Seq(Names)
  BY <1>1, <1>4, AddedNames
<1>7. scan' \in Scanning /\ scan'.source = scan.source
  <2>1. scan' = [source |-> scan.source, name |-> scan.name, imp |-> scan.imp,
                 next |-> scan.next + 1, names |-> Added(scan.names, n)]
    BY <1>1, <1>5 DEF Scanning
  <2>2. QED
    BY <1>1, <1>6, <2>1 DEF Scanning
<1>8. list' \in Seq(File)
  BY <1>4, <1>5, AddedShape, ProductsAreFiles DEF TypeInv, TypeOK, Grows
<1>9. ScanIsOpen'
  BY <1>1, <1>7 DEF ScanIsOpen, ScanImport, Exists
<1>10. QED
  BY <1>7, <1>8, <1>9 DEF TypeInv, TypeOK, ScanImport, Scanning

LEMMA ScanEndTypes ==
  ASSUME TypeInv, ScanEnd
  PROVE  TypeInv'
<1>1. scan \in Scanning /\ Exists(scan.source) /\ scan.source \in Source
      /\ scan.name \in Names /\ scan.names \in Seq(Names)
  BY DEF TypeInv, TypeOK, ScanEnd, Idle, Scanning, ScanIsOpen
<1>2. PICK x : x = [name |-> scan.name, mode |-> ModeOf(scan.source, scan.imp)]
  OBVIOUS
<1>3. x \in File
  BY <1>1, <1>2, HeadingShape DEF TypeInv, File, Modes
<1>4. list' = Include(list, x) /\ inp' = [inp EXCEPT ![x] = scan.names] /\ scan' = None
      /\ errs' = errs + ScanErrors(scan.source, scan.name, scan.imp)
  BY <1>2 DEF ScanEnd
<1>5. list' \in Seq(File)
  BY <1>3, <1>4, IncludeShape DEF TypeInv, TypeOK, Grows
<1>6. inp' \in [File -> Seq(Names)] /\ errs' \in Nat
  BY <1>1, <1>3, <1>4, HeadingShape DEF TypeInv, TypeOK
<1>7. QED
  BY <1>4, <1>5, <1>6 DEF TypeInv, TypeOK, ScanEnd, ScanIsOpen

LEMMA ParseTypes ==
  ASSUME TypeInv, Parse
  PROVE  TypeInv'
<1>1. cursor \in Nat \ {0} /\ errs \in Nat /\ list[cursor] \in File /\ text' = text
  BY DEF TypeInv, TypeOK, Parse
<1>2. PICK n \in Names : n = list[cursor].name
  BY <1>1 DEF File
<1>3. OneIf(TwoDefs(n)) \in Nat /\ OneIf(TwoImps(n)) \in Nat
  BY DEF OneIf
<1>4. ASSUME UNCHANGED scan PROVE scan' \in Scanning \cup {None} /\ ScanIsOpen'
  BY <1>1, <1>4 DEF TypeInv, TypeOK, Scanning, ScanIsOpen, Exists
<1>5. CASE ParseDef(n)
  <2>1. scan' \in Scanning \cup {None} /\ ScanIsOpen'
    <3>1. UNCHANGED scan \/ (AnyDef(n) # None /\ Scan(AnyDef(n), n, FALSE))
      BY <1>5 DEF ParseDef
    <3>2. QED
      BY <1>1, <1>4, <3>1, ScanStarts, SourcesFound
  <2>2. errs' \in Nat /\ cursor' \in Nat \ {0} /\ half' \in {"def", "imp"}
    <3>1. /\ errs' = errs \/ errs' = errs + OneIf(TwoDefs(n))
          /\ cursor' = cursor \/ cursor' = cursor + 1
          /\ half' \in {"def", "imp"}
      BY <1>5 DEF ParseDef
    <3>2. QED
      BY <1>1, <1>3, <3>1
  <2>3. QED
    BY <2>1, <2>2 DEF TypeInv, TypeOK, Parse, Scanning
<1>6. CASE ParseImp(n)
  <2>1. scan' \in Scanning \cup {None} /\ ScanIsOpen'
    <3>1. UNCHANGED scan \/ (AnyImp(n) # None /\ Scan(AnyImp(n), n, TRUE))
      BY <1>6 DEF ParseImp
    <3>2. QED
      BY <1>1, <1>4, <3>1, ScanStarts, SourcesFound
  <2>2. errs' \in Nat /\ cursor' \in Nat \ {0} /\ half' \in {"def", "imp"}
    <3>1. /\ errs' = errs \/ errs' = errs + OneIf(TwoImps(n))
          /\ cursor' = cursor \/ cursor' = cursor + 1
          /\ half' \in {"def", "imp"}
      BY <1>6 DEF ParseImp
    <3>2. QED
      BY <1>1, <1>3, <3>1
  <2>3. QED
    BY <2>1, <2>2 DEF TypeInv, TypeOK, Parse, Scanning
<1>7. CASE cursor' = cursor + 1 /\ UNCHANGED <<scan, half, errs>>
  BY <1>1, <1>4, <1>7 DEF TypeInv, TypeOK, Parse, Scanning
<1>8. QED
  BY <1>2, <1>5, <1>6, <1>7 DEF Parse

\* What the loops of Order do to the activation they run in.
LEMMA AdvancedShape ==
  ASSUME TypeOK, stack # <<>>
  PROVE  /\ Len(stack) \in Nat \ {0} /\ top \in Frame /\ top = stack[Len(stack)]
         /\ Advanced \in Seq(Frame) /\ Len(Advanced) = Len(stack)
         /\ \A i \in 1..Len(stack) : Advanced[i].file = stack[i].file
         /\ \A i \in 1..Len(stack) - 1 : Advanced[i] = stack[i]
         /\ Advanced[Len(stack)].next = top.next + 1
<1>1. stack \in Seq(Frame) /\ Len(stack) \in Nat \ {0}
  BY EmptySeq DEF TypeOK, Frame
<1>2. top = stack[Len(stack)] /\ top \in Frame
  BY <1>1, ElementOfSeq DEF top
<1>3. PICK f : f = [file |-> top.file, next |-> top.next + 1]
  OBVIOUS
<1>4. f \in Frame /\ f.file = top.file /\ f.next = top.next + 1
  BY <1>2, <1>3 DEF Frame
<1>5. f = [top EXCEPT !.next = @ + 1]
  BY <1>2, <1>3 DEF Frame
<1>6. Advanced = [stack EXCEPT ![Len(stack)] = f]
  BY <1>1, <1>2, <1>5 DEF Advanced
<1>7. Len(stack) \in 1..Len(stack)
  BY <1>1
<1>8. /\ [stack EXCEPT ![Len(stack)] = f] \in Seq(Frame)
      /\ Len([stack EXCEPT ![Len(stack)] = f]) = Len(stack)
      /\ \A j \in 1..Len(stack) :
           [stack EXCEPT ![Len(stack)] = f][j] = IF j = Len(stack) THEN f ELSE stack[j]
  BY <1>1, <1>4, <1>7, ExceptSeq
<1>9. QED
  BY <1>1, <1>2, <1>4, <1>6, <1>8

LEMMA PushShape ==
  ASSUME NEW st \in Seq(Frame), NEW n \in File
  PROVE  /\ Append(st, [file |-> n, next |-> 1]) \in Seq(Frame)
         /\ Len(Append(st, [file |-> n, next |-> 1])) = Len(st) + 1
         /\ \A i \in 1..Len(st) : Append(st, [file |-> n, next |-> 1])[i] = st[i]
         /\ Append(st, [file |-> n, next |-> 1])[Len(st) + 1] = [file |-> n, next |-> 1]
<1>1. [file |-> n, next |-> 1] \in Frame
  BY DEF Frame
<1>2. QED
  BY <1>1, AppendShape

LEMMA OrderNextTypes ==
  ASSUME TypeInv, OrderNext
  PROVE  TypeInv'
<1>1. cursor \in Nat \ {0} /\ list[cursor] \in File /\ ordered \subseteq File
  BY DEF TypeInv, TypeOK, OrderNext
<1>2. <<[file |-> list[cursor], next |-> 1]>> \in Seq(Frame) /\ stack \in Seq(Frame)
  BY <1>1 DEF Frame, TypeInv, TypeOK
<1>3. \/ stack' = <<[file |-> list[cursor], next |-> 1]>> /\ ordered' = ordered \cup {list[cursor]}
      \/ stack' = stack /\ ordered' = ordered
  BY DEF OrderNext
<1>4. stack' \in Seq(Frame) /\ ordered' \subseteq File
  BY <1>1, <1>2, <1>3
<1>5. cursor' \in Nat \ {0}
  BY <1>1 DEF OrderNext
<1>6. QED
  BY <1>4, <1>5 DEF TypeInv, TypeOK, OrderNext, Frame, ScanIsOpen, Exists

LEMMA OrderImportTypes ==
  ASSUME TypeInv, OrderImport
  PROVE  TypeInv'
<1>1. TypeOK /\ stack # <<>> /\ list \in Seq(File) /\ ordered \subseteq File
  BY DEF TypeInv, TypeOK, OrderImport
<1>2. top \in Frame /\ Advanced \in Seq(Frame)
  BY <1>1, AdvancedShape
<1>3. top.file \in File /\ top.next \in 1..Len(inp[top.file])
  <2>1. top.file \in File /\ top.next \in Nat \ {0}
    BY <1>2 DEF Frame
  <2>2. inp[top.file] \in Seq(Names)
    BY <1>1, <2>1 DEF TypeOK
  <2>3. QED
    BY <2>1, <2>2 DEF OrderImport
<1>4. PICK n : n = Import(top.file, top.next)
  OBVIOUS
<1>5. n # None => n \in File
  BY <1>1, <1>3, <1>4, ImportShape
<1>6. \/ stack' = Advanced /\ ordered' = ordered
      \/ n # None /\ stack' = Append(Advanced, [file |-> n, next |-> 1]) /\ ordered' = ordered \cup {n}
  BY <1>4 DEF OrderImport
<1>7. stack' \in Seq(Frame) /\ ordered' \subseteq File
  BY <1>1, <1>2, <1>5, <1>6, PushShape
<1>8. QED
  BY <1>7 DEF TypeInv, TypeOK, OrderImport, Frame, ScanIsOpen, Exists

\* What the second loop of Order finds to report is finite.
LEMMA LateShape ==
  ASSUME TypeOK, NEW x \in File, NEW late, late = {n \in Imports(x) : n \notin tied}
  PROVE  /\ late \subseteq Imports(x) /\ late \subseteq File
         /\ Cardinality({n \in late : ~(x.mode = "oberon" /\ n.mode = "oberon")}) \in Nat
         /\ Cardinality({n \in late : ~(x.mode = "oberon" /\ n.mode = "oberon")}) = 0
              => \A n \in late : x.mode = "oberon" /\ n.mode = "oberon"
<1>1. Imports(x) \subseteq File /\ IsFiniteSet(Imports(x))
  BY ImportsAreDefFiles DEF TypeOK
<1>2. PICK bad : bad = {n \in late : ~(x.mode = "oberon" /\ n.mode = "oberon")}
  OBVIOUS
<1>3. bad \in SUBSET Imports(x)
  BY <1>2
<1>4. IsFiniteSet(bad)
  BY <1>1, <1>3, FS_Subset
<1>5. Cardinality(bad) \in Nat /\ (Cardinality(bad) = 0 => bad = {})
  BY <1>4, FS_CardinalityType, FS_EmptySet
<1>6. QED
  BY <1>1, <1>2, <1>5

LEMMA OrderTieTypes ==
  ASSUME TypeInv, OrderTie
  PROVE  TypeInv'
<1>1. TypeOK /\ stack # <<>> /\ nodes \in Seq(File) /\ reports \subseteq File \X File
      /\ errs \in Nat /\ stack \in Seq(Frame)
  BY DEF TypeInv, TypeOK, OrderTie, Frame
<1>2. PICK x \in File : x = top.file
  BY <1>1, AdvancedShape DEF Frame
<1>3. PICK late : late = {n \in Imports(x) : n \notin tied}
  OBVIOUS
<1>4. /\ reports' = reports \cup {<<x, n>> : n \in late}
      /\ errs' = errs + Cardinality({n \in late : ~(x.mode = "oberon" /\ n.mode = "oberon")})
      /\ nodes' = Added(nodes, x) /\ stack' = Front(stack)
  BY <1>2, <1>3 DEF OrderTie
<1>5. late \subseteq File
      /\ Cardinality({n \in late : ~(x.mode = "oberon" /\ n.mode = "oberon")}) \in Nat
  BY <1>1, <1>3, LateShape
<1>6. errs' \in Nat /\ reports' \subseteq File \X File
  BY <1>1, <1>4, <1>5
<1>7. nodes' \in Seq(File) /\ stack' \in Seq(Frame)
  BY <1>1, <1>4, AddedNames, FrontShape
<1>8. QED
  BY <1>6, <1>7 DEF TypeInv, TypeOK, OrderTie, Frame, ScanIsOpen, Exists

LEMMA TieTypes ==
  ASSUME TypeInv, Tie
  PROVE  TypeInv'
<1>1. cursor \in Nat \ {0} /\ nodes \in Seq(File) /\ errs \in Nat /\ list \in Seq(File)
  BY DEF TypeInv, TypeOK
<1>2. OneIf(nodes = <<>>) \in Nat
  BY DEF OneIf
<1>3. cursor <= Len(list) => list[cursor] \in File
  BY <1>1
<1>4. CASE cursor <= Len(list)
  <2>1. nodes' = Added(nodes, list[cursor]) /\ cursor' = cursor + 1 /\ phase' = phase /\ errs' = errs
    BY <1>4 DEF Tie
  <2>2. list[cursor] \in File
    BY <1>3, <1>4
  <2>3. Added(nodes, list[cursor]) \in Seq(File)
    BY <1>1, <2>2, AddedNames
  <2>4. QED
    BY <1>1, <2>1, <2>3 DEF TypeInv, TypeOK, Tie, ScanIsOpen, Exists
<1>5. CASE ~(cursor <= Len(list))
  <2>1. phase' = "done" /\ errs' = errs + OneIf(nodes = <<>>) /\ UNCHANGED <<nodes, cursor>>
    BY <1>5 DEF Tie
  <2>2. errs' \in Nat
    BY <1>1, <1>2, <2>1
  <2>3. QED
    BY <2>1, <2>2 DEF TypeInv, TypeOK, Tie, ScanIsOpen, Exists
<1>6. QED
  BY <1>4, <1>5

LEMMA TypesKept ==
  ASSUME TypeInv, [Next]_vars
  PROVE  TypeInv'
<1>1. CASE (\E n \in Names : AppendName(n)) \/ (\E s \in Source : AppendFile(s))
  BY <1>1, AppendTypes
<1>2. CASE Start
  BY <1>2 DEF Start, TypeInv, TypeOK, ScanIsOpen, Exists
<1>3. CASE EndClosure
  BY <1>3 DEF EndClosure, TypeInv, TypeOK, ScanIsOpen, Exists
<1>4. CASE EndOrder
  BY <1>4 DEF EndOrder, TypeInv, TypeOK, ScanIsOpen, Exists
<1>5. CASE UNCHANGED vars
  BY <1>5 DEF vars, TypeInv, TypeOK, ScanIsOpen, Exists
<1>6. QED
  BY <1>1, <1>2, <1>3, <1>4, <1>5, ScanImportTypes, ScanEndTypes, ParseTypes,
     OrderNextTypes, OrderImportTypes, OrderTieTypes, TieTypes DEF Next, Work

LEMMA TypesInitially ==
  ASSUME Init
  PROVE  TypeInv
<1>1. text \in [Source -> Text \cup {None}]
  BY TextsAreDisks DEF Init
<1>2. <<>> \in Seq(Names \cup Source) /\ <<>> \in Seq(File) /\ <<>> \in Seq(Names)
      /\ <<>> \in Seq(Frame)
  BY EmptySeq
<1>3. QED
  BY <1>1, <1>2 DEF Init, TypeInv, TypeOK, ScanIsOpen

LEMMA TypesAlways == Spec => []TypeInv
<1>1. QED
  BY TypesInitially, TypesKept, PTL DEF Spec

\* Every variable stays in its type, for any names and disks.
THEOREM TypeCorrect == Spec => []TypeOK
<1>1. TypeInv => TypeOK
  BY DEF TypeInv
<1>2. QED
  BY <1>1, TypesAlways, PTL

-----------------------------------------------------------------------------
(* The invariant of Order and Regulate *)

OnStack(f) == \E i \in 1..Len(stack) : stack[i].file = f

\* A file with the tag ordered is tied, or Order has not returned from it.
OrderedIsUnderWay == \A f \in ordered : f \in tied \/ OnStack(f)

\* Nothing but the list is ordered, and Order goes into definitions only.
WithinList == /\ tied \subseteq ToSet(list)
              /\ \A i \in 1..Len(stack) : stack[i].file \in DefFiles

\* The imports an activation is past have the tag.
PastIsOrdered ==
  \A i \in 1..Len(stack) : \A k \in 1..Len(inp[stack[i].file]) :
    k < stack[i].next => Import(stack[i].file, k) \in ordered \cup {None}

\* An import that does not come first has been reported.
LateIsReported ==
  \A x \in tied : \A y \in Imports(x) : Before(y, x) \/ <<x, y>> \in reports

\* Only Oberon-2 pairs are reported without an error.
ErrorsTell ==
  errs = 0 => \A r \in reports : r[1].mode = "oberon" /\ r[2].mode = "oberon"

\* Each activation was called from the one below it, for one of its imports.
StackIsAPath ==
  \A i, j \in 1..Len(stack) : i <= j => Reaches(stack[i].file, stack[j].file)

\* How far the loops have come.
Progress ==
  /\ phase \in {"append", "closure"} => ordered = {} /\ stack = <<>> /\ nodes = <<>> /\ reports = {}
  /\ phase \notin {"append", "closure"} => scan = None
  /\ phase = "order" => \A i \in 1..Len(list) :
       i < cursor /\ list[i].mode \in DEFs => list[i] \in ordered
  /\ phase = "tie" => /\ stack = <<>> /\ DefFiles \subseteq tied
                      /\ \A i \in 1..Len(list) : i < cursor => list[i] \in tied
  /\ phase = "done" => stack = <<>> /\ (errs = 0 => tied = ToSet(list))

OrderInv ==
  /\ OrderedIsUnderWay /\ WithinList /\ PastIsOrdered /\ LateIsReported /\ ErrorsTell
  /\ StackIsAPath /\ CyclesAreReal /\ IsInjective(nodes) /\ Progress

LEMMA ImportsStay ==
  ASSUME UNCHANGED <<list, inp>>
  PROVE  /\ DefFiles' = DefFiles
         /\ \A x, k : Import(x, k)' = Import(x, k)
         /\ \A x : Imports(x)' = Imports(x)
         /\ \A y, x : Reaches(y, x)' <=> Reaches(y, x)
<1>1. DefFiles' = DefFiles
  BY DEF DefFiles
<1>2. \A x, k : Import(x, k)' = Import(x, k)
  BY DEF Import, SelectInSeq, IsDefOf
<1>3. \A x : Imports(x)' = Imports(x)
  BY <1>2 DEF Imports
<1>4. \A y, x : Reaches(y, x)' <=> Reaches(y, x)
  BY <1>3 DEF Reaches, Closed
<1>5. QED
  BY <1>1, <1>2, <1>3, <1>4

LEMMA ReachesShape ==
  ASSUME NEW x \in DefFiles
  PROVE  /\ Reaches(x, x)
         /\ \A y \in Imports(x) : y \in DefFiles => \A z : Reaches(z, x) => Reaches(z, y)
BY DEF Reaches, Closed, DefFiles

\* One more file in the compilation order.
LEMMA TiedNext ==
  ASSUME nodes \in Seq(File), NEW x \in File, nodes' = Added(nodes, x)
  PROVE  /\ tied' = tied \cup {x}
         /\ \A y, z : Before(y, z) => Before(y, z)'
         /\ x \notin tied => \A y \in tied : Before(y, x)'
         /\ IsInjective(nodes) => IsInjective(nodes)'
<1>1. tied' = tied \cup {x} /\ (IsInjective(nodes) => IsInjective(nodes'))
  BY AddedShape, AddedInjective DEF tied
<1>2. /\ nodes' \in Seq(File) /\ Len(nodes) \in Nat /\ Len(nodes') \in Nat
      /\ Len(nodes) <= Len(nodes') /\ \A i \in 1..Len(nodes) : nodes'[i] = nodes[i]
  <2>1. Grows(nodes, nodes')
    BY AddedShape
  <2>2. nodes' \in Seq(File)
    BY <2>1 DEF Grows
  <2>3. QED
    BY <2>1, <2>2 DEF Grows
<1>3. ASSUME NEW y, NEW z, Before(y, z) PROVE Before(y, z)'
  <2>1. PICK i, j \in 1..Len(nodes) : i < j /\ nodes[i] = y /\ nodes[j] = z
    BY <1>3 DEF Before
  <2>2. i \in 1..Len(nodes') /\ j \in 1..Len(nodes') /\ nodes'[i] = y /\ nodes'[j] = z
    BY <1>2, <2>1
  <2>3. QED
    BY <2>1, <2>2 DEF Before
<1>4. ASSUME x \notin tied, NEW y \in tied PROVE Before(y, x)'
  <2>1. PICK i \in 1..Len(nodes) : nodes[i] = y
    BY ToSetMember DEF tied
  <2>2. nodes' = Append(nodes, x)
    BY <1>4 DEF Added, tied
  <2>3. Len(nodes') = Len(nodes) + 1 /\ nodes'[Len(nodes) + 1] = x
    BY <2>2, AppendShape
  <2>4. nodes'[i] = y /\ i \in 1..Len(nodes') /\ Len(nodes) + 1 \in 1..Len(nodes') /\ i < Len(nodes) + 1
    BY <1>2, <2>1, <2>3
  <2>5. QED
    BY <2>3, <2>4 DEF Before
<1>5. QED
  BY <1>1, <1>3, <1>4

\* As long as files are read there is no order yet.
LEMMA NothingOrdered ==
  ASSUME ordered' = {}, stack' = <<>>, nodes' = <<>>, reports' = {}, Progress'
  PROVE  OrderInv'
<1>1. Len(stack') = 0 /\ Len(nodes') = 0 /\ tied' = {} /\ IsInjective(nodes')
  BY DEF tied, ToSet, IsInjective
<1>2. OrderedIsUnderWay' /\ WithinList' /\ PastIsOrdered' /\ LateIsReported' /\ ErrorsTell'
  BY <1>1 DEF OrderedIsUnderWay, WithinList, PastIsOrdered, LateIsReported, ErrorsTell
<1>3. StackIsAPath' /\ CyclesAreReal'
  BY <1>1 DEF StackIsAPath, CyclesAreReal
<1>4. QED
  BY <1>1, <1>2, <1>3 DEF OrderInv

Reading == \/ \E n \in Names : AppendName(n)
           \/ \E s \in Source : AppendFile(s)
           \/ ScanImport \/ ScanEnd \/ Start \/ Parse \/ EndClosure

LEMMA ReadingKeepsOrder ==
  ASSUME TypeInv, OrderInv, Reading
  PROVE  OrderInv'
<1>1. /\ phase \in {"append", "closure"}
      /\ UNCHANGED <<ordered, stack, nodes, reports>>
      /\ \/ phase' \in {"append", "closure"}
         \/ phase' = "done" /\ errs > 0 /\ errs' = errs /\ scan' = None
         \/ phase' = "order" /\ cursor' = 1 /\ scan' = None
  <2>1. CASE (\E n \in Names : AppendName(n)) \/ (\E s \in Source : AppendFile(s))
    BY <2>1 DEF AppendName, AppendFile, Argument
  <2>2. CASE ScanImport
    BY <2>2 DEF ScanImport, Idle, OrderInv, Progress
  <2>3. CASE ScanEnd
    BY <2>3 DEF ScanEnd, Idle, OrderInv, Progress
  <2>4. CASE Start
    BY <2>4 DEF Start, Idle
  <2>5. CASE Parse
    BY <2>5 DEF Parse
  <2>6. CASE EndClosure
    BY <2>6 DEF EndClosure, Idle
  <2>7. QED
    BY <2>1, <2>2, <2>3, <2>4, <2>5, <2>6 DEF Reading
<1>2. ordered' = {} /\ stack' = <<>> /\ nodes' = <<>> /\ reports' = {}
  BY <1>1 DEF OrderInv, Progress
<1>3. errs \in Nat
  BY DEF TypeInv, TypeOK
<1>4. Progress'
  BY <1>1, <1>2, <1>3 DEF Progress
<1>5. QED
  BY <1>2, <1>4, NothingOrdered

\* Regulate's loop: the next definition is entered unless it is ordered.
LEMMA OrderNextKeepsOrder ==
  ASSUME TypeInv, OrderInv, OrderNext
  PROVE  OrderInv'
<1>1. /\ UNCHANGED <<list, inp, nodes, reports, errs, phase, scan>> /\ phase = "order"
      /\ cursor' = cursor + 1 /\ cursor \in Nat \ {0} /\ cursor <= Len(list)
      /\ stack = <<>> /\ list[cursor] \in ToSet(list) /\ list \in Seq(File) /\ tied' = tied
      /\ Len(list) \in Nat
  <2>1. list \in Seq(File) /\ cursor \in Nat \ {0}
    BY DEF TypeInv, TypeOK
  <2>2. list[cursor] \in ToSet(list)
    BY <2>1, ToSetMember DEF OrderNext
  <2>3. QED
    BY <2>1, <2>2 DEF OrderNext, tied
<1>2. PICK l : l = list[cursor]
  OBVIOUS
<1>3. LateIsReported' /\ ErrorsTell' /\ CyclesAreReal' /\ IsInjective(nodes)'
  <2>1. \A y, x : Before(y, x)' <=> Before(y, x)
    BY <1>1 DEF Before
  <2>2. QED
    BY <1>1, <2>1, ImportsStay DEF OrderInv, LateIsReported, ErrorsTell, CyclesAreReal
<1>4. CASE l.mode \in DEFs /\ l \notin ordered
  <2>1. ordered' = ordered \cup {l} /\ stack' = <<[file |-> l, next |-> 1]>>
    BY <1>2, <1>4 DEF OrderNext
  <2>2. Len(stack') = 1 /\ stack'[1].file = l /\ stack'[1].next = 1
    BY <2>1
  <2>3. l \in DefFiles
    BY <1>1, <1>2, <1>4 DEF DefFiles
  <2>4. OrderedIsUnderWay'
    <3>1. \A f : ~OnStack(f)
      BY <1>1 DEF OnStack
    <3>2. OnStack(l)'
      BY <2>2 DEF OnStack
    <3>3. QED
      BY <1>1, <2>1, <3>1, <3>2 DEF OrderInv, OrderedIsUnderWay
  <2>5. WithinList'
    BY <1>1, <2>2, <2>3, ImportsStay DEF OrderInv, WithinList
  <2>6. PastIsOrdered'
    BY <2>2 DEF PastIsOrdered
  <2>7. StackIsAPath'
    BY <1>1, <2>2, <2>3, ImportsStay, ReachesShape DEF StackIsAPath
  <2>8. Progress'
    BY <1>1, <1>2, <2>1 DEF OrderInv, Progress
  <2>9. QED
    BY <1>3, <2>4, <2>5, <2>6, <2>7, <2>8 DEF OrderInv
<1>5. CASE ~(l.mode \in DEFs /\ l \notin ordered)
  <2>1. UNCHANGED <<ordered, stack>>
    BY <1>2, <1>5 DEF OrderNext
  <2>2. OrderedIsUnderWay' /\ WithinList' /\ PastIsOrdered' /\ StackIsAPath'
    BY <1>1, <2>1, ImportsStay
    DEF OrderInv, OrderedIsUnderWay, OnStack, WithinList, PastIsOrdered, StackIsAPath
  <2>3. Progress'
    BY <1>1, <1>2, <1>5, <2>1 DEF OrderInv, Progress
  <2>4. QED
    BY <1>3, <2>2, <2>3 DEF OrderInv
<1>6. QED
  BY <1>4, <1>5

\* Order's first loop: the next import is passed, or gone into and marked.
LEMMA OrderImportKeepsOrder ==
  ASSUME TypeInv, OrderInv, OrderImport
  PROVE  OrderInv'
<1>1. /\ UNCHANGED <<list, inp, nodes, reports, errs, phase, scan, cursor>> /\ phase = "order"
      /\ stack # <<>> /\ list \in Seq(File) /\ tied' = tied
      /\ stack \in Seq(Frame) /\ TypeOK
  BY DEF TypeInv, TypeOK, OrderImport, tied, Frame
<1>2. /\ Len(stack) \in Nat \ {0} /\ top \in Frame /\ top = stack[Len(stack)]
      /\ Advanced \in Seq(Frame) /\ Len(Advanced) = Len(stack)
      /\ \A i \in 1..Len(stack) : Advanced[i].file = stack[i].file
      /\ \A i \in 1..Len(stack) - 1 : Advanced[i] = stack[i]
      /\ Advanced[Len(stack)].next = top.next + 1
  BY <1>1, AdvancedShape
<1>3. LateIsReported' /\ ErrorsTell' /\ CyclesAreReal' /\ IsInjective(nodes)'
  <2>1. \A y, x : Before(y, x)' <=> Before(y, x)
    BY <1>1 DEF Before
  <2>2. QED
    BY <1>1, <2>1, ImportsStay DEF OrderInv, LateIsReported, ErrorsTell, CyclesAreReal
<1>4. top.file \in File /\ top.next \in Nat \ {0} /\ top.next \in 1..Len(inp[top.file])
  <2>1. top.file \in File /\ top.next \in Nat \ {0}
    BY <1>2 DEF Frame
  <2>2. inp[top.file] \in Seq(Names)
    BY <1>1, <2>1 DEF TypeOK
  <2>3. QED
    BY <2>1, <2>2 DEF OrderImport
<1>5. PICK n : n = Import(top.file, top.next)
  OBVIOUS
<1>6. PICK st : st = Advanced
  OBVIOUS
<1>7. \* the new top of Advanced is past n
  ASSUME n \in ordered' \cup {None}, ordered \subseteq ordered',
         NEW i \in 1..Len(stack), NEW k \in 1..Len(inp[st[i].file]), k < st[i].next
  PROVE  Import(st[i].file, k) \in ordered' \cup {None}
  <2>1. CASE i # Len(stack)
    <3>1. i \in 1..Len(stack) - 1
      BY <1>2, <2>1
    <3>2. st[i] = stack[i]
      BY <1>2, <1>6, <3>1
    <3>3. QED
      BY <1>7, <3>2 DEF OrderInv, PastIsOrdered
  <2>2. CASE i = Len(stack)
    <3>1. st[i].file = top.file /\ st[i].next = top.next + 1
      BY <1>2, <1>6, <2>2
    <3>2. k = top.next \/ k < top.next
      BY <1>4, <1>7, <3>1
    <3>3. CASE k = top.next
      BY <1>5, <1>7, <3>1, <3>3
    <3>4. CASE k < top.next
      BY <1>2, <1>7, <2>2, <3>1, <3>4 DEF OrderInv, PastIsOrdered
    <3>5. QED
      BY <3>2, <3>3, <3>4
  <2>3. QED
    BY <2>1, <2>2
<1>8. CASE n = None \/ n \in ordered
  <2>1. stack' = st /\ ordered' = ordered
    BY <1>5, <1>6, <1>8 DEF OrderImport
  <2>2. Len(stack') = Len(stack) /\ \A i \in 1..Len(stack) : stack'[i].file = stack[i].file
    BY <1>2, <1>6, <2>1
  <2>3. OrderedIsUnderWay' /\ WithinList' /\ StackIsAPath'
    BY <1>1, <2>1, <2>2, ImportsStay
    DEF OrderInv, OrderedIsUnderWay, OnStack, WithinList, StackIsAPath
  <2>4. PastIsOrdered'
    BY <1>1, <1>7, <1>8, <2>1, <2>2, ImportsStay DEF PastIsOrdered
  <2>5. Progress'
    BY <1>1, <2>1 DEF OrderInv, Progress
  <2>6. QED
    BY <1>3, <2>3, <2>4, <2>5 DEF OrderInv
<1>9. CASE ~(n = None \/ n \in ordered)
  <2>1. stack' = Append(st, [file |-> n, next |-> 1]) /\ ordered' = ordered \cup {n}
    BY <1>5, <1>6, <1>9 DEF OrderImport
  <2>2. n \in DefFiles /\ n \in File /\ n \in Imports(top.file)
    BY <1>1, <1>4, <1>5, <1>9, ImportShape DEF DefFiles, Imports
  <2>3. /\ Len(stack') = Len(stack) + 1 /\ stack'[Len(stack) + 1].file = n
        /\ stack'[Len(stack) + 1].next = 1
        /\ \A i \in 1..Len(stack) : stack'[i] = st[i] /\ stack'[i].file = stack[i].file
    BY <1>2, <1>6, <2>1, <2>2, PushShape
  <2>4. OrderedIsUnderWay'
    <3>1. \A f : OnStack(f) => OnStack(f)'
      BY <1>2, <2>3 DEF OnStack
    <3>2. OnStack(n)'
      BY <1>2, <2>3 DEF OnStack
    <3>3. QED
      BY <1>1, <2>1, <3>1, <3>2 DEF OrderInv, OrderedIsUnderWay
  <2>5. WithinList'
    <3>1. \A i \in 1..Len(stack) : stack[i].file \in DefFiles
      BY DEF OrderInv, WithinList
    <3>2. \A i \in 1..Len(stack') : stack'[i].file \in DefFiles
      BY <1>2, <2>2, <2>3, <3>1
    <3>3. QED
      BY <1>1, <3>2, ImportsStay DEF OrderInv, WithinList
  <2>6. PastIsOrdered'
    BY <1>1, <1>2, <1>7, <2>1, <2>3, ImportsStay DEF PastIsOrdered
  <2>7. StackIsAPath'
    <3>1. \A i \in 1..Len(stack) : Reaches(stack[i].file, top.file)
      BY <1>2 DEF OrderInv, StackIsAPath
    <3>2. top.file \in DefFiles
      BY <1>2 DEF OrderInv, WithinList
    <3>3. \A i \in 1..Len(stack) : Reaches(stack[i].file, n)
      BY <2>2, <3>1, <3>2, ReachesShape
    <3>4. Reaches(n, n)
      BY <2>2, ReachesShape
    <3>5. \A i, j \in 1..Len(stack) : i <= j => Reaches(stack[i].file, stack[j].file)
      BY DEF OrderInv, StackIsAPath
    <3>6. \A i, j \in 1..Len(stack') : i <= j => Reaches(stack'[i].file, stack'[j].file)
      BY <1>2, <2>3, <3>3, <3>4, <3>5
    <3>7. QED
      BY <1>1, <3>6, ImportsStay DEF StackIsAPath
  <2>8. Progress'
    BY <1>1, <2>1 DEF OrderInv, Progress
  <2>9. QED
    BY <1>3, <2>4, <2>5, <2>6, <2>7, <2>8 DEF OrderInv
<1>10. QED
  BY <1>8, <1>9

\* Order's end: what is not tied is reported, the file is tied, Order returns.
LEMMA OrderTieKeepsOrder ==
  ASSUME TypeInv, OrderInv, OrderTie
  PROVE  OrderInv'
<1>1. /\ UNCHANGED <<list, inp, phase, scan, cursor, ordered>> /\ phase = "order"
      /\ stack # <<>> /\ list \in Seq(File) /\ nodes \in Seq(File)
      /\ stack \in Seq(Frame) /\ TypeOK /\ errs \in Nat
  BY DEF TypeInv, TypeOK, OrderTie, Frame
<1>2. /\ Len(stack) \in Nat \ {0} /\ top \in Frame /\ top = stack[Len(stack)]
  BY <1>1, AdvancedShape
<1>3. PICK x \in File : x = top.file
  BY <1>2 DEF Frame
<1>4. PICK late : late = {n \in Imports(x) : n \notin tied}
  OBVIOUS
<1>5. /\ reports' = reports \cup {<<x, n>> : n \in late}
      /\ errs' = errs + Cardinality({n \in late : ~(x.mode = "oberon" /\ n.mode = "oberon")})
      /\ nodes' = Added(nodes, x) /\ stack' = Front(stack)
      /\ top.next > Len(inp[x])
  BY <1>3, <1>4 DEF OrderTie
<1>6. /\ Len(stack') = Len(stack) - 1
      /\ \A i \in 1..Len(stack) - 1 : stack'[i] = stack[i]
  BY <1>1, <1>5, FrontShape
<1>7. /\ tied' = tied \cup {x}
      /\ \A y, z : Before(y, z) => Before(y, z)'
      /\ x \notin tied => \A y \in tied : Before(y, x)'
      /\ IsInjective(nodes) => IsInjective(nodes)'
  BY <1>1, <1>5, TiedNext
<1>8. x \in DefFiles /\ x \in ToSet(list)
  BY <1>2, <1>3 DEF OrderInv, WithinList, DefFiles
<1>9. OrderedIsUnderWay'
  <2>1. ASSUME NEW f \in ordered, f # x, f \notin tied PROVE OnStack(f)'
    <3>1. PICK i \in 1..Len(stack) : stack[i].file = f
      BY <2>1 DEF OrderInv, OrderedIsUnderWay, OnStack
    <3>2. i # Len(stack)
      BY <1>2, <1>3, <2>1, <3>1
    <3>3. i \in 1..Len(stack') /\ stack'[i].file = f
      BY <1>2, <1>6, <3>1, <3>2
    <3>4. QED
      BY <3>3 DEF OnStack
  <2>2. QED
    BY <1>1, <1>7, <2>1 DEF OrderedIsUnderWay
<1>10. WithinList'
  <2>1. \A i \in 1..Len(stack') : stack'[i].file \in DefFiles
    BY <1>2, <1>6 DEF OrderInv, WithinList
  <2>2. tied' \subseteq ToSet(list)
    BY <1>7, <1>8 DEF OrderInv, WithinList
  <2>3. QED
    BY <1>1, <2>1, <2>2, ImportsStay DEF WithinList
<1>11. PastIsOrdered'
  <2>1. \A i \in 1..Len(stack') : i \in 1..Len(stack) /\ stack'[i] = stack[i]
    BY <1>2, <1>6
  <2>2. QED
    BY <1>1, <2>1, ImportsStay DEF OrderInv, PastIsOrdered
<1>12. LateIsReported'
  <2>1. ASSUME NEW z \in tied', NEW y \in Imports(z)
        PROVE  Before(y, z)' \/ <<z, y>> \in reports'
    <3>1. CASE z \in tied
      BY <1>5, <1>7, <2>1, <3>1 DEF OrderInv, LateIsReported
    <3>2. CASE z \notin tied
      <4>1. z = x
        BY <1>7, <2>1, <3>2
      <4>2. CASE y \in tied
        BY <1>7, <3>2, <4>1, <4>2
      <4>3. CASE y \notin tied
        BY <1>4, <1>5, <2>1, <4>1, <4>3
      <4>4. QED
        BY <4>2, <4>3
    <3>3. QED
      BY <3>1, <3>2
  <2>2. QED
    BY <1>1, <2>1, ImportsStay DEF LateIsReported
<1>13. ErrorsTell'
  <2>1. PICK c : c = Cardinality({n \in late : ~(x.mode = "oberon" /\ n.mode = "oberon")})
    OBVIOUS
  <2>2. c \in Nat /\ (c = 0 => \A n \in late : x.mode = "oberon" /\ n.mode = "oberon")
    BY <1>1, <1>4, <2>1, LateShape
  <2>3. errs' = 0 => errs = 0 /\ c = 0
    BY <1>1, <1>5, <2>1, <2>2
  <2>4. ASSUME errs' = 0, NEW r \in reports' PROVE r[1].mode = "oberon" /\ r[2].mode = "oberon"
    <3>1. CASE r \in reports
      BY <2>3, <2>4, <3>1 DEF OrderInv, ErrorsTell
    <3>2. CASE r \notin reports
      <4>1. PICK n \in late : r = <<x, n>>
        BY <1>5, <2>4, <3>2
      <4>2. QED
        BY <2>2, <2>3, <2>4, <4>1
    <3>3. QED
      BY <3>1, <3>2
  <2>5. QED
    BY <2>4 DEF ErrorsTell
<1>14. StackIsAPath'
  <2>1. \A i \in 1..Len(stack') : i \in 1..Len(stack) /\ stack'[i] = stack[i]
    BY <1>2, <1>6
  <2>2. QED
    BY <1>1, <2>1, ImportsStay DEF OrderInv, StackIsAPath
<1>15. CyclesAreReal'
  <2>1. ASSUME NEW n \in late PROVE n \in Imports(x) /\ Reaches(n, x)
    <3>1. n \in Imports(x) /\ n \notin tied
      BY <1>4, <2>1
    <3>2. PICK k \in 1..Len(inp[x]) : n = Import(x, k) /\ n # None
      BY <3>1 DEF Imports
    <3>3. inp[x] \in Seq(Names) /\ top.next \in Nat
      BY <1>1, <1>2 DEF TypeOK, Frame
    <3>4. k < top.next
      BY <1>5, <3>2, <3>3
    <3>5. n \in ordered
      BY <1>2, <1>3, <3>2, <3>4 DEF OrderInv, PastIsOrdered
    <3>6. PICK i \in 1..Len(stack) : stack[i].file = n
      BY <3>1, <3>5 DEF OrderInv, OrderedIsUnderWay, OnStack
    <3>7. Reaches(n, x)
      BY <1>2, <1>3, <3>6 DEF OrderInv, StackIsAPath
    <3>8. QED
      BY <3>1, <3>7
  <2>2. ASSUME NEW r \in reports' PROVE r[2] \in Imports(r[1]) /\ Reaches(r[2], r[1])
    <3>1. CASE r \in reports
      BY <3>1 DEF OrderInv, CyclesAreReal
    <3>2. CASE r \notin reports
      <4>1. PICK n \in late : r = <<x, n>>
        BY <1>5, <2>2, <3>2
      <4>2. r[1] = x /\ r[2] = n
        BY <4>1
      <4>3. QED
        BY <2>1, <4>2
    <3>3. QED
      BY <3>1, <3>2
  <2>3. QED
    BY <1>1, <2>2, ImportsStay DEF CyclesAreReal
<1>16. Progress'
  BY <1>1 DEF OrderInv, Progress
<1>17. QED
  BY <1>7, <1>9, <1>10, <1>11, <1>12, <1>13, <1>14, <1>15, <1>16 DEF OrderInv

LEMMA EndOrderKeepsOrder ==
  ASSUME TypeInv, OrderInv, EndOrder
  PROVE  OrderInv'
<1>1. /\ UNCHANGED <<list, inp, scan, ordered, stack, nodes, reports, errs>>
      /\ phase = "order" /\ phase' = "tie" /\ cursor' = 1 /\ stack = <<>> /\ tied' = tied
      /\ cursor > Len(list) /\ list \in Seq(File) /\ cursor \in Nat
  BY DEF EndOrder, TypeInv, TypeOK, tied
<1>2. \A y, x : Before(y, x)' <=> Before(y, x)
  BY <1>1 DEF Before
<1>3. /\ OrderedIsUnderWay' /\ WithinList' /\ PastIsOrdered' /\ LateIsReported' /\ ErrorsTell'
      /\ StackIsAPath' /\ CyclesAreReal' /\ IsInjective(nodes)'
  BY <1>1, <1>2, ImportsStay
  DEF OrderInv, OrderedIsUnderWay, OnStack, WithinList, PastIsOrdered, LateIsReported,
      ErrorsTell, StackIsAPath, CyclesAreReal
<1>4. DefFiles \subseteq tied
  <2>1. ASSUME NEW f \in DefFiles PROVE f \in tied
    <3>1. f \in ToSet(list) /\ f.mode \in DEFs
      BY DEF DefFiles
    <3>2. PICK i \in 1..Len(list) : list[i] = f
      BY <1>1, <3>1, ToSetMember
    <3>3. i < cursor
      BY <1>1
    <3>4. f \in ordered
      BY <1>1, <3>1, <3>2, <3>3 DEF OrderInv, Progress
    <3>5. ~OnStack(f)
      BY <1>1 DEF OnStack
    <3>6. QED
      BY <3>4, <3>5 DEF OrderInv, OrderedIsUnderWay
  <2>2. QED
    BY <2>1
<1>5. Progress'
  BY <1>1, <1>4, ImportsStay DEF OrderInv, Progress
<1>6. QED
  BY <1>3, <1>5 DEF OrderInv

\* Regulate's last loop: the rest follows, its imports are tied already.
LEMMA TieKeepsOrder ==
  ASSUME TypeInv, OrderInv, Tie
  PROVE  OrderInv'
<1>1. /\ UNCHANGED <<list, inp, scan, ordered, stack, reports>> /\ phase = "tie"
      /\ stack = <<>> /\ list \in Seq(File) /\ nodes \in Seq(File) /\ cursor \in Nat \ {0}
      /\ DefFiles \subseteq tied /\ Len(stack) = 0 /\ Len(list) \in Nat /\ errs \in Nat
  BY DEF Tie, TypeInv, TypeOK, OrderInv, Progress
<1>2. PastIsOrdered' /\ StackIsAPath' /\ CyclesAreReal'
  BY <1>1, ImportsStay DEF OrderInv, PastIsOrdered, StackIsAPath, CyclesAreReal
<1>3. CASE cursor <= Len(list)
  <2>1. nodes' = Added(nodes, list[cursor]) /\ cursor' = cursor + 1 /\ phase' = phase /\ errs' = errs
    BY <1>3 DEF Tie
  <2>2. PICK x \in File : x = list[cursor] /\ x \in ToSet(list)
    BY <1>1, <1>3, ToSetMember
  <2>3. /\ tied' = tied \cup {x}
        /\ \A y, z : Before(y, z) => Before(y, z)'
        /\ x \notin tied => \A y \in tied : Before(y, x)'
        /\ IsInjective(nodes) => IsInjective(nodes)'
    BY <1>1, <2>1, <2>2, TiedNext
  <2>4. OrderedIsUnderWay' /\ ErrorsTell'
    BY <1>1, <2>1, <2>3 DEF OrderInv, OrderedIsUnderWay, OnStack, ErrorsTell
  <2>5. WithinList'
    BY <1>1, <2>2, <2>3, ImportsStay DEF OrderInv, WithinList
  <2>6. LateIsReported'
    <3>1. Imports(x) \subseteq tied
      BY <1>1, ImportsAreDefFiles
    <3>2. ASSUME NEW z \in tied', NEW y \in Imports(z)
          PROVE  Before(y, z)' \/ <<z, y>> \in reports'
      <4>1. CASE z \in tied
        BY <1>1, <2>3, <3>2, <4>1 DEF OrderInv, LateIsReported
      <4>2. CASE z \notin tied
        BY <2>3, <3>1, <3>2, <4>2
      <4>3. QED
        BY <4>1, <4>2
    <3>3. QED
      BY <1>1, <3>2, ImportsStay DEF LateIsReported
  <2>7. Progress'
    BY <1>1, <2>1, <2>2, <2>3, ImportsStay DEF OrderInv, Progress
  <2>8. QED
    BY <1>2, <2>3, <2>4, <2>5, <2>6, <2>7 DEF OrderInv
<1>4. CASE ~(cursor <= Len(list))
  <2>1. phase' = "done" /\ errs' = errs + OneIf(nodes = <<>>) /\ UNCHANGED <<nodes, cursor>> /\ tied' = tied
    BY <1>4 DEF Tie, tied
  <2>2. OneIf(nodes = <<>>) \in Nat
    BY DEF OneIf
  <2>3. errs' = 0 => errs = 0
    BY <1>1, <2>1, <2>2
  <2>4. \A y, x : Before(y, x)' <=> Before(y, x)
    BY <2>1 DEF Before
  <2>5. OrderedIsUnderWay' /\ WithinList' /\ LateIsReported' /\ ErrorsTell' /\ IsInjective(nodes)'
    BY <1>1, <2>1, <2>3, <2>4, ImportsStay
    DEF OrderInv, OrderedIsUnderWay, OnStack, WithinList, LateIsReported, ErrorsTell
  <2>6. tied = ToSet(list)
    <3>1. ASSUME NEW f \in ToSet(list) PROVE f \in tied
      <4>1. PICK i \in 1..Len(list) : list[i] = f
        BY <1>1, ToSetMember
      <4>2. i < cursor
        BY <1>1, <1>4
      <4>3. QED
        BY <1>1, <4>1, <4>2 DEF OrderInv, Progress
    <3>2. QED
      BY <3>1 DEF OrderInv, WithinList
  <2>7. Progress'
    BY <1>1, <2>1, <2>6 DEF OrderInv, Progress
  <2>8. QED
    BY <1>2, <2>5, <2>7 DEF OrderInv
<1>5. QED
  BY <1>3, <1>4

LEMMA OrderInitially ==
  ASSUME Init
  PROVE  OrderInv
<1>1. Len(stack) = 0 /\ Len(nodes) = 0 /\ tied = {} /\ IsInjective(nodes)
  BY DEF Init, tied, ToSet, IsInjective
<1>2. OrderedIsUnderWay /\ WithinList /\ PastIsOrdered /\ LateIsReported /\ ErrorsTell
  BY <1>1 DEF Init, OrderedIsUnderWay, WithinList, PastIsOrdered, LateIsReported, ErrorsTell
<1>3. StackIsAPath /\ CyclesAreReal /\ Progress
  BY <1>1 DEF Init, StackIsAPath, CyclesAreReal, Progress
<1>4. QED
  BY <1>1, <1>2, <1>3 DEF OrderInv

LEMMA OrderKept ==
  ASSUME TypeInv, OrderInv, [Next]_vars
  PROVE  OrderInv'
<1>1. CASE UNCHANGED vars
  <2>1. UNCHANGED <<list, inp, scan, ordered, stack, nodes, reports, errs, phase, cursor>> /\ tied' = tied
    BY <1>1 DEF vars, tied
  <2>2. \A y, x : Before(y, x)' <=> Before(y, x)
    BY <2>1 DEF Before
  <2>3. /\ OrderedIsUnderWay' /\ WithinList' /\ PastIsOrdered' /\ LateIsReported' /\ ErrorsTell'
        /\ StackIsAPath' /\ CyclesAreReal' /\ IsInjective(nodes)'
    BY <2>1, <2>2, ImportsStay
    DEF OrderInv, OrderedIsUnderWay, OnStack, WithinList, PastIsOrdered, LateIsReported,
        ErrorsTell, StackIsAPath, CyclesAreReal
  <2>4. Progress'
    BY <2>1, ImportsStay DEF OrderInv, Progress
  <2>5. QED
    BY <2>3, <2>4 DEF OrderInv
<1>2. CASE Reading
  BY <1>2, ReadingKeepsOrder
<1>3. Next => Reading \/ OrderNext \/ OrderImport \/ OrderTie \/ EndOrder \/ Tie
  BY DEF Next, Work, Reading
<1>4. QED
  BY <1>1, <1>2, <1>3, OrderNextKeepsOrder, OrderImportKeepsOrder, OrderTieKeepsOrder,
     EndOrderKeepsOrder, TieKeepsOrder

LEMMA OrderAlways == Spec => []OrderInv
<1>1. QED
  BY OrderInitially, OrderKept, TypesAlways, PTL DEF Spec

-----------------------------------------------------------------------------
(* The invariant of scanning *)

\* The node x has the name, the kind and the imports of a correct heading.
FileAgrees(x) ==
  \E s \in Source : /\ Exists(s) /\ text[s].ok /\ text[s].module = x.name
                    /\ x.mode = ModeOf(s, FALSE)
                    /\ ToSet(inp[x]) = ToSet(Clauses(s))

\* What has been heard of the clauses is what has been collected.
HeardIsCollected ==
  scan # None =>
    \A n : n \in ToSet(scan.names)
           <=> \E i \in 1..Len(Clauses(scan.source)) : i < scan.next /\ Clauses(scan.source)[i] = n

HeadingInv ==
  /\ HeardIsCollected
  /\ errs = 0 => \A x \in ToSet(list) : x.mode \in DEPs => FileAgrees(x)

\* The scanner is opened on a source that exists.
ScanBegins == \E s \in Source, n \in Names, imp \in BOOLEAN : Exists(s) /\ Scan(s, n, imp)

\* Only the scanner changes the list and the imports, and no step mends an error.
LEMMA OtherSteps ==
  ASSUME TypeInv, [Next]_vars, ~ScanImport, ~ScanEnd
  PROVE  /\ UNCHANGED <<text, list, inp>>
         /\ errs' = 0 => errs = 0
         /\ scan' = scan \/ ScanBegins
<1>0. errs \in Nat /\ TypeOK /\ \A b : OneIf(b) \in Nat
  BY DEF TypeInv, TypeOK, OneIf
<1>1. ASSUME NEW s \in Source \cup {None}, NEW e \in Nat, PreScan(s, e)
      PROVE  /\ errs' = 0 => errs = 0
             /\ scan' = scan \/ ScanBegins
  <2>1. CASE s # None /\ Exists(s) /\ Scan(s, text[s].module, FALSE) /\ errs' = errs + e
    <3>1. text[s].module \in Names /\ s \in Source
      BY <1>0, <2>1, HeadingShape
    <3>2. ScanBegins
      BY <2>1, <3>1, Zenon DEF ScanBegins
    <3>3. QED
      BY <1>0, <2>1, <3>2
  <2>2. CASE errs' = errs + e + 1 /\ UNCHANGED scan
    BY <1>0, <2>2
  <2>3. QED
    BY <1>1, <2>1, <2>2 DEF PreScan
<1>2. ASSUME NEW n \in Names, AppendName(n)
      PROVE  /\ UNCHANGED <<text, list, inp>>
             /\ errs' = 0 => errs = 0
             /\ scan' = scan \/ ScanBegins
  <2>1. (IF AnyDef(n) # None THEN AnyDef(n) ELSE AnyImp(n)) \in Source \cup {None}
    BY SourcesFound
  <2>2. PreScan(IF AnyDef(n) # None THEN AnyDef(n) ELSE AnyImp(n), OneIf(TwoDefs(n)))
        /\ UNCHANGED <<text, list, inp>>
    BY <1>2 DEF AppendName, Argument
  <2>3. QED
    BY <1>0, <1>1, <2>1, <2>2
<1>3. ASSUME NEW s \in Source, AppendFile(s)
      PROVE  /\ UNCHANGED <<text, list, inp>>
             /\ errs' = 0 => errs = 0
             /\ scan' = scan \/ ScanBegins
  <2>1. PreScan(s, 0) /\ UNCHANGED <<text, list, inp>>
    BY <1>3 DEF AppendFile, Argument
  <2>2. QED
    BY <1>1, <2>1
<1>4. CASE Parse
  <2>1. list[cursor] \in File
    BY <1>4 DEF Parse, TypeInv, TypeOK
  <2>2. PICK n \in Names : n = list[cursor].name
    BY <2>1 DEF File
  <2>3. /\ UNCHANGED <<text, list, inp>>
        /\ ParseDef(n) \/ ParseImp(n) \/ UNCHANGED <<scan, half, errs>>
    BY <1>4, <2>2 DEF Parse
  <2>4. CASE ParseDef(n)
    <3>1. errs' = errs \/ errs' = errs + OneIf(TwoDefs(n))
      BY <2>4 DEF ParseDef
    <3>2. UNCHANGED scan \/ (AnyDef(n) # None /\ Scan(AnyDef(n), n, FALSE))
      BY <2>4 DEF ParseDef
    <3>3. errs' = 0 => errs = 0
      BY <1>0, <3>1
    <3>4. AnyDef(n) # None => (AnyDef(n) \in Source /\ Exists(AnyDef(n)))
      BY SourcesFound
    <3>5. UNCHANGED scan \/ ScanBegins
      BY <3>2, <3>4 DEF ScanBegins
    <3>6. QED
      BY <2>3, <3>3, <3>5
  <2>5. CASE ParseImp(n)
    <3>1. errs' = errs \/ errs' = errs + OneIf(TwoImps(n))
      BY <2>5 DEF ParseImp
    <3>2. UNCHANGED scan \/ (AnyImp(n) # None /\ Scan(AnyImp(n), n, TRUE))
      BY <2>5 DEF ParseImp
    <3>3. errs' = 0 => errs = 0
      BY <1>0, <3>1
    <3>4. AnyImp(n) # None => (AnyImp(n) \in Source /\ Exists(AnyImp(n)))
      BY SourcesFound
    <3>5. UNCHANGED scan \/ ScanBegins
      BY <3>2, <3>4 DEF ScanBegins
    <3>6. QED
      BY <2>3, <3>3, <3>5
  <2>6. QED
    BY <2>3, <2>4, <2>5
<1>5. CASE OrderTie
  <2>1. PICK x \in File : x = top.file
    BY <1>0, <1>5, AdvancedShape DEF Frame, OrderTie
  <2>2. PICK late : late = {n \in Imports(x) : n \notin tied}
    OBVIOUS
  <2>3. Cardinality({n \in late : ~(x.mode = "oberon" /\ n.mode = "oberon")}) \in Nat
    BY <1>0, <2>2, LateShape
  <2>4. errs' = errs + Cardinality({n \in late : ~(x.mode = "oberon" /\ n.mode = "oberon")})
    BY <1>5, <2>1, <2>2 DEF OrderTie
  <2>5. errs' = 0 => errs = 0
    BY <1>0, <2>3, <2>4
  <2>6. QED
    BY <1>5, <2>5 DEF OrderTie
<1>6. CASE Tie
  <2>1. errs' = errs \/ errs' = errs + OneIf(nodes = <<>>)
    BY <1>6 DEF Tie
  <2>2. errs' = 0 => errs = 0
    BY <1>0, <2>1
  <2>3. QED
    BY <1>6, <2>2 DEF Tie
<1>7. CASE Start \/ EndClosure \/ OrderNext \/ OrderImport \/ EndOrder \/ UNCHANGED vars
  BY <1>7 DEF Start, EndClosure, OrderNext, OrderImport, EndOrder, vars
<1>8. QED
  BY <1>2, <1>3, <1>4, <1>5, <1>6, <1>7 DEF Next, Work

LEMMA HeadingInitially ==
  ASSUME Init
  PROVE  HeadingInv
BY DEF Init, HeadingInv, HeardIsCollected, ToSet

LEMMA HeadingKept ==
  ASSUME TypeInv, HeadingInv, [Next]_vars
  PROVE  HeadingInv'
<1>1. CASE ~ScanImport /\ ~ScanEnd
  <2>1. /\ UNCHANGED <<text, list, inp>>
        /\ errs' = 0 => errs = 0
        /\ scan' = scan \/ ScanBegins
    BY <1>1, OtherSteps
  <2>2. \A s, n, imp : Clauses(s)' = Clauses(s) /\ ModeOf(s, imp)' = ModeOf(s, imp)
                       /\ (Exists(s)' <=> Exists(s))
    BY <2>1 DEF Clauses, ModeOf, Exists
  <2>3. \A x : FileAgrees(x)' <=> FileAgrees(x)
    BY <2>1, <2>2 DEF FileAgrees
  <2>4. HeardIsCollected'
    <3>1. CASE scan' = scan
      BY <2>2, <3>1 DEF HeadingInv, HeardIsCollected
    <3>2. CASE ScanBegins
      <4>1. scan'.next = 1 /\ scan'.names = <<>>
        BY <3>2 DEF ScanBegins, Scan
      <4>2. ToSet(scan'.names) = {}
        BY <4>1 DEF ToSet
      <4>3. QED
        BY <4>1, <4>2 DEF HeardIsCollected
    <3>3. QED
      BY <2>1, <3>1, <3>2
  <2>5. QED
    BY <2>1, <2>3, <2>4 DEF HeadingInv
<1>2. CASE ScanImport
  <2>1. scan \in Scanning /\ Exists(scan.source) /\ scan.source \in Source
        /\ scan.next \in Nat \ {0} /\ scan.names \in Seq(Names) /\ scan # None
        /\ scan.next <= Len(Clauses(scan.source)) /\ list \in Seq(File)
    BY <1>2 DEF TypeInv, TypeOK, ScanImport, Idle, Scanning, ScanIsOpen
  <2>2. PICK cs : cs = Clauses(scan.source)
    OBVIOUS
  <2>3. cs \in Seq(Names)
    BY <2>1, <2>2, HeadingShape DEF TypeInv
  <2>4. PICK n : n = cs[scan.next]
    OBVIOUS
  <2>5. n \in Names /\ scan.next \in 1..Len(cs)
    BY <2>1, <2>2, <2>3, <2>4
  <2>6. /\ scan' = [scan EXCEPT !.next = @ + 1, !.names = Added(@, n)]
        /\ list' = Added(list, SymOf(n)) /\ UNCHANGED <<text, inp, errs>>
    BY <1>2, <2>2, <2>4 DEF ScanImport
  <2>7. scan'.source = scan.source /\ scan'.next = scan.next + 1 /\ scan'.names = Added(scan.names, n)
    BY <2>1, <2>6 DEF Scanning
  <2>8. ToSet(scan'.names) = ToSet(scan.names) \cup {n}
    BY <2>1, <2>5, <2>7, AddedNames
  <2>9. Clauses(scan.source)' = cs
    BY <2>2, <2>6, <2>7 DEF Clauses
  <2>10. \A m : m \in ToSet(scan.names) <=> \E i \in 1..Len(cs) : i < scan.next /\ cs[i] = m
    BY <2>1, <2>2 DEF HeadingInv, HeardIsCollected
  <2>11. \A m : m \in ToSet(scan'.names) <=> \E i \in 1..Len(cs) : i < scan.next + 1 /\ cs[i] = m
    <3>1. Len(cs) \in Nat
      BY <2>3
    <3>2. QED
      BY <2>1, <2>4, <2>5, <2>8, <2>10, <3>1
  <2>12. HeardIsCollected'
    <3>1. \A m : (m \in ToSet(scan.names))'
                   <=> \E i \in 1..Len(cs) : i < (scan.next)' /\ cs[i] = m
      BY <2>7, <2>11
    <3>2. QED
      BY <2>9, <3>1 DEF HeardIsCollected
  <2>13. \A x : FileAgrees(x)' <=> FileAgrees(x)
    BY <2>6 DEF FileAgrees, Exists, ModeOf, Clauses
  <2>14. ToSet(list') = ToSet(list) \cup {SymOf(n)} /\ SymOf(n).mode \notin DEPs
    BY <2>1, <2>5, <2>6, AddedShape, ProductsAreFiles DEF DEPs
  <2>15. QED
    BY <2>6, <2>12, <2>13, <2>14 DEF HeadingInv
<1>3. CASE ScanEnd
  <2>1. scan \in Scanning /\ Exists(scan.source) /\ scan.source \in Source
        /\ scan.name \in Names /\ scan.names \in Seq(Names) /\ scan # None
        /\ scan.next \in Nat \ {0} /\ scan.next > Len(Clauses(scan.source))
        /\ list \in Seq(File) /\ inp \in [File -> Seq(Names)] /\ errs \in Nat
    BY <1>3 DEF TypeInv, TypeOK, ScanEnd, Idle, Scanning, ScanIsOpen
  <2>2. PICK s : s = scan.source
    OBVIOUS
  <2>3. PICK x : x = [name |-> scan.name, mode |-> ModeOf(s, scan.imp)]
    OBVIOUS
  <2>4. x \in File
    BY <2>1, <2>2, <2>3, HeadingShape DEF TypeInv, File, Modes
  <2>5. /\ list' = Include(list, x) /\ inp' = [inp EXCEPT ![x] = scan.names] /\ scan' = None
        /\ errs' = errs + ScanErrors(s, scan.name, scan.imp) /\ text' = text
    BY <1>3, <2>2, <2>3 DEF ScanEnd
  <2>6. HeardIsCollected'
    BY <2>5 DEF HeardIsCollected
  <2>7. SUFFICES ASSUME errs' = 0, NEW y \in ToSet(list'), y.mode \in DEPs
                 PROVE  FileAgrees(y)'
    BY <2>6 DEF HeadingInv
  <2>8. ScanErrors(s, scan.name, scan.imp) \in Nat
    BY <2>1, <2>2, HeadingShape DEF TypeInv
  <2>9. errs = 0 /\ ScanErrors(s, scan.name, scan.imp) = 0
    BY <2>1, <2>5, <2>7, <2>8
  <2>10. y \in ToSet(list) \/ y = x
    <3>1. y \in ToSet(list) \cup {x} \/ y.mode \in {"sym", "code"}
      BY <2>1, <2>4, <2>5, <2>7, IncludeShape
    <3>2. QED
      BY <2>7, <3>1 DEF DEPs
  <2>11. \A q, imp : Clauses(q)' = Clauses(q) /\ ModeOf(q, imp)' = ModeOf(q, imp)
                     /\ (Exists(q)' <=> Exists(q))
    BY <2>5 DEF Clauses, ModeOf, Exists
  <2>12. CASE y = x
    <3>1. scan.name = text[s].module /\ text[s].ok
          /\ ~(s.ext = "mod" /\ text[s].program /\ scan.imp)
      BY <2>9 DEF ScanErrors, OneIf
    <3>2. ModeOf(s, scan.imp) = ModeOf(s, FALSE)
      BY <3>1 DEF ModeOf
    <3>3. ToSet(scan.names) = ToSet(Clauses(s))
      <4>1. Clauses(s) \in Seq(Names)
        BY <2>1, <2>2, HeadingShape DEF TypeInv
      <4>2. \A n : n \in ToSet(scan.names) <=> \E i \in 1..Len(Clauses(s)) : Clauses(s)[i] = n
        BY <2>1, <2>2, <4>1 DEF HeadingInv, HeardIsCollected
      <4>3. \A n : n \in ToSet(Clauses(s)) <=> \E i \in 1..Len(Clauses(s)) : Clauses(s)[i] = n
        BY <4>1, ToSetMember
      <4>4. QED
        BY <4>2, <4>3
    <3>4. inp'[x] = scan.names
      BY <2>1, <2>4, <2>5
    <3>5. x.name = text'[s].module /\ x.mode = ModeOf(s, FALSE)'
      BY <2>3, <2>5, <2>11, <3>1, <3>2
    <3>6. Exists(s)' /\ text'[s].ok /\ ToSet(inp'[x]) = ToSet(Clauses(s)') /\ s \in Source
      BY <2>1, <2>2, <2>5, <2>11, <3>1, <3>3, <3>4
    <3>7. QED
      BY <2>12, <3>5, <3>6 DEF FileAgrees
  <2>13. CASE y # x
    <3>1. FileAgrees(y)
      BY <2>7, <2>9, <2>10, <2>13 DEF HeadingInv
    <3>2. y \in File
      <4>1. PICK i \in 1..Len(list) : list[i] = y
        BY <2>1, <2>10, <2>13, ToSetMember
      <4>2. QED
        BY <2>1, <4>1
    <3>3. inp'[y] = inp[y]
      BY <2>1, <2>5, <2>13, <3>2
    <3>4. QED
      BY <2>5, <2>11, <3>1, <3>3 DEF FileAgrees
  <2>14. QED
    BY <2>12, <2>13
<1>4. QED
  BY <1>1, <1>2, <1>3

LEMMA HeadingAlways == Spec => []HeadingInv
<1>1. QED
  BY HeadingInitially, HeadingKept, TypesAlways, PTL DEF Spec

-----------------------------------------------------------------------------
(* The invariant of MakeClosure *)

DefLocated(n) == Exists(At(n, "def")) \/ Exists(At(n, "ob2")) => ChkFile(n, DEFs)
ImpLocated(n) == Exists(At(n, "mod")) \/ Exists(At(n, "ob2")) => ChkFile(n, IMPs)

\* The scanner is on its way to a node n of one of the modes md.
Coming(n, md) == scan # None /\ scan.name = n /\ ModeOf(scan.source, scan.imp) \in md

\* Every imported name has its symbol file in the list.
ImportsAreListed ==
  /\ \A x \in File : \A n \in ToSet(inp[x]) : SymOf(n) \in ToSet(list)
  /\ scan # None => \A n \in ToSet(scan.names) : SymOf(n) \in ToSet(list)

\* Where the loop over the growing list stands.
CursorInv ==
  /\ phase = "append" => cursor = 1 /\ half = "def"
  /\ phase = "closure" => /\ cursor <= Len(list) + 1
                          /\ half = "imp" => cursor <= Len(list) /\ list[cursor].mode = "sym"

\* What the loop is past has been looked for.
PastIsLocated ==
  phase = "closure" =>
    \A i \in 1..Len(list) : list[i].mode = "sym" =>
      /\ i < cursor \/ (i = cursor /\ half = "imp")
           => DefLocated(list[i].name) \/ Coming(list[i].name, DEFs)
      /\ i < cursor => ImpLocated(list[i].name) \/ Coming(list[i].name, IMPs)

AllLocated ==
  phase \in {"order", "tie"} \/ Ready =>
    \A n \in Names : SymOf(n) \in ToSet(list) => DefLocated(n) /\ ImpLocated(n)

ClosureInv == ImportsAreListed /\ CursorInv /\ PastIsLocated /\ AllLocated

\* When the list has grown, what was located still is.
LEMMA LocatedStays ==
  ASSUME list \in Seq(File), Grows(list, list'), text' = text
  PROVE  /\ \A n, md : ChkFile(n, md) => ChkFile(n, md)'
         /\ \A n : DefLocated(n) => DefLocated(n)'
         /\ \A n : ImpLocated(n) => ImpLocated(n)'
         /\ ToSet(list) \subseteq ToSet(list')
<1>1. /\ list' \in Seq(File) /\ Len(list) \in Nat /\ Len(list') \in Nat
      /\ Len(list) <= Len(list') /\ \A i \in 1..Len(list) : list'[i] = list[i]
  <2>1. list' \in Seq(File)
    BY DEF Grows
  <2>2. QED
    BY <2>1 DEF Grows
<1>2. ASSUME NEW n, NEW md, ChkFile(n, md) PROVE ChkFile(n, md)'
  <2>1. PICK i \in 1..Len(list) : list[i].name = n /\ list[i].mode \in md
    BY <1>2 DEF ChkFile
  <2>2. i \in 1..Len(list') /\ list'[i].name = n /\ list'[i].mode \in md
    BY <1>1, <2>1
  <2>3. QED
    BY <2>2 DEF ChkFile
<1>3. \A s : Exists(s)' <=> Exists(s)
  BY DEF Exists
<1>4. ASSUME NEW f \in ToSet(list) PROVE f \in ToSet(list')
  <2>1. PICK i \in 1..Len(list) : list[i] = f
    BY ToSetMember
  <2>2. i \in 1..Len(list') /\ list'[i] = f
    BY <1>1, <2>1
  <2>3. QED
    BY <1>1, <2>2, ToSetMember
<1>5. (\A n : DefLocated(n) => DefLocated(n)') /\ (\A n : ImpLocated(n) => ImpLocated(n)')
  BY <1>2, <1>3 DEF DefLocated, ImpLocated, At
<1>6. QED
  BY <1>2, <1>4, <1>5

LEMMA ClosureInitially ==
  ASSUME Init
  PROVE  ClosureInv
BY DEF Init, ClosureInv, ImportsAreListed, CursorInv, PastIsLocated, AllLocated, Ready, ToSet

\* The arguments: nothing is listed before it is scanned.
LEMMA AppendKeepsClosure ==
  ASSUME TypeInv, ClosureInv, [Next]_vars, phase = "append", phase' = "append",
         UNCHANGED <<cursor, half>>, ~ScanImport, ~ScanEnd
  PROVE  ClosureInv'
<1>1. UNCHANGED <<text, list, inp>> /\ (scan' = scan \/ ScanBegins)
  BY OtherSteps
<1>2. ImportsAreListed'
  <2>1. CASE scan' = scan
    BY <1>1, <2>1 DEF ClosureInv, ImportsAreListed
  <2>2. CASE ScanBegins
    <3>1. ToSet(scan'.names) = {}
      BY <2>2 DEF ScanBegins, Scan, ToSet
    <3>2. QED
      BY <1>1, <3>1 DEF ClosureInv, ImportsAreListed
  <2>3. QED
    BY <1>1, <2>1, <2>2
<1>3. QED
  BY <1>2 DEF ClosureInv, CursorInv, PastIsLocated, AllLocated, Ready

LEMMA ScanImportKeepsClosure ==
  ASSUME TypeInv, OrderInv, ClosureInv, ScanImport
  PROVE  ClosureInv'
<1>1. scan \in Scanning /\ Exists(scan.source) /\ scan.source \in Source
      /\ scan.next \in Nat \ {0} /\ scan.names \in Seq(Names) /\ scan # None
      /\ list \in Seq(File) /\ phase \in {"append", "closure"} /\ cursor \in Nat \ {0}
  BY DEF TypeInv, TypeOK, ScanImport, Idle, Scanning, ScanIsOpen, OrderInv, Progress
<1>2. PICK n : n = Clauses(scan.source)[scan.next]
  OBVIOUS
<1>3. n \in Names
  <2>1. Clauses(scan.source) \in Seq(Names)
    BY <1>1, HeadingShape DEF TypeInv
  <2>2. QED
    BY <1>1, <1>2, <2>1 DEF ScanImport
<1>4. /\ scan' = [scan EXCEPT !.next = @ + 1, !.names = Added(@, n)]
      /\ list' = Added(list, SymOf(n))
      /\ UNCHANGED <<text, inp, phase, cursor, half, errs>>
  BY <1>2 DEF ScanImport
<1>5. /\ scan'.source = scan.source /\ scan'.name = scan.name /\ scan'.imp = scan.imp
      /\ scan'.names = Added(scan.names, n) /\ scan' \in Scanning
  <2>1. Added(scan.names, n) \in Seq(Names)
    BY <1>1, <1>3, AddedNames
  <2>2. scan' = [source |-> scan.source, name |-> scan.name, imp |-> scan.imp,
                 next |-> scan.next + 1, names |-> Added(scan.names, n)]
    BY <1>1, <1>4 DEF Scanning
  <2>3. QED
    BY <1>1, <2>1, <2>2 DEF Scanning
<1>6. ToSet(scan'.names) = ToSet(scan.names) \cup {n}
  BY <1>1, <1>3, <1>5, AddedNames
<1>7. Grows(list, list') /\ ToSet(list') = ToSet(list) \cup {SymOf(n)}
  BY <1>1, <1>3, <1>4, AddedShape, ProductsAreFiles
<1>8. /\ Len(list) \in Nat /\ Len(list') \in Nat /\ Len(list) <= Len(list')
      /\ \A i \in 1..Len(list) : list'[i] = list[i]
  <2>1. list' \in Seq(File)
    BY <1>7 DEF Grows
  <2>2. QED
    BY <1>1, <1>7, <2>1 DEF Grows
<1>9. ImportsAreListed'
  BY <1>1, <1>4, <1>6, <1>7 DEF ClosureInv, ImportsAreListed
<1>10. CursorInv'
  BY <1>1, <1>4, <1>8 DEF ClosureInv, CursorInv
<1>11. PastIsLocated'
  <2>1. SUFFICES ASSUME phase = "closure", NEW i \in 1..Len(list'), list'[i].mode = "sym",
                        i < cursor \/ (i = cursor /\ half = "imp"),
                        NEW m, m = list'[i].name
                 PROVE  /\ DefLocated(m)' \/ Coming(m, DEFs)'
                        /\ i < cursor => ImpLocated(m)' \/ Coming(m, IMPs)'
    BY <1>4 DEF PastIsLocated
  <2>2. i \in 1..Len(list)
    BY <1>1, <1>8, <2>1 DEF ClosureInv, CursorInv
  <2>3. list'[i] = list[i]
    BY <1>8, <2>2
  <2>4. m = list[i].name /\ list[i].mode = "sym"
    BY <2>1, <2>3
  <2>5. /\ DefLocated(m) \/ Coming(m, DEFs)
        /\ i < cursor => ImpLocated(m) \/ Coming(m, IMPs)
    BY <2>1, <2>2, <2>3, <2>4 DEF ClosureInv, PastIsLocated
  <2>6. (DefLocated(m) => DefLocated(m)') /\ (ImpLocated(m) => ImpLocated(m)')
    BY <1>1, <1>4, <1>7, LocatedStays
  <2>7. (Coming(m, DEFs) => Coming(m, DEFs)') /\ (Coming(m, IMPs) => Coming(m, IMPs)')
    <3>1. scan' # None
      BY <1>5, NoneIsNone
    <3>2. QED
      BY <1>4, <1>5, <3>1 DEF Coming, ModeOf
  <2>8. QED
    BY <2>3, <2>4, <2>5, <2>6, <2>7
<1>12. AllLocated'
  BY <1>1, <1>4 DEF AllLocated, Ready
<1>13. QED
  BY <1>9, <1>10, <1>11, <1>12 DEF ClosureInv

LEMMA ScanEndKeepsClosure ==
  ASSUME TypeInv, OrderInv, ClosureInv, ScanEnd
  PROVE  ClosureInv'
<1>1. scan \in Scanning /\ Exists(scan.source) /\ scan.source \in Source
      /\ scan.name \in Names /\ scan.names \in Seq(Names) /\ scan # None
      /\ list \in Seq(File) /\ inp \in [File -> Seq(Names)]
      /\ phase \in {"append", "closure"} /\ cursor \in Nat \ {0}
  BY DEF TypeInv, TypeOK, ScanEnd, Idle, Scanning, ScanIsOpen, OrderInv, Progress
<1>2. PICK x : x = [name |-> scan.name, mode |-> ModeOf(scan.source, scan.imp)]
  OBVIOUS
<1>3. x \in File
  BY <1>1, <1>2, HeadingShape DEF TypeInv, File, Modes
<1>4. /\ list' = Include(list, x) /\ inp' = [inp EXCEPT ![x] = scan.names] /\ scan' = None
      /\ UNCHANGED <<text, phase, cursor, half>>
  BY <1>2 DEF ScanEnd
<1>5. Grows(list, list') /\ ToSet(list) \cup {x} \subseteq ToSet(list')
  BY <1>1, <1>3, <1>4, IncludeShape
<1>6. /\ Len(list) \in Nat /\ Len(list') \in Nat /\ Len(list) <= Len(list')
      /\ \A i \in 1..Len(list) : list'[i] = list[i]
      /\ list' \in Seq(File)
  <2>1. list' \in Seq(File)
    BY <1>5 DEF Grows
  <2>2. QED
    BY <1>1, <1>5, <2>1 DEF Grows
<1>7. ImportsAreListed'
  <2>1. \A y \in File : inp'[y] = IF y = x THEN scan.names ELSE inp[y]
    BY <1>1, <1>3, <1>4
  <2>2. \A y \in File : \A n \in ToSet(inp'[y]) : SymOf(n) \in ToSet(list')
    BY <1>1, <1>5, <2>1 DEF ClosureInv, ImportsAreListed
  <2>3. scan' = None
    BY <1>4
  <2>4. QED
    BY <2>2, <2>3 DEF ImportsAreListed
<1>8. CursorInv'
  <2>1. /\ phase = "append" => cursor = 1 /\ half = "def"
        /\ phase = "closure" => /\ cursor <= Len(list) + 1
                                /\ half = "imp" => cursor <= Len(list) /\ list[cursor].mode = "sym"
    BY DEF ClosureInv, CursorInv
  <2>2. cursor <= Len(list) => cursor <= Len(list') /\ list'[cursor] = list[cursor]
    BY <1>1, <1>6
  <2>3. cursor <= Len(list) + 1 => cursor <= Len(list') + 1
    BY <1>1, <1>6
  <2>4. QED
    BY <1>4, <2>1, <2>2, <2>3 DEF CursorInv
<1>9. PastIsLocated'
  <2>1. SUFFICES ASSUME phase = "closure", NEW i \in 1..Len(list'), list'[i].mode = "sym",
                        i < cursor \/ (i = cursor /\ half = "imp"),
                        NEW m, m = list'[i].name
                 PROVE  DefLocated(m)' /\ (i < cursor => ImpLocated(m)')
    BY <1>4 DEF PastIsLocated
  <2>2. i \in 1..Len(list)
    BY <1>1, <1>6, <2>1 DEF ClosureInv, CursorInv
  <2>3. m = list[i].name /\ list[i].mode = "sym"
    BY <1>6, <2>1, <2>2
  <2>4. /\ DefLocated(m) \/ Coming(m, DEFs)
        /\ i < cursor => ImpLocated(m) \/ Coming(m, IMPs)
    BY <2>1, <2>2, <2>3 DEF ClosureInv, PastIsLocated
  <2>5. (DefLocated(m) => DefLocated(m)') /\ (ImpLocated(m) => ImpLocated(m)')
    BY <1>1, <1>4, <1>5, LocatedStays
  <2>6. ASSUME NEW md, Coming(m, md) PROVE ChkFile(m, md)'
    <3>1. x.name = m /\ x.mode \in md
      BY <1>2, <2>6 DEF Coming
    <3>2. PICK j \in 1..Len(list') : list'[j] = x
      BY <1>5, <1>6, ToSetMember
    <3>3. QED
      BY <3>1, <3>2 DEF ChkFile
  <2>7. Coming(m, DEFs) => DefLocated(m)'
    <3>1. Coming(m, DEFs) => ChkFile(m, DEFs)'
      BY <2>6
    <3>2. QED
      BY <3>1 DEF DefLocated, DEFs
  <2>8. Coming(m, IMPs) => ImpLocated(m)'
    <3>1. Coming(m, IMPs) => ChkFile(m, IMPs)'
      BY <2>6
    <3>2. QED
      BY <3>1 DEF ImpLocated, IMPs
  <2>9. QED
    BY <2>4, <2>5, <2>7, <2>8
<1>10. AllLocated'
  BY <1>1, <1>4 DEF AllLocated, Ready
<1>11. QED
  BY <1>7, <1>8, <1>9, <1>10 DEF ClosureInv

\* The search for sources finds what there is, of the kind it looks for.
LEMMA SearchFinds ==
  ASSUME NEW n \in Names
  PROVE  /\ AnyDef(n) = None => ~Exists(At(n, "def")) /\ ~Exists(At(n, "ob2"))
         /\ AnyImp(n) = None => ~Exists(At(n, "mod")) /\ ~Exists(At(n, "ob2"))
         /\ AnyDef(n) # None => ModeOf(AnyDef(n), FALSE) \in DEFs
         /\ AnyImp(n) # None => ModeOf(AnyImp(n), TRUE) \in IMPs
<1>1. \A e \in Exts : At(n, e) \in Source /\ At(n, e).ext = e /\ At(n, e) # None
  BY NoneIsNone DEF At, Source
<1>2. /\ At(n, "ob2").ext = "ob2" /\ At(n, "ob2") # None
      /\ At(n, "def").ext = "def" /\ At(n, "def") # None
      /\ At(n, "mod").ext = "mod" /\ At(n, "mod") # None
  BY <1>1 DEF Exts
<1>3. AnyDef(n) = IF Exists(At(n, "ob2")) THEN At(n, "ob2")
                  ELSE IF Exists(At(n, "def")) THEN At(n, "def") ELSE None
  BY DEF AnyDef
<1>4. AnyImp(n) = IF Exists(At(n, "ob2")) THEN At(n, "ob2")
                  ELSE IF Exists(At(n, "mod")) THEN At(n, "mod") ELSE None
  BY DEF AnyImp
<1>5. /\ \A imp : ModeOf(At(n, "ob2"), imp) = "oberon" /\ ModeOf(At(n, "def"), imp) = "def"
      /\ ModeOf(At(n, "mod"), TRUE) = "mod"
  BY <1>2 DEF ModeOf
<1>6. QED
  BY <1>2, <1>3, <1>4, <1>5 DEF DEFs, IMPs

LEMMA ParseKeepsClosure ==
  ASSUME TypeInv, ClosureInv, Parse
  PROVE  ClosureInv'
<1>1. /\ phase = "closure" /\ scan = None /\ cursor <= Len(list) /\ cursor \in Nat \ {0}
      /\ UNCHANGED <<text, phase, list, inp>> /\ list \in Seq(File) /\ list[cursor] \in File
      /\ Len(list) \in Nat /\ half \in {"def", "imp"}
  BY DEF Parse, Idle, TypeInv, TypeOK
<1>2. PICK n \in Names : n = list[cursor].name
  BY <1>1 DEF File
<1>3. \A i \in 1..Len(list) : list[i].mode = "sym" =>
        /\ i < cursor \/ (i = cursor /\ half = "imp") => DefLocated(list[i].name)
        /\ i < cursor => ImpLocated(list[i].name)
  BY <1>1 DEF ClosureInv, PastIsLocated, Coming
<1>4. \A m : (DefLocated(m)' <=> DefLocated(m)) /\ (ImpLocated(m)' <=> ImpLocated(m))
  BY <1>1 DEF DefLocated, ImpLocated, Exists, ChkFile
<1>5. ASSUME NEW s \in Source, NEW imp \in BOOLEAN, Exists(s), Scan(s, n, imp)
      PROVE  /\ \A md : ModeOf(s, imp) \in md => Coming(n, md)'
             /\ ToSet(scan'.names) = {}
  <2>1. scan' \in Scanning
    BY <1>1, <1>5, ScanStarts
  <2>2. scan' # None
    BY <2>1, NoneIsNone
  <2>3. scan'.source = s /\ scan'.name = n /\ scan'.imp = imp /\ scan'.names = <<>>
    BY <1>5 DEF Scan
  <2>4. QED
    BY <1>1, <2>2, <2>3 DEF Coming, ModeOf, ToSet
<1>6. AllLocated'
  BY <1>1 DEF AllLocated, Ready
<1>7. CASE list[cursor].mode # "sym"
  <2>1. cursor' = cursor + 1 /\ UNCHANGED <<scan, half>>
    BY <1>7 DEF Parse
  <2>2. half = "def"
    BY <1>1, <1>7 DEF ClosureInv, CursorInv
  <2>3. CursorInv' /\ ImportsAreListed'
    BY <1>1, <2>1, <2>2 DEF ClosureInv, CursorInv, ImportsAreListed
  <2>4. PastIsLocated'
    BY <1>1, <1>3, <1>4, <1>7, <2>1, <2>2 DEF PastIsLocated
  <2>5. QED
    BY <1>6, <2>3, <2>4 DEF ClosureInv
<1>8. CASE list[cursor].mode = "sym" /\ ParseDef(n)
  <2>1. half' = "imp" /\ cursor' = cursor /\ half = "def"
    BY <1>8 DEF ParseDef
  <2>2. \/ ChkFile(n, DEFs) /\ scan' = scan
        \/ AnyDef(n) = None /\ scan' = scan
        \/ AnyDef(n) # None /\ Scan(AnyDef(n), n, FALSE)
    BY <1>8 DEF ParseDef
  <2>3. (DefLocated(n) \/ Coming(n, DEFs)') /\ (scan' # None => ToSet(scan'.names) = {})
    <3>1. CASE ChkFile(n, DEFs) /\ scan' = scan
      BY <1>1, <3>1 DEF DefLocated
    <3>2. CASE AnyDef(n) = None /\ scan' = scan
      BY <1>1, <3>2, SearchFinds DEF DefLocated
    <3>3. CASE AnyDef(n) # None /\ Scan(AnyDef(n), n, FALSE)
      <4>1. AnyDef(n) \in Source /\ Exists(AnyDef(n)) /\ ModeOf(AnyDef(n), FALSE) \in DEFs
        BY <3>3, SourcesFound, SearchFinds
      <4>2. QED
        BY <1>5, <3>3, <4>1
    <3>4. QED
      BY <2>2, <3>1, <3>2, <3>3
  <2>4. CursorInv' /\ ImportsAreListed'
    BY <1>1, <1>8, <2>1, <2>3 DEF ClosureInv, CursorInv, ImportsAreListed
  <2>5. PastIsLocated'
    BY <1>1, <1>2, <1>3, <1>4, <2>1, <2>3 DEF PastIsLocated
  <2>6. QED
    BY <1>6, <2>4, <2>5 DEF ClosureInv
<1>9. CASE list[cursor].mode = "sym" /\ ParseImp(n)
  <2>1. half' = "def" /\ cursor' = cursor + 1 /\ half = "imp"
    BY <1>9 DEF ParseImp
  <2>2. \/ ChkFile(n, IMPs) /\ scan' = scan
        \/ AnyImp(n) = None /\ scan' = scan
        \/ AnyImp(n) # None /\ Scan(AnyImp(n), n, TRUE)
    BY <1>9 DEF ParseImp
  <2>3. (ImpLocated(n) \/ Coming(n, IMPs)') /\ (scan' # None => ToSet(scan'.names) = {})
    <3>1. CASE ChkFile(n, IMPs) /\ scan' = scan
      BY <1>1, <3>1 DEF ImpLocated
    <3>2. CASE AnyImp(n) = None /\ scan' = scan
      BY <1>1, <3>2, SearchFinds DEF ImpLocated
    <3>3. CASE AnyImp(n) # None /\ Scan(AnyImp(n), n, TRUE)
      <4>1. AnyImp(n) \in Source /\ Exists(AnyImp(n)) /\ ModeOf(AnyImp(n), TRUE) \in IMPs
        BY <3>3, SourcesFound, SearchFinds
      <4>2. QED
        BY <1>5, <3>3, <4>1
    <3>4. QED
      BY <2>2, <3>1, <3>2, <3>3
  <2>4. CursorInv' /\ ImportsAreListed'
    BY <1>1, <1>9, <2>1, <2>3 DEF ClosureInv, CursorInv, ImportsAreListed
  <2>5. PastIsLocated'
    <3>1. DefLocated(n)
      BY <1>1, <1>2, <1>3, <1>9, <2>1
    <3>2. \A i \in 1..Len(list) : i < cursor + 1 => i < cursor \/ i = cursor
      BY <1>1
    <3>3. QED
      BY <1>1, <1>2, <1>3, <1>4, <2>1, <2>3, <3>1, <3>2 DEF PastIsLocated
  <2>6. QED
    BY <1>6, <2>4, <2>5 DEF ClosureInv
<1>10. QED
  BY <1>2, <1>7, <1>8, <1>9 DEF Parse

\* From the end of MakeClosure on the list stays.
LEMMA OrderingKeepsClosure ==
  ASSUME TypeInv, OrderInv, ClosureInv,
         Start \/ EndClosure \/ OrderNext \/ OrderImport \/ OrderTie \/ EndOrder \/ Tie
         \/ UNCHANGED vars
  PROVE  ClosureInv'
<1>1. UNCHANGED <<text, list, inp, scan, half>> /\ list \in Seq(File)
  BY DEF Start, EndClosure, OrderNext, OrderImport, OrderTie, EndOrder, Tie, vars, TypeInv, TypeOK
<1>2. ImportsAreListed'
  BY <1>1 DEF ClosureInv, ImportsAreListed
<1>3. \A m : (DefLocated(m)' <=> DefLocated(m)) /\ (ImpLocated(m)' <=> ImpLocated(m))
  BY <1>1 DEF DefLocated, ImpLocated, Exists, ChkFile
<1>4. CASE UNCHANGED vars
  <2>1. UNCHANGED <<phase, cursor, errs>>
    BY <1>4 DEF vars
  <2>2. CursorInv' /\ PastIsLocated' /\ AllLocated'
    BY <1>1, <1>3, <2>1 DEF ClosureInv, CursorInv, PastIsLocated, Coming, ModeOf, AllLocated, Ready
  <2>3. QED
    BY <1>2, <2>2 DEF ClosureInv
<1>5. CASE Start
  <2>1. /\ cursor' = cursor /\ errs' = errs /\ phase = "append" /\ scan = None
        /\ (phase' = "done" /\ errs > 0) \/ phase' = "closure"
        /\ errs \in Nat
    BY <1>5 DEF Start, Idle, TypeInv, TypeOK
  <2>2. cursor = 1 /\ half = "def" /\ Len(list) \in Nat
    BY <1>1, <2>1 DEF ClosureInv, CursorInv
  <2>3. CursorInv' /\ PastIsLocated' /\ AllLocated'
    BY <1>1, <2>1, <2>2 DEF CursorInv, PastIsLocated, AllLocated, Ready
  <2>4. QED
    BY <1>2, <2>3 DEF ClosureInv
<1>6. CASE EndClosure
  <2>1. /\ phase = "closure" /\ scan = None /\ cursor > Len(list) /\ errs' = errs
        /\ (phase' = "done" /\ errs > 0) \/ phase' = "order"
        /\ errs \in Nat /\ cursor \in Nat
    BY <1>6 DEF EndClosure, Idle, TypeInv, TypeOK
  <2>2. ASSUME NEW n \in Names, SymOf(n) \in ToSet(list) PROVE DefLocated(n) /\ ImpLocated(n)
    <3>1. PICK i \in 1..Len(list) : list[i] = SymOf(n)
      BY <1>1, <2>2, ToSetMember
    <3>2. list[i].mode = "sym" /\ list[i].name = n
      BY <3>1, ProductsAreFiles
    <3>3. i < cursor
      BY <1>1, <2>1
    <3>4. QED
      BY <2>1, <3>2, <3>3 DEF ClosureInv, PastIsLocated, Coming
  <2>3. AllLocated'
    BY <1>1, <1>3, <2>2 DEF AllLocated
  <2>4. CursorInv' /\ PastIsLocated'
    BY <2>1 DEF CursorInv, PastIsLocated
  <2>5. QED
    BY <1>2, <2>3, <2>4 DEF ClosureInv
<1>7. CASE OrderNext \/ OrderImport \/ OrderTie \/ EndOrder \/ Tie
  <2>1. phase \in {"order", "tie"} /\ phase' \in {"order", "tie", "done"}
    BY <1>7 DEF OrderNext, OrderImport, OrderTie, EndOrder, Tie
  <2>2. \A n \in Names : SymOf(n) \in ToSet(list) => DefLocated(n) /\ ImpLocated(n)
    BY <2>1 DEF ClosureInv, AllLocated
  <2>3. AllLocated'
    BY <1>1, <1>3, <2>2 DEF AllLocated
  <2>4. CursorInv' /\ PastIsLocated'
    BY <2>1 DEF CursorInv, PastIsLocated
  <2>5. QED
    BY <1>2, <2>3, <2>4 DEF ClosureInv
<1>8. QED
  BY <1>4, <1>5, <1>6, <1>7

LEMMA ClosureKept ==
  ASSUME TypeInv, OrderInv, ClosureInv, [Next]_vars
  PROVE  ClosureInv'
<1>1. CASE (\E n \in Names : AppendName(n)) \/ (\E s \in Source : AppendFile(s))
  <2>1. phase = "append" /\ phase' = "append" /\ UNCHANGED <<cursor, half>> /\ scan = None
    BY <1>1 DEF AppendName, AppendFile, Argument, Idle
  <2>2. ~ScanImport /\ ~ScanEnd
    BY <2>1 DEF ScanImport, ScanEnd, Idle
  <2>3. QED
    BY <2>1, <2>2, AppendKeepsClosure
<1>2. QED
  BY <1>1, ScanImportKeepsClosure, ScanEndKeepsClosure, ParseKeepsClosure,
     OrderingKeepsClosure DEF Next, Work

LEMMA ClosureAlways == Spec => []ClosureInv
<1>1. QED
  BY ClosureInitially, ClosureKept, TypesAlways, OrderAlways, PTL DEF Spec

-----------------------------------------------------------------------------
(* What follows *)

\* Whatever the import graph: in the compilation order of a successful Regulate
\* every file comes after the definitions and Oberon-2 modules it imports, but
\* for the reported pairs of Oberon-2 modules.
THEOREM OrderIsRegulated == Spec => []ImportsFirst
<1>1. OrderInv => ImportsFirst
  <2>1. SUFFICES ASSUME OrderInv, Ready, NEW x \in tied, NEW y \in Imports(x)
                 PROVE  \/ Before(y, x)
                        \/ <<x, y>> \in reports /\ x.mode = "oberon" /\ y.mode = "oberon"
    BY DEF ImportsFirst
  <2>2. Before(y, x) \/ <<x, y>> \in reports
    BY <2>1 DEF OrderInv, LateIsReported
  <2>3. <<x, y>> \in reports => x.mode = "oberon" /\ y.mode = "oberon"
    BY <2>1 DEF OrderInv, ErrorsTell, Ready
  <2>4. QED
    BY <2>2, <2>3
<1>2. QED
  BY <1>1, OrderAlways, PTL

\* Whatever the import graph: every pair named by "cycle in import" lies on a
\* cycle of imports.
THEOREM ReportsAreTrue == Spec => []CyclesAreReal
<1>1. OrderInv => CyclesAreReal
  BY DEF OrderInv
<1>2. QED
  BY <1>1, OrderAlways, PTL

\* Whatever the import graph: a successful Regulate has every file of the
\* project once in its compilation order.
THEOREM NothingForgotten == Spec => []NodesAreTheList
<1>1. OrderInv => NodesAreTheList
  BY DEF OrderInv, Progress, NodesAreTheList, Ready
<1>2. QED
  BY <1>1, OrderAlways, PTL

\* Whatever the disk: a successful Regulate has read every source module of
\* the project from a correct source of that name and kind.
THEOREM HeadingsWereRight == Spec => []HeadingsAgree
<1>1. HeadingInv => HeadingsAgree
  BY DEF HeadingInv, HeadingsAgree, FileAgrees, Ready
<1>2. QED
  BY <1>1, HeadingAlways, PTL

\* Whatever the disk and the import graph: a successful Regulate has in the
\* project the definition and the implementation of everything imported, if
\* there are sources for them.
THEOREM ClosureIsComplete == Spec => []Located
<1>1. TypeInv /\ ClosureInv => Located
  <2>1. SUFFICES ASSUME TypeInv, ClosureInv, Ready, NEW x \in ToSet(list), NEW n \in ToSet(inp[x])
                 PROVE  DefLocated(n) /\ ImpLocated(n)
    BY DEF Located, DefLocated, ImpLocated
  <2>2. x \in File
    <3>1. list \in Seq(File)
      BY <2>1 DEF TypeInv, TypeOK
    <3>2. PICK i \in 1..Len(list) : list[i] = x
      BY <3>1, ToSetMember
    <3>3. QED
      BY <3>1, <3>2
  <2>3. n \in Names
    <3>1. inp[x] \in Seq(Names)
      BY <2>1, <2>2 DEF TypeInv, TypeOK
    <3>2. PICK i \in 1..Len(inp[x]) : inp[x][i] = n
      BY <3>1, ToSetMember
    <3>3. QED
      BY <3>1, <3>2
  <2>4. QED
    BY <2>1, <2>2, <2>3 DEF ClosureInv, ImportsAreListed, AllLocated
<1>2. QED
  BY <1>1, TypesAlways, ClosureAlways, PTL
=============================================================================
