----------------------------- MODULE LinkerProofs -----------------------------
(***************************************************************************)
(* Theorems about Linker, for any object modules, options and identifiers: *)
(* what is linked is what the program needs and nothing else, names are    *)
(* bound as if all declarations were known at once, segments and texts     *)
(* stand where they should, fixups are counted right, and the numbers of   *)
(* exports are different ones.                                             *)
(***************************************************************************)
EXTENDS Linker, SequenceFacts

-----------------------------------------------------------------------------
(* The inductive invariant: binding *)

InFile(s) == \E f \in DOMAIN files : \E i \in DOMAIN files[f].segs : s = <<f, i>>
Infos == [kind : Kinds, seg : (Nat \X Nat) \cup {Null}, arg : Nat]
Idle == phase \in {"options", "file", "read", "prepare"}

FilesOK ==
  /\ files \in Seq(Objects)
  /\ item \in Nat \ {0}
  /\ phase = "file" => files # <<>>

NameOK(info) ==
  info # Null /\ info.seg # Null =>
    \/ info.kind = "public" /\ InFile(info.seg)
    \/ info.kind = "common" /\ info.seg[1] = 0 /\ info.seg \in processed
NamesOK ==
  /\ names \in [Names -> Infos \cup {Null}]
  /\ \A n \in Names : NameOK(names[n])

IsSequence(s) == s \in Seq({s[i] : i \in DOMAIN s})

\* An export refers to identifiers and segments that there are.
ExportOK(e) ==
  /\ e = [ext |-> e.ext, int |-> e.int, ord |-> e.ord, seg |-> e.seg, flag |-> e.flag]
  /\ e.int \in Names /\ (e.seg = Null \/ InFile(e.seg))
AllExportsOK(es) == IsSequence(es) /\ \A i \in DOMAIN es : ExportOK(es[i])

Untouched ==
  /\ root = 0 /\ stack = <<>> /\ processed = {} /\ commons = <<>> /\ idata = {}
  /\ file = 1 /\ changed = [all |-> FALSE, here |-> FALSE] /\ whole = {}

BindingOK ==
  /\ FilesOK /\ NamesOK /\ AllExportsOK(exports)
  /\ entry \in Entries
  /\ Idle => Untouched /\ errors \in Nat

-----------------------------------------------------------------------------
(* The inductive invariant: collecting *)

Calls == [seg : Nat \X Nat, at : Nat \ {0}]
StackOK ==
  /\ commons \in Seq(Names)
  /\ \A s \in processed : InFile(s) \/ s \in {0} \X Nat
  /\ stack \in Seq(Calls)
  /\ \A c \in ToSet(stack) : InFile(c.seg) /\ c.seg \in processed

\* What the j-th fixup of a segment refers to.
Target(s, j) ==
  LET x == files[s[1]].segs[s[2]].fixups[j]
  IN  IF x.name = Null THEN {<<s[1], x.own>>} ELSE DefinedIn(x.name)

OnStack(s, j) == \E c \in ToSet(stack) : c.seg = s /\ c.at <= j

\* A fixup of a segment that is marked has been followed, or a call for the
\* segment has not come to it.
Followed ==
  \A s \in FromFiles(processed) :
    \A j \in DOMAIN files[s[1]].segs[s[2]].fixups : Target(s, j) \subseteq processed \/ OnStack(s, j)

Described ==
  /\ \A s \in FromFiles(processed) :
       files[s[1]].segs[s[2]].clazz = "IDATA" =>
         s[1] \in idata \/ \E c \in ToSet(stack) : c.seg = s
  /\ \A f \in idata : files[f].extrnl \in Names /\ DefinedIn(files[f].extrnl) \subseteq processed

RootOf(e) == IF e.seg # Null THEN {e.seg} ELSE DefinedIn(e.int)
Rooted ==
  /\ root \in Nat
  /\ root > 0 /\ entry # Null => DefinedIn(entry) \subseteq processed
  /\ \A i \in DOMAIN exports : i < root /\ Exported(exports[i]) => RootOf(exports[i]) \subseteq processed
  /\ root = 0 => stack = <<>>

\* Every set that has what the program needs has what is marked.
Minimal == \A T \in SUBSET {s \in Nat \X Nat : InFile(s)} : Needs(T) => FromFiles(processed) \subseteq T

\* Until a round over the files has marked something, it leaves no file behind it.
Swept ==
  /\ changed \in [all : BOOLEAN, here : BOOLEAN]
  /\ \A f \in DOMAIN files : f \in whole => AllOf(f) \subseteq processed
  /\ phase = "roots" => file = 1 /\ changed = [all |-> FALSE, here |-> FALSE] /\ whole = {}
  /\ phase = "all" =>
       /\ root = Len(exports) + 1
       /\ ~Last(files).smart
       /\ file \in Nat \ {0}
       /\ changed.here => ~changed.all /\ file \in DOMAIN files /\ Wanted(file)
       /\ ~changed.all /\ ~changed.here => stack = <<>> /\ \A f \in 1..file - 1 : ~Wanted(f)

CollectingOK ==
  /\ Linking => StackOK /\ Followed /\ Described /\ Rooted /\ Minimal /\ Swept
  /\ Collected => Needs(processed) /\ Minimal /\ \A s \in processed : InFile(s) \/ s \in {0} \X Nat

-----------------------------------------------------------------------------
(* Files and segments *)

LEMMA FileFacts ==
  ASSUME FilesOK, NEW f \in DOMAIN files
  PROVE  /\ DOMAIN files = 1..Len(files) /\ Len(files) \in Nat
         /\ f \in Nat \ {0} /\ f <= Len(files)
         /\ files[f] \in Objects
         /\ files[f].segs \in Seq(Segments)
         /\ DOMAIN files[f].segs = 1..Len(files[f].segs) /\ Len(files[f].segs) \in Nat
<1>1. files \in Seq(Objects)
  BY DEF FilesOK
<1>2. DOMAIN files = 1..Len(files) /\ Len(files) \in Nat /\ files[f] \in Objects
  BY <1>1
<1>3. files[f].segs \in Seq(Segments)
  BY <1>2, ObjectsAssumption
<1>4. QED
  BY <1>2, <1>3

\* The segment that a pair stands for, and what its fixups may be.
LEMMA SegmentFacts ==
  ASSUME FilesOK, NEW s, InFile(s)
  PROVE  /\ s \in Nat \X Nat /\ s[1] \in DOMAIN files /\ s[1] # 0 /\ s = <<s[1], s[2]>>
         /\ s[2] \in DOMAIN files[s[1]].segs
         /\ Seg(s) = files[s[1]].segs[s[2]]
         /\ files[s[1]].segs[s[2]].fixups \in Seq(Fixups)
<1>1. PICK f \in DOMAIN files : \E i \in DOMAIN files[f].segs : s = <<f, i>>
  BY DEF InFile
<1>2. PICK i \in DOMAIN files[f].segs : s = <<f, i>>
  BY <1>1
<1>3. /\ f \in Nat \ {0} /\ i \in Nat
      /\ files[f].segs \in Seq(Segments)
  BY FileFacts, <1>2
<1>4. files[f].segs[i] \in Segments
  BY <1>2, <1>3
<1>5. files[f].segs[i].fixups \in Seq(Fixups)
  BY <1>4 DEF Segments
<1>6. s[1] = f /\ s[2] = i /\ s \in Nat \X Nat
  BY <1>2, <1>3
<1>7. Seg(s) = files[s[1]].segs[s[2]]
  BY <1>3, <1>6 DEF Seg
<1>8. QED
  BY <1>2, <1>3, <1>5, <1>6, <1>7

LEMMA FixupFacts ==
  ASSUME FilesOK, NEW s, InFile(s), NEW j \in DOMAIN files[s[1]].segs[s[2]].fixups
  PROVE  LET x == files[s[1]].segs[s[2]].fixups[j]
         IN  /\ j \in Nat \ {0}
             /\ x.name = Null => InFile(<<s[1], x.own>>)
             /\ x.name # Null => x.name \in Names
<1> DEFINE x == files[s[1]].segs[s[2]].fixups[j]
<1>1. /\ s[1] \in DOMAIN files /\ s[2] \in DOMAIN files[s[1]].segs
      /\ files[s[1]].segs[s[2]].fixups \in Seq(Fixups)
  BY SegmentFacts
<1>2. j \in Nat \ {0} /\ x \in Fixups /\ x \in ToSet(files[s[1]].segs[s[2]].fixups)
  BY <1>1 DEF ToSet
<1>3. files[s[1]] \in Objects
  BY <1>1, FileFacts
<1>4. x.name = Null => x.own \in DOMAIN files[s[1]].segs
  BY <1>1, <1>2, <1>3, ObjectsAssumption
<1>5. QED
  BY <1>1, <1>2, <1>4 DEF InFile, Fixups

LEMMA DescriptorFacts ==
  ASSUME FilesOK, NEW s, InFile(s), files[s[1]].segs[s[2]].clazz = "IDATA"
  PROVE  files[s[1]].extrnl \in Names
<1>1. s[1] \in DOMAIN files /\ s[2] \in DOMAIN files[s[1]].segs
  BY SegmentFacts
<1>2. files[s[1]] \in Objects
  BY <1>1, FileFacts
<1>3. QED
  BY <1>1, <1>2, ObjectsAssumption

\* The file that is being read is the last one.
LEMMA CurrentFileFacts ==
  ASSUME FilesOK, files # <<>>
  PROVE  Len(files) \in DOMAIN files /\ CurrentFile = files[Len(files)] /\ CurrentFile \in Objects
<1>1. files \in Seq(Objects)
  BY DEF FilesOK
<1>2. Len(files) \in DOMAIN files
  BY <1>1, EmptySeq
<1>3. QED
  BY <1>1, <1>2 DEF CurrentFile, Last

-----------------------------------------------------------------------------
(* Exports *)

LEMMA SequenceShape ==
  ASSUME NEW s, IsSequence(s)
  PROVE  Len(s) \in Nat /\ DOMAIN s = 1..Len(s)
BY DEF IsSequence

LEMMA SequenceIf ==
  ASSUME NEW t, NEW n \in Nat, DOMAIN t = 1..n, t = [j \in 1..n |-> t[j]]
  PROVE  IsSequence(t)
<1> DEFINE S == {t[j] : j \in DOMAIN t}
<1>1. \A j \in 1..n : t[j] \in S
  OBVIOUS
<1>2. t \in Seq(S)
  <2> HIDE DEF S
  <2>1. [j \in 1..n |-> t[j]] \in Seq(S)
    BY <1>1
  <2>2. QED BY <2>1
<1>3. QED
  BY <1>2 DEF IsSequence

LEMMA ConsShape ==
  ASSUME NEW s, IsSequence(s), NEW x
  PROVE  /\ IsSequence(<<x>> \o s)
         /\ Len(<<x>> \o s) = Len(s) + 1
         /\ (<<x>> \o s)[1] = x
         /\ \A i \in DOMAIN (<<x>> \o s) : i # 1 => i - 1 \in DOMAIN s /\ (<<x>> \o s)[i] = s[i - 1]
<1> DEFINE S == {s[i] : i \in DOMAIN s} \cup {x}
           t == <<x>> \o s
<1>1. s \in Seq(S) /\ <<x>> \in Seq(S) /\ Len(<<x>>) = 1 /\ <<x>>[1] = x
  <2>1. s \in Seq({s[i] : i \in DOMAIN s})
    BY DEF IsSequence
  <2>2. \A i \in 1..Len(s) : s[i] \in S
    BY <2>1
  <2>3. QED BY <2>1, <2>2
<1> HIDE DEF S
<1>2. t \in Seq(S) /\ Len(t) = Len(s) + 1
      /\ \A i \in 1..Len(t) : t[i] = IF i <= 1 THEN x ELSE s[i - 1]
  BY <1>1, ConcatProperties
<1>3. DOMAIN t = 1..Len(s) + 1 /\ Len(s) \in Nat /\ DOMAIN s = 1..Len(s)
  BY <1>1, <1>2
<1>4. t = [k \in 1..Len(s) + 1 |-> t[k]]
  BY <1>2, <1>3
<1>5. IsSequence(t)
  <2>1. Len(s) + 1 \in Nat
    BY <1>3
  <2> HIDE DEF t
  <2>2. QED BY ONLY <2>1, <1>3, <1>4, SequenceIf
<1> HIDE DEF t
<1>6. t[1] = x /\ \A i \in DOMAIN t : i # 1 => i - 1 \in DOMAIN s /\ t[i] = s[i - 1]
  BY <1>2, <1>3
<1>7. QED
  BY <1>2, <1>5, <1>6 DEF t

LEMMA ExceptShape ==
  ASSUME NEW s, IsSequence(s), NEW i, NEW x
  PROVE  /\ IsSequence([s EXCEPT ![i] = x])
         /\ DOMAIN [s EXCEPT ![i] = x] = DOMAIN s
         /\ \A j \in DOMAIN s : [s EXCEPT ![i] = x][j] = IF j = i THEN x ELSE s[j]
<1> DEFINE t == [s EXCEPT ![i] = x]
<1>1. Len(s) \in Nat /\ DOMAIN s = 1..Len(s)
  BY SequenceShape
<1>2. DOMAIN t = 1..Len(s) /\ t = [j \in 1..Len(s) |-> t[j]]
  BY <1>1
<1>4. IsSequence(t)
  BY <1>1, <1>2, SequenceIf
<1>5. QED
  BY <1>1, <1>4

LEMMA ExportExcept ==
  ASSUME NEW e, ExportOK(e), NEW i \in Names, NEW s, s = Null \/ InFile(s), NEW o, NEW x
  PROVE  /\ ExportOK([e EXCEPT !.flag = x])
         /\ ExportOK([e EXCEPT !.int = i, !.seg = s, !.ord = o])
         /\ ExportOK([e EXCEPT !.ord = o])
         /\ [e EXCEPT !.ord = o].seg = e.seg /\ [e EXCEPT !.ord = o].int = e.int
         /\ [e EXCEPT !.ord = o].flag = e.flag
<1>1. PICK a, b, c, d, f : e = [ext |-> a, int |-> b, ord |-> c, seg |-> d, flag |-> f]
  BY DEF ExportOK
<1>2. b \in Names /\ (d = Null \/ InFile(d))
  BY <1>1 DEF ExportOK
<1>3. /\ [e EXCEPT !.flag = x] = [ext |-> a, int |-> b, ord |-> c, seg |-> d, flag |-> x]
      /\ [e EXCEPT !.int = i, !.seg = s, !.ord = o] = [ext |-> a, int |-> i, ord |-> o, seg |-> s, flag |-> f]
      /\ [e EXCEPT !.ord = o] = [ext |-> a, int |-> b, ord |-> o, seg |-> d, flag |-> f]
  <2>1. [e EXCEPT !.flag = x] = [ext |-> a, int |-> b, ord |-> c, seg |-> d, flag |-> x]
    BY <1>1
  <2>2. [e EXCEPT !.int = i, !.seg = s, !.ord = o] = [ext |-> a, int |-> i, ord |-> o, seg |-> s, flag |-> f]
    <3>1. PICK r : r = [e EXCEPT !.int = i]
      OBVIOUS
    <3>2. r = [ext |-> a, int |-> i, ord |-> c, seg |-> d, flag |-> f]
      BY <1>1, <3>1
    <3>3. PICK t : t = [r EXCEPT !.seg = s]
      OBVIOUS
    <3>4. t = [ext |-> a, int |-> i, ord |-> c, seg |-> s, flag |-> f]
      BY <3>2, <3>3
    <3>5. [t EXCEPT !.ord = o] = [ext |-> a, int |-> i, ord |-> o, seg |-> s, flag |-> f]
      BY <3>4
    <3>6. [e EXCEPT !.int = i, !.seg = s, !.ord = o] = [t EXCEPT !.ord = o]
      BY ONLY <3>1, <3>3
    <3>7. QED BY <3>5, <3>6
  <2>3. [e EXCEPT !.ord = o] = [ext |-> a, int |-> b, ord |-> o, seg |-> d, flag |-> f]
    BY <1>1
  <2>4. QED BY <2>1, <2>2, <2>3
<1>4. \A p, q, r, t, u : q \in Names /\ (t = Null \/ InFile(t))
        => ExportOK([ext |-> p, int |-> q, ord |-> r, seg |-> t, flag |-> u])
  BY DEF ExportOK
<1>5. QED
  BY <1>1, <1>2, <1>3, <1>4

LEMMA NewExportShape ==
  ASSUME AllExportsOK(exports), NEW e, e.int \in Names, NEW seg, seg = Null \/ InFile(seg), NEW src
  PROVE  /\ NewExport(Reading, e, seg, src).names = names
         /\ AllExportsOK(NewExport(Reading, e, seg, src).exports)
<1> DEFINE same == {i \in DOMAIN exports : exports[i].ext = e.ext}
           i == CHOOSE j \in same : TRUE
           old == exports[i]
           over == [old EXCEPT !.int = e.int, !.seg = IF seg # Null THEN seg ELSE @,
                               !.ord = IF e.ord # 0 THEN e.ord ELSE @]
           new == [ext |-> e.ext, int |-> e.int, ord |-> e.ord, seg |-> seg, flag |-> {src}]
           r == NewExport(Reading, e, seg, src)
<1>0. /\ Reading.exports = exports /\ Reading.names = names
      /\ Reading = [names |-> names, imported |-> imported, exports |-> exports, errors |-> errors]
  BY DEF Reading
<1>s. IsSequence(exports) /\ \A j \in DOMAIN exports : ExportOK(exports[j])
  BY DEF AllExportsOK
<1>1. CASE same = {}
  <2>1. r.names = names /\ r.exports = <<new>> \o exports
    BY <1>0, <1>1 DEF NewExport
  <2>2. ExportOK(new)
    BY DEF ExportOK
  <2> HIDE DEF new, r
  <2>3. IsSequence(<<new>> \o exports) /\ \A j \in DOMAIN (<<new>> \o exports) : ExportOK((<<new>> \o exports)[j])
    BY <1>s, <2>2, ConsShape
  <2>4. QED BY <2>1, <2>3 DEF r, AllExportsOK
<1>2. CASE same # {}
  <2>1. i \in DOMAIN exports /\ ExportOK(old)
    BY <1>s, <1>2
  <2>2. \/ r.names = names /\ r.exports = exports
        \/ r.names = names /\ r.exports = [exports EXCEPT ![i] = over]
        \/ r.names = names /\ r.exports = [exports EXCEPT ![i] = [old EXCEPT !.flag = @ \cup {src}]]
    BY <1>0, <1>2, <2>1 DEF NewExport
  <2>3. ExportOK([old EXCEPT !.flag = @ \cup {src}])
    <3> HIDE DEF i, old
    <3>1. e.int \in Names
      OBVIOUS
    <3>2. QED BY <2>1, <3>1, ExportExcept
  <2>4. ExportOK(over)
    <3> DEFINE g == IF seg # Null THEN seg ELSE old.seg
               o == IF e.ord # 0 THEN e.ord ELSE old.ord
    <3>1. over = [old EXCEPT !.int = e.int, !.seg = g, !.ord = o]
      OBVIOUS
    <3>2. g = Null \/ InFile(g)
      BY <2>1 DEF ExportOK
    <3> HIDE DEF i, old, over, g, o
    <3>3. ExportOK([old EXCEPT !.int = e.int, !.seg = g, !.ord = o])
      BY <2>1, <3>2, ExportExcept
    <3>4. QED BY <3>1, <3>3
  <2> HIDE DEF i, old, over, r
  <2>5. ASSUME NEW x, ExportOK(x), r.exports = [exports EXCEPT ![i] = x]
        PROVE  AllExportsOK(r.exports)
    BY <1>s, <2>5, ExceptShape DEF AllExportsOK
  <2>6. AllExportsOK(exports)
    OBVIOUS
  <2>7. QED BY <2>2, <2>3, <2>4, <2>5, <2>6 DEF r
<1>3. QED
  BY <1>1, <1>2

-----------------------------------------------------------------------------
(* Declarations *)

\* How a declaration binds its name, or leaves it.
Rebinds(d, new) ==
  LET info == names[d.name]
  IN  \/ /\ d.kind = "public" /\ (info = Null \/ Replaceable(info))
         /\ new = Bound("public", IF d.arg = 0 THEN Null ELSE <<Len(files), d.arg>>, 0)
      \/ /\ d.kind = "common" /\ (info = Null \/ info.kind = "weak")
         /\ new = Bound("common", Null, d.arg)
      \/ /\ d.kind = "common" /\ info # Null /\ info.kind = "common"
         /\ new = [info EXCEPT !.arg = IF @ < d.arg THEN d.arg ELSE @]
      \/ /\ d.kind \in Imports \cup {"weak"} /\ info = Null
         /\ new = Bound(d.kind, Null, IF d.kind = "weak" THEN 0 ELSE d.arg)

Leaves(d, lib, es) ==
  LET info == names[d.name]
  IN  /\ info # Null
      /\ d.kind = "public" =>
           /\ ~Replaceable(info)
           /\ es = errors => lib # Null /\ (info.seg # Null => files[info.seg[1]].lib # lib)
      /\ d.kind = "common" =>
           /\ info.kind \notin {"weak", "common"}
           /\ es = errors => lib # Null

LEMMA TwiceShape ==
  ASSUME NEW info, NEW lib, NEW may, errors \in Nat
  PROVE  LET r == TwiceDeclared(Reading, info, lib, may)
         IN  /\ r.names = names /\ r.imported = imported /\ r.exports = exports
             /\ r.errors \in {errors, errors + 1}
             /\ r.errors = errors => may /\ ~(lib # Null /\ info.seg # Null /\ files[info.seg[1]].lib = lib)
<1>1. /\ Reading.names = names /\ Reading.exports = exports /\ Reading.errors = errors
      /\ Reading.imported = imported
      /\ Reading = [names |-> names, imported |-> imported, exports |-> exports, errors |-> errors]
  BY DEF Reading
<1>2. [Reading EXCEPT !.errors = @ + 1]
        = [names |-> names, imported |-> imported, exports |-> exports, errors |-> errors + 1]
  BY <1>1
<1>3. errors + 1 # errors
  OBVIOUS
<1>4. QED
  BY <1>1, <1>2, <1>3 DEF TwiceDeclared

LEMMA DeclareShape ==
  ASSUME NEW d \in Declarations, NEW lib, names \in [Names -> Infos \cup {Null}], errors \in Nat
  PROVE  LET r == Declare(Reading, d, lib)
         IN  /\ r.exports = exports
             /\ r.errors \in {errors, errors + 1}
             /\ \/ r.names = names /\ Leaves(d, lib, r.errors)
                \/ \E new : Rebinds(d, new) /\ r.names = [names EXCEPT ![d.name] = new]
<1> DEFINE r == Declare(Reading, d, lib)
           info == names[d.name]
           twice(may) == TwiceDeclared(Reading, info, lib, may)
<1>1. /\ Reading.names = names /\ Reading.exports = exports /\ Reading.errors = errors
      /\ Reading.imported = imported
      /\ Reading = [names |-> names, imported |-> imported, exports |-> exports, errors |-> errors]
  BY DEF Reading
<1>2. d.kind \in Kinds /\ d.name \in Names /\ d.arg \in Nat
  BY DEF Declarations
<1>3. \A new : /\ [Reading EXCEPT !.names[d.name] = new].names = [names EXCEPT ![d.name] = new]
               /\ [Reading EXCEPT !.names[d.name] = new].exports = exports
               /\ [Reading EXCEPT !.names[d.name] = new].errors = errors
  BY <1>1
<1>4. ASSUME NEW may PROVE
        /\ twice(may).names = names /\ twice(may).exports = exports
        /\ twice(may).errors \in {errors, errors + 1}
        /\ twice(may).errors = errors =>
             may /\ ~(lib # Null /\ info.seg # Null /\ files[info.seg[1]].lib = lib)
  BY TwiceShape
<1> HIDE DEF twice
<1>5. CASE d.kind = "public"
  <2>1. r = NewPublicName(Reading, d, lib)
    BY <1>5 DEF Declare, Imports
  <2>2. CASE info = Null \/ Replaceable(info)
    BY <1>1, <1>3, <1>5, <2>1, <2>2 DEF NewPublicName, Rebinds
  <2>3. CASE ~(info = Null \/ Replaceable(info))
    <3>1. r = twice(lib # Null)
      BY <1>1, <2>1, <2>3 DEF NewPublicName, twice
    <3>2. Leaves(d, lib, r.errors)
      BY <1>4, <1>5, <2>3, <3>1 DEF Leaves
    <3>3. QED BY <1>4, <3>1, <3>2
  <2>4. QED BY <2>2, <2>3
<1>6. CASE d.kind = "common"
  <2>1. r = NewCommonName(Reading, d, lib)
    BY <1>6 DEF Declare, Imports
  <2>2. CASE info = Null \/ (info # Null /\ info.kind = "weak")
    BY <1>1, <1>3, <1>6, <2>1, <2>2 DEF NewCommonName, Rebinds
  <2>3. CASE info # Null /\ info.kind = "common"
    <3>1. r = [Reading EXCEPT !.names[d.name].arg = IF @ < d.arg THEN d.arg ELSE @]
      BY <1>1, <2>1, <2>3 DEF NewCommonName
    <3>2. /\ r.exports = exports /\ r.errors = errors
          /\ r.names = [names EXCEPT ![d.name].arg = IF @ < d.arg THEN d.arg ELSE @]
      BY <1>1, <3>1
    <3>3. [names EXCEPT ![d.name].arg = IF @ < d.arg THEN d.arg ELSE @]
            = [names EXCEPT ![d.name] = [info EXCEPT !.arg = IF @ < d.arg THEN d.arg ELSE @]]
      OBVIOUS
    <3>4. Rebinds(d, [info EXCEPT !.arg = IF @ < d.arg THEN d.arg ELSE @])
      BY <1>6, <2>3 DEF Rebinds
    <3>5. QED BY <3>2, <3>3, <3>4
  <2>4. CASE info # Null /\ info.kind \notin {"weak", "common"}
    <3>1. r = twice(lib # Null)
      BY <1>1, <2>1, <2>4 DEF NewCommonName, twice
    <3>2. Leaves(d, lib, r.errors)
      BY <1>4, <1>6, <2>4, <3>1 DEF Leaves
    <3>3. QED BY <1>4, <3>1, <3>2
  <2>5. QED BY <2>2, <2>3, <2>4
<1>7. CASE d.kind \in Imports
  <2>1. r = NewImportName(Reading, d, lib) /\ d.kind \notin {"public", "common", "weak"}
    BY <1>7 DEF Declare, Imports
  <2>2. CASE info = Null
    <3> DEFINE new == Bound(d.kind, Null, d.arg)
    <3>1. r = [Reading EXCEPT !.names[d.name] = new, !.imported = Append(@, d.name)]
      BY <1>1, <2>1, <2>2 DEF NewImportName
    <3>2. r.names = [names EXCEPT ![d.name] = new] /\ r.exports = exports /\ r.errors = errors
      <4> HIDE DEF new
      <4>1. QED BY <1>1, <3>1
    <3>3. Rebinds(d, new)
      BY <1>7, <2>1, <2>2 DEF Rebinds
    <3>4. QED BY <3>2, <3>3
  <2>3. CASE info # Null
    <3>1. r = Reading \/ r = twice(TRUE)
      BY <1>1, <2>1, <2>3 DEF NewImportName, twice
    <3>2. Leaves(d, lib, r.errors)
      BY <2>1, <2>3 DEF Leaves
    <3>3. QED BY <1>1, <1>4, <3>1, <3>2
  <2>4. QED BY <2>2, <2>3
<1>8. CASE d.kind = "weak"
  <2>1. r = NewWeakName(Reading, d)
    BY <1>8 DEF Declare, Imports
  <2>2. CASE info = Null
    <3> DEFINE new == Bound("weak", Null, 0)
    <3>1. r = [Reading EXCEPT !.names[d.name] = new]
      BY <1>1, <2>1, <2>2 DEF NewWeakName
    <3>2. Rebinds(d, new)
      BY <1>8, <2>2 DEF Rebinds
    <3>3. QED BY <1>3, <3>1, <3>2
  <2>3. CASE info # Null
    <3>1. r = Reading
      BY <1>1, <2>1, <2>3 DEF NewWeakName
    <3>2. Leaves(d, lib, r.errors)
      BY <1>8, <2>3 DEF Leaves
    <3>3. QED BY <1>1, <3>1, <3>2
  <2>4. QED BY <2>2, <2>3
<1>9. QED
  BY <1>2, <1>5, <1>6, <1>7, <1>8 DEF Kinds

-----------------------------------------------------------------------------
(* Binding is kept while files are read *)

LEMMA BindingInit ==
  ASSUME Init
  PROVE  BindingOK
<1>1. /\ files = <<>> /\ item = 1 /\ names = [n \in Names |-> Null] /\ exports = <<>>
      /\ entry \in Entries /\ errors = 0 /\ phase = "options" /\ Untouched
  BY DEF Init, Untouched
<1>2. FilesOK
  BY <1>1 DEF FilesOK
<1>3. NamesOK
  BY <1>1 DEF NamesOK, NameOK
<1>4. AllExportsOK(exports)
  BY <1>1 DEF AllExportsOK, IsSequence
<1>5. QED
  BY <1>1, <1>2, <1>3, <1>4 DEF BindingOK

LEMMA InFileSame ==
  ASSUME files' = files, NEW s
  PROVE  InFile(s)' <=> InFile(s)
BY DEF InFile

LEMMA ExportsSame ==
  ASSUME files' = files, NEW es, AllExportsOK(es), exports' = es
  PROVE  AllExportsOK(exports)'
<1>1. IsSequence(es) /\ \A i \in DOMAIN es : ExportOK(es[i])
  BY DEF AllExportsOK
<1>2. IsSequence(exports)'
  BY <1>1 DEF IsSequence
<1>3. \A i \in DOMAIN exports' : ExportOK(exports[i])'
  BY <1>1, InFileSame DEF ExportOK
<1>4. QED
  BY <1>2, <1>3 DEF AllExportsOK

\* A step that changes neither the files nor what names are bound to.
BindingSame == UNCHANGED <<files, names>> /\ processed \subseteq processed'

LEMMA NamesSame ==
  ASSUME NamesOK, BindingSame
  PROVE  NamesOK'
<1>1. \A n \in Names : NameOK(names[n])
  BY DEF NamesOK
<1>2. \A n \in Names : NameOK(names[n])'
  BY <1>1, InFileSame DEF NameOK, BindingSame
<1>3. QED
  BY <1>2 DEF NamesOK, BindingSame

LEMMA UntouchedSame ==
  ASSUME Untouched, UNCHANGED search, UNCHANGED sweep
  PROVE  Untouched'
BY DEF Untouched, search, sweep

LEMMA OptionBinds ==
  ASSUME BindingOK, Option
  PROVE  BindingOK'
<1>1. PICK e \in Options : ReadAs(NewExport(Reading, e, Null, e.src))
  BY DEF Option
<1>2. phase \in {"options", "read"} /\ UNCHANGED <<files, item, entry, phase, search, sweep>>
  BY DEF Option
<1> DEFINE r == NewExport(Reading, e, Null, e.src)
<1>3. Idle /\ Untouched /\ errors \in Nat /\ AllExportsOK(exports)
  BY <1>2 DEF Idle, BindingOK
<1>4. e.int \in Names
  BY OptionsAssumption
<1>5. r.names = names /\ AllExportsOK(r.exports)
  BY <1>3, <1>4, NewExportShape
<1>6. names' = r.names /\ exports' = r.exports /\ errors' = r.errors
  BY <1>1 DEF ReadAs
<1>7. r.errors \in Nat
  <2>1. /\ Reading.errors = errors
        /\ Reading = [names |-> names, imported |-> imported, exports |-> exports, errors |-> errors]
    BY DEF Reading
  <2>2. r.errors \in {errors, errors + 1}
    BY <2>1 DEF NewExport
  <2>3. QED BY <1>3, <2>2
<1> HIDE DEF r
<1>8. FilesOK'
  BY <1>2 DEF FilesOK, BindingOK
<1>9. NamesOK'
  <2>1. BindingSame
    BY <1>2, <1>5, <1>6 DEF BindingSame, search
  <2>2. QED BY <2>1, NamesSame DEF BindingOK
<1>10. AllExportsOK(exports)'
  BY <1>2, <1>5, <1>6, ExportsSame
<1>11. Untouched'
  BY <1>2, <1>3, UntouchedSame
<1>12. QED
  BY <1>2, <1>6, <1>7, <1>8, <1>9, <1>10, <1>11 DEF BindingOK

LEMMA OpenFileBinds ==
  ASSUME BindingOK, OpenFile
  PROVE  BindingOK'
<1>1. PICK o \in Objects : files' = Append(files, o)
  BY DEF OpenFile
<1>2. /\ phase \in {"options", "read"} /\ phase' = "file" /\ item' = 1
      /\ UNCHANGED <<names, exports, entry, errors, search, sweep>>
  BY DEF OpenFile
<1>3. Idle /\ Untouched /\ errors \in Nat /\ AllExportsOK(exports) /\ FilesOK /\ NamesOK
  BY <1>2 DEF Idle, BindingOK
<1>4. /\ files' \in Seq(Objects) /\ files' # <<>>
      /\ DOMAIN files \subseteq DOMAIN files' /\ \A f \in DOMAIN files : files'[f] = files[f]
  BY <1>1, <1>3 DEF FilesOK
<1>5. \A s : InFile(s) => InFile(s)'
  BY <1>4 DEF InFile
<1>6. FilesOK'
  BY <1>2, <1>4 DEF FilesOK
<1>7. NamesOK'
  <2>1. \A n \in Names : NameOK(names[n])
    BY <1>3 DEF NamesOK
  <2>2. \A n \in Names : NameOK(names[n])'
    BY <1>2, <1>5, <2>1 DEF NameOK, search
  <2>3. QED BY <1>2, <1>3, <2>2 DEF NamesOK
<1>8. AllExportsOK(exports)'
  <2>1. IsSequence(exports) /\ \A i \in DOMAIN exports : ExportOK(exports[i])
    BY <1>3 DEF AllExportsOK
  <2>2. IsSequence(exports)'
    BY <1>2, <2>1 DEF IsSequence
  <2>3. \A i \in DOMAIN exports' : ExportOK(exports[i])'
    BY <1>2, <1>5, <2>1 DEF ExportOK
  <2>4. QED BY <2>2, <2>3 DEF AllExportsOK
<1>9. Untouched'
  BY <1>2, <1>3, UntouchedSame
<1>10. QED
  BY <1>2, <1>3, <1>6, <1>7, <1>8, <1>9 DEF BindingOK

LEMMA DeclarationFacts ==
  ASSUME BindingOK, ReadDeclaration
  PROVE  LET d == CurrentFile.decls[item]
             r == Declare(Reading, d, CurrentFile.lib)
         IN  /\ d \in Declarations /\ d \in ToSet(CurrentFile.decls)
             /\ d.kind = "public" => d.arg = 0 \/ InFile(<<Len(files), d.arg>>)
             /\ names' = r.names /\ exports' = exports
             /\ errors' = r.errors /\ errors' \in {errors, errors + 1} /\ errors \in Nat
             /\ \/ names' = names /\ Leaves(d, CurrentFile.lib, errors')
                \/ \E new : Rebinds(d, new) /\ names' = [names EXCEPT ![d.name] = new]
<1> DEFINE d == CurrentFile.decls[item]
           r == Declare(Reading, d, CurrentFile.lib)
<1>1. phase = "file" /\ item \in DOMAIN CurrentFile.decls /\ ReadAs(r)
  BY DEF ReadDeclaration
<1>2. FilesOK /\ files # <<>> /\ errors \in Nat /\ names \in [Names -> Infos \cup {Null}]
  BY <1>1 DEF BindingOK, FilesOK, Idle, NamesOK
<1>3. CurrentFile \in Objects /\ CurrentFile = files[Len(files)] /\ Len(files) \in DOMAIN files
  BY <1>2, CurrentFileFacts
<1>4. CurrentFile.decls \in Seq(Declarations)
  BY <1>3, ObjectsAssumption
<1>5. d \in Declarations /\ d \in ToSet(CurrentFile.decls)
  BY <1>1, <1>4 DEF ToSet
<1>6. d.kind = "public" => d.arg = 0 \/ d.arg \in DOMAIN CurrentFile.segs
  BY <1>3, <1>5, ObjectsAssumption
<1>7. d.kind = "public" => d.arg = 0 \/ InFile(<<Len(files), d.arg>>)
  BY <1>3, <1>6 DEF InFile
<1>8. names' = r.names /\ exports' = r.exports /\ errors' = r.errors
  BY <1>1 DEF ReadAs
<1> HIDE DEF d
<1>9. /\ r.exports = exports /\ r.errors \in {errors, errors + 1}
      /\ \/ r.names = names /\ Leaves(d, CurrentFile.lib, r.errors)
         \/ \E new : Rebinds(d, new) /\ r.names = [names EXCEPT ![d.name] = new]
  BY <1>2, <1>5, DeclareShape
<1> HIDE DEF r
<1>10. QED
  BY <1>2, <1>5, <1>7, <1>8, <1>9 DEF d, r

\* A new binding is one.
LEMMA RebindsOK ==
  ASSUME BindingOK, Untouched, NEW d \in Declarations, NEW new, Rebinds(d, new),
         d.kind = "public" => d.arg = 0 \/ InFile(<<Len(files), d.arg>>)
  PROVE  new \in Infos /\ NameOK(new)
<1>1. /\ d.kind \in Kinds /\ d.name \in Names /\ d.arg \in Nat
      /\ names[d.name] \in Infos \cup {Null} /\ NameOK(names[d.name])
  BY DEF Declarations, BindingOK, NamesOK
<1>2. FilesOK /\ Len(files) \in Nat
  BY DEF BindingOK, FilesOK
<1>3. CASE new = Bound("public", IF d.arg = 0 THEN Null ELSE <<Len(files), d.arg>>, 0) /\ d.kind = "public"
  <2>1. new.seg = Null \/ InFile(new.seg)
    BY <1>3 DEF Bound
  <2>2. new.kind = "public"
    BY <1>3 DEF Bound
  <2>3. new \in Infos
    BY <1>1, <1>2, <1>3 DEF Bound, Infos, Kinds
  <2>4. QED BY <2>1, <2>2, <2>3 DEF NameOK
<1>4. CASE new = Bound("common", Null, d.arg)
  BY <1>1, <1>4 DEF Bound, Infos, NameOK, Kinds
<1>5. CASE names[d.name] # Null /\ names[d.name].kind = "common"
           /\ new = [names[d.name] EXCEPT !.arg = IF @ < d.arg THEN d.arg ELSE @]
  <2>1. names[d.name] \in Infos /\ names[d.name].seg = Null
    <3>1. processed = {}
      BY DEF Untouched
    <3>2. QED BY <1>1, <1>5, <3>1 DEF NameOK
  <2>2. names[d.name].arg \in Nat
    BY <2>1 DEF Infos
  <2>3. PICK a \in Nat : new = [names[d.name] EXCEPT !.arg = a]
    BY <1>1, <1>5, <2>2
  <2>4. new \in Infos /\ new.seg = Null
    BY <2>1, <2>3 DEF Infos
  <2>5. QED BY <2>4 DEF NameOK
<1>6. CASE new = Bound(d.kind, Null, IF d.kind = "weak" THEN 0 ELSE d.arg)
  BY <1>1, <1>6 DEF Bound, Infos, NameOK
<1>7. QED
  BY <1>3, <1>4, <1>5, <1>6 DEF Rebinds

LEMMA ReadDeclarationBinds ==
  ASSUME BindingOK, ReadDeclaration
  PROVE  BindingOK'
<1> DEFINE d == CurrentFile.decls[item]
<1>1. phase = "file" /\ item' = item + 1 /\ UNCHANGED <<files, entry, phase, search, sweep>>
  BY DEF ReadDeclaration
<1>2. Idle /\ Untouched /\ errors \in Nat /\ AllExportsOK(exports) /\ FilesOK /\ NamesOK
  BY <1>1 DEF Idle, BindingOK
<1>3. /\ d \in Declarations
      /\ d.kind = "public" => d.arg = 0 \/ InFile(<<Len(files), d.arg>>)
      /\ exports' = exports /\ errors' \in {errors, errors + 1}
      /\ \/ names' = names
         \/ \E new : Rebinds(d, new) /\ names' = [names EXCEPT ![d.name] = new]
  BY DeclarationFacts
<1> HIDE DEF d
<1>4. FilesOK'
  BY <1>1, <1>2 DEF FilesOK
<1>5. NamesOK'
  <2>1. CASE names' = names
    <3>1. BindingSame
      BY <1>1, <2>1 DEF BindingSame, search
    <3>2. QED BY <1>2, <3>1, NamesSame
  <2>2. CASE \E new : Rebinds(d, new) /\ names' = [names EXCEPT ![d.name] = new]
    <3>1. PICK new : Rebinds(d, new) /\ names' = [names EXCEPT ![d.name] = new]
      BY <2>2
    <3>2. new \in Infos /\ NameOK(new)
      BY <1>2, <1>3, <3>1, RebindsOK
    <3>3. names \in [Names -> Infos \cup {Null}] /\ \A n \in Names : NameOK(names[n])
      BY <1>2 DEF NamesOK
    <3>4. \A n \in Names : NameOK(names'[n])
      BY <3>1, <3>2, <3>3
    <3>5. \A n \in Names : NameOK(names[n])'
      BY <1>1, <3>4, InFileSame DEF NameOK, search
    <3>6. QED BY <3>1, <3>2, <3>3, <3>5 DEF NamesOK
  <2>3. QED BY <1>3, <2>1, <2>2
<1>6. AllExportsOK(exports)'
  BY <1>1, <1>2, <1>3, ExportsSame
<1>7. Untouched'
  BY <1>1, <1>2, UntouchedSame
<1>8. errors' \in Nat
  BY <1>2, <1>3
<1>9. QED
  BY <1>1, <1>2, <1>4, <1>5, <1>6, <1>7, <1>8 DEF BindingOK

LEMMA ReadExportBinds ==
  ASSUME BindingOK, ReadExport
  PROVE  BindingOK'
<1> DEFINE e == CurrentFile.exports[item - Len(CurrentFile.decls)]
           seg == IF e.seg = 0 THEN Null ELSE <<Len(files), e.seg>>
           r == NewExport(Reading, e, seg, OBJMOD)
<1>1. /\ phase = "file" /\ item - Len(CurrentFile.decls) \in DOMAIN CurrentFile.exports /\ ReadAs(r)
      /\ item' = item + 1 /\ UNCHANGED <<files, entry, phase, search, sweep>>
  BY DEF ReadExport
<1>2. Idle /\ Untouched /\ errors \in Nat /\ AllExportsOK(exports) /\ FilesOK /\ NamesOK /\ files # <<>>
  BY <1>1 DEF Idle, BindingOK, FilesOK
<1>3. CurrentFile \in Objects /\ CurrentFile = files[Len(files)] /\ Len(files) \in DOMAIN files
  BY <1>2, CurrentFileFacts
<1>4. e \in ToSet(CurrentFile.exports)
  BY <1>1 DEF ToSet
<1>5. e.int \in Names /\ (e.seg = 0 \/ e.seg \in DOMAIN CurrentFile.segs)
  <2>1. CurrentFile.exports \in Seq(OwnExports)
    BY <1>3, ObjectsAssumption
  <2>2. e \in OwnExports
    BY <1>1, <2>1
  <2>3. QED BY <1>3, <1>4, <2>2, ObjectsAssumption DEF OwnExports
<1>6. seg = Null \/ InFile(seg)
  BY <1>3, <1>5 DEF InFile
<1>7. names' = r.names /\ exports' = r.exports /\ errors' = r.errors
  BY <1>1 DEF ReadAs
<1> HIDE DEF e, seg
<1>8. r.names = names /\ AllExportsOK(r.exports)
  BY <1>2, <1>5, <1>6, NewExportShape
<1>9. r.errors \in Nat
  <2>1. /\ Reading.errors = errors
        /\ Reading = [names |-> names, imported |-> imported, exports |-> exports, errors |-> errors]
    BY DEF Reading
  <2>2. r.errors \in {errors, errors + 1}
    BY <2>1 DEF NewExport
  <2>3. QED BY <1>2, <2>2
<1> HIDE DEF r
<1>10. FilesOK'
  BY <1>1, <1>2 DEF FilesOK
<1>11. NamesOK'
  <2>1. BindingSame
    BY <1>1, <1>7, <1>8 DEF BindingSame, search
  <2>2. QED BY <1>2, <2>1, NamesSame
<1>12. AllExportsOK(exports)'
  BY <1>1, <1>7, <1>8, ExportsSame
<1>13. Untouched'
  BY <1>1, <1>2, UntouchedSame
<1>14. QED
  BY <1>1, <1>2, <1>7, <1>9, <1>10, <1>11, <1>12, <1>13 DEF BindingOK

\* A step after the files are read.
LEMMA LaterBinds ==
  ASSUME BindingOK, UNCHANGED <<files, item, entry>>, NamesOK', AllExportsOK(exports)', phase' # "file",
         Idle' => Untouched' /\ errors' \in Nat
  PROVE  BindingOK'
<1>1. FilesOK'
  BY DEF FilesOK, BindingOK
<1>2. QED
  BY <1>1 DEF BindingOK

\* A step that changes nothing that the binding depends on.
LEMMA SameBinds ==
  ASSUME BindingOK, UNCHANGED <<files, item, entry, exports>>, BindingSame, phase' # "file",
         Idle' => Untouched' /\ errors' \in Nat
  PROVE  BindingOK'
<1>1. NamesOK'
  BY NamesSame DEF BindingOK
<1>2. AllExportsOK(exports)'
  BY ExportsSame DEF BindingOK
<1>3. QED
  BY <1>1, <1>2, LaterBinds

LEMMA FileReadBinds ==
  ASSUME BindingOK, FileRead
  PROVE  BindingOK'
<1>1. phase = "file" /\ phase' = "read" /\ UNCHANGED <<input, errors, search, sweep>>
  BY DEF FileRead
<1>2. Untouched /\ errors \in Nat
  BY <1>1 DEF BindingOK, Idle
<1>3. Untouched'
  BY <1>1, <1>2, UntouchedSame
<1>4. QED
  BY <1>1, <1>2, <1>3, SameBinds DEF input, search, BindingSame

LEMMA LinkBinds ==
  ASSUME BindingOK, Link
  PROVE  BindingOK'
<1>1. phase = "read" /\ phase' # "file" /\ UNCHANGED <<input, errors, search, sweep>>
  BY DEF Link
<1>2. Untouched /\ errors \in Nat
  BY <1>1 DEF BindingOK, Idle
<1>3. Untouched'
  BY <1>1, <1>2, UntouchedSame
<1>4. QED
  BY <1>1, <1>2, <1>3, SameBinds DEF input, search, BindingSame

LEMMA NumberedOK ==
  ASSUME AllExportsOK(exports), NEW ord
  PROVE  AllExportsOK(Numbered(ord))
<1> DEFINE t == Numbered(ord)
<1>1. IsSequence(exports) /\ \A i \in DOMAIN exports : ExportOK(exports[i])
  BY DEF AllExportsOK
<1>2. DOMAIN exports = 1..Len(exports) /\ Len(exports) \in Nat
  BY <1>1, SequenceShape
<1>3. DOMAIN t = 1..Len(exports) /\ t = [j \in 1..Len(exports) |-> t[j]]
  BY <1>2 DEF Numbered
<1>4. IsSequence(t)
  <2> HIDE DEF t
  <2>1. QED BY <1>2, <1>3, SequenceIf
<1>5. ASSUME NEW i \in DOMAIN t PROVE ExportOK(t[i])
  <2>1. t[i] = [exports[i] EXCEPT !.ord = ord[i]] /\ ExportOK(exports[i])
    BY <1>1, <1>2, <1>3 DEF Numbered
  <2>2. exports[i].int \in Names /\ (exports[i].seg = Null \/ InFile(exports[i].seg))
    BY <2>1 DEF ExportOK
  <2>3. ExportOK([exports[i] EXCEPT !.ord = ord[i]])
    BY <2>1, <2>2, ExportExcept
  <2>4. QED BY <2>1, <2>3
<1>6. QED
  BY <1>4, <1>5 DEF AllExportsOK

LEMMA PrepareExportBinds ==
  ASSUME BindingOK, PrepareExport
  PROVE  BindingOK'
<1>1. /\ phase' = "roots" /\ UNCHANGED <<files, item, names, imported, mask, entry, search, sweep, layout>>
      /\ exports' = exports \/ \E ord : exports' = Numbered(ord)
  BY DEF PrepareExport
<1>2. AllExportsOK(exports)'
  <2>1. \A ord : AllExportsOK(Numbered(ord))
    BY NumberedOK DEF BindingOK
  <2>2. QED BY <1>1, <2>1, ExportsSame DEF BindingOK
<1>3. NamesOK'
  BY <1>1, NamesSame DEF BindingOK, BindingSame, search
<1>4. QED
  BY <1>1, <1>2, <1>3, LaterBinds DEF Idle

-----------------------------------------------------------------------------
(* What a step of the collection brings in *)

\* The set of what it is about, at most one segment: it is marked already, or
\* it becomes marked and its call comes on top of the stack.
Brings(D, rest) ==
  /\ processed \subseteq processed'
  /\ processed' \subseteq processed \cup D \cup ({0} \X Nat)
  /\ \/ D \subseteq processed /\ stack' = rest
     \/ \E s \in D : D = {s} /\ s \in processed' /\ stack' = Call(s, rest)

SameDefinitions == \A n \in Names : DefinedIn(n)' = DefinedIn(n)

LEMMA OnceBrings ==
  ASSUME NEW s, NEW rest, CollectOnce(s, rest)
  PROVE  Brings({s}, rest)
BY DEF CollectOnce, CollectSegments, Brings

LEMMA CreateSegmentShape ==
  ASSUME NamesOK, files' = files, commons \in Seq(Names), NEW n \in Names, Kind(n) = "common", createSegment(n)
  PROVE  /\ NamesOK' /\ commons' \in Seq(Names) /\ SameDefinitions
         /\ processed \subseteq processed' /\ processed' \subseteq processed \cup ({0} \X Nat)
<1> DEFINE s == <<0, Len(commons')>>
<1>1. /\ commons' = Append(commons, n) /\ names' = [names EXCEPT ![n].seg = s]
      /\ processed' = processed \cup {s}
  BY DEF createSegment
<1>2. commons' \in Seq(Names) /\ Len(commons') \in Nat
  BY <1>1
<1>3. s \in Nat \X Nat /\ s \in {0} \X Nat /\ s[1] = 0
  BY <1>2
<1>4. names \in [Names -> Infos \cup {Null}] /\ \A m \in Names : NameOK(names[m])
  BY DEF NamesOK
<1>5. names[n] # Null /\ names[n].kind = "common" /\ names[n] \in Infos
  BY <1>4 DEF Kind
<1> HIDE DEF s
<1>6. names'[n] = [names[n] EXCEPT !.seg = s] /\ \A m \in Names : m # n => names'[m] = names[m]
  BY <1>1, <1>4
<1>7. names'[n] \in Infos /\ names'[n].kind = "common" /\ names'[n].seg = s
  BY <1>3, <1>5, <1>6 DEF Infos
<1>8. names' \in [Names -> Infos \cup {Null}]
  BY <1>1, <1>4, <1>6, <1>7
<1>9. \A m \in Names : NameOK(names[m])'
  <2>1. NameOK(names[n])'
    BY <1>1, <1>3, <1>7 DEF NameOK
  <2>2. ASSUME NEW m \in Names, m # n PROVE NameOK(names[m])'
    BY <1>1, <1>4, <1>6, <2>2, InFileSame DEF NameOK
  <2>3. QED BY <2>1, <2>2
<1>10. NamesOK'
  BY <1>8, <1>9 DEF NamesOK
<1>11. SameDefinitions
  BY <1>5, <1>6, <1>7 DEF SameDefinitions, DefinedIn
<1>12. QED
  BY <1>1, <1>2, <1>3, <1>10, <1>11

\* Following an identifier brings in the segment it is defined in, if it is.
FollowsName(n, rest) ==
  \/ ToDefined(n, rest) \/ ToCommon(n, rest) \/ ToImport(n, rest) \/ ToNothing(n, rest)
  \/ /\ names[n] # Null /\ ~Defined(n) /\ Kind(n) # "common"
     /\ stack' = rest
     /\ UNCHANGED <<names, commons, processed, undefs, errors, phase>>

LEMMA NameBrings ==
  ASSUME NamesOK, files' = files, commons \in Seq(Names), NEW n \in Names, NEW rest, FollowsName(n, rest)
  PROVE  /\ NamesOK' /\ commons' \in Seq(Names) /\ SameDefinitions /\ phase' = phase
         /\ Brings(DefinedIn(n), rest)
<1>0. NameOK(names[n])
  BY DEF NamesOK
<1>n. ASSUME UNCHANGED <<names, commons>>, processed \subseteq processed'
      PROVE  NamesOK' /\ commons' \in Seq(Names) /\ SameDefinitions
  <2>1. NamesOK'
    BY <1>n, NamesSame DEF BindingSame
  <2>2. QED BY <1>n, <2>1 DEF SameDefinitions, DefinedIn
<1>s. ASSUME DefinedIn(n) = {}, processed \subseteq processed', processed' \subseteq processed \cup ({0} \X Nat), stack' = rest
      PROVE  Brings(DefinedIn(n), rest)
  BY <1>s DEF Brings
<1>1. CASE ToDefined(n, rest)
  <2>1. Defined(n) /\ CollectOnce(names[n].seg, rest) /\ UNCHANGED <<names, commons, phase>>
    BY <1>1 DEF ToDefined
  <2>2. Brings({names[n].seg}, rest)
    BY <2>1, OnceBrings
  <2>3. processed \subseteq processed'
    BY <2>2 DEF Brings
  <2>4. Brings(DefinedIn(n), rest)
    <3>1. CASE names[n].kind = "public"
      BY <2>1, <2>2, <3>1 DEF DefinedIn, Defined
    <3>2. CASE names[n].kind # "public"
      <4>1. names[n].seg \in processed /\ DefinedIn(n) = {}
        BY <1>0, <2>1, <3>2 DEF NameOK, Defined, DefinedIn
      <4>2. stack' = rest /\ processed' = processed
        BY <2>1, <4>1 DEF CollectOnce
      <4>3. QED BY <1>s, <4>1, <4>2
    <3>3. QED BY <3>1, <3>2
  <2>5. QED BY <1>n, <2>1, <2>3, <2>4
<1>2. CASE ToCommon(n, rest)
  <2>1. Kind(n) = "common" /\ ~Defined(n) /\ createSegment(n) /\ stack' = rest /\ phase' = phase
    BY <1>2 DEF ToCommon
  <2>2. DefinedIn(n) = {}
    BY <2>1 DEF DefinedIn, Defined
  <2>3. QED BY <1>s, <2>1, <2>2, CreateSegmentShape
<1>3. CASE /\ UNCHANGED <<names, commons, processed, phase>> /\ stack' = rest
           /\ Kind(n) \in Imports \cup {"none"} \/ ~Defined(n)
  <2>1. DefinedIn(n) = {}
    BY <1>3 DEF DefinedIn, Kind, Imports, Defined
  <2>2. QED BY <1>n, <1>s, <1>3, <2>1
<1>4. QED
  BY <1>1, <1>2, <1>3 DEF FollowsName, ToImport, ToNothing

-----------------------------------------------------------------------------
(* What the program needs does not change while it is collected *)

Fixed == UNCHANGED <<files, exports, mask, entry>> /\ SameDefinitions
FileSegs == {s \in Nat \X Nat : InFile(s)}

LEMMA FixupTargetsSame ==
  ASSUME BindingOK, Fixed, NEW s, InFile(s)
  PROVE  /\ FixupTargets(s)' = FixupTargets(s) /\ Seg(s)' = Seg(s)
         /\ Seg(s).clazz = "IDATA" => DefinedIn(files[s[1]].extrnl)' = DefinedIn(files[s[1]].extrnl)
<1>1. /\ s[1] # 0 /\ Seg(s) = files[s[1]].segs[s[2]]
      /\ Seg(s).fixups \in Seq(Fixups)
  BY SegmentFacts DEF BindingOK
<1>2. Seg(s)' = Seg(s)
  BY <1>1 DEF Seg, Fixed
<1>3. \A x \in ToSet(Seg(s).fixups) : x.name # Null => DefinedIn(x.name)' = DefinedIn(x.name)
  <2>1. \A x \in ToSet(Seg(s).fixups) : x \in Fixups
    BY <1>1 DEF ToSet
  <2>2. \A x \in ToSet(Seg(s).fixups) : x.name # Null => x.name \in Names
    BY <2>1 DEF Fixups
  <2>3. QED BY <2>2 DEF Fixed, SameDefinitions
<1>4. \A y : y \in FixupTargets(s)' <=> y \in FixupTargets(s)
  <2> DEFINE F == ToSet(Seg(s).fixups)
  <2>1. F' = F
    BY <1>2 DEF ToSet
  <2>2. \A y : y \in FixupTargets(s) <=>
          \E x \in F : y \in (IF x.name = Null THEN {<<s[1], x.own>>} ELSE DefinedIn(x.name))
    BY DEF FixupTargets
  <2>3. \A y : y \in FixupTargets(s)' <=>
          \E x \in F : y \in (IF x.name = Null THEN {<<s[1], x.own>>} ELSE DefinedIn(x.name)')
    <3> HIDE DEF F
    <3>1. \A y : y \in FixupTargets(s)' <=>
          \E x \in F' : y \in (IF x.name = Null THEN {<<s[1], x.own>>} ELSE DefinedIn(x.name)')
      BY DEF FixupTargets, F
    <3>2. QED BY <2>1, <3>1
  <2>4. \A x \in F : x.name # Null => DefinedIn(x.name)' = DefinedIn(x.name)
    BY <1>3
  <2> HIDE DEF F
  <2>5. QED BY <2>2, <2>3, <2>4
<1>5. Seg(s).clazz = "IDATA" => DefinedIn(files[s[1]].extrnl)' = DefinedIn(files[s[1]].extrnl)
  <2>1. Seg(s).clazz = "IDATA" => files[s[1]].extrnl \in Names
    BY <1>1, DescriptorFacts DEF BindingOK
  <2>2. \A n \in Names : DefinedIn(n)' = DefinedIn(n)
    BY DEF Fixed, SameDefinitions
  <2>3. PICK n : n = files[s[1]].extrnl
    OBVIOUS
  <2>4. Seg(s).clazz = "IDATA" => DefinedIn(n)' = DefinedIn(n)
    BY <2>1, <2>2, <2>3
  <2>5. n = files'[s[1]].extrnl
    BY <2>3 DEF Fixed
  <2>6. QED BY <2>3, <2>4, <2>5 DEF DefinedIn
<1>6. QED
  BY <1>2, <1>4, <1>5

LEMMA RootSegmentsSame ==
  ASSUME BindingOK, Fixed
  PROVE  RootSegments' = RootSegments
<1> DEFINE R == {x \in ToSet(exports) : Exported(x)}
           S == {x \in ToSet(exports)' : Exported(x)'}
<1>1. R = S
  BY DEF Fixed, Exported, ToSet
<1>2. \A e \in R : e.seg = Null => DefinedIn(e.int)' = DefinedIn(e.int)
  <2>1. \A e \in R : e.int \in Names
    BY DEF BindingOK, AllExportsOK, ExportOK, ToSet
  <2>2. QED BY <2>1 DEF Fixed, SameDefinitions
<1>3. entry # Null => DefinedIn(entry)' = DefinedIn(entry)
  <2>1. entry # Null => entry \in Names
    BY OptionsAssumption DEF BindingOK
  <2>2. QED BY <2>1 DEF Fixed, SameDefinitions
<1>4. \A y : y \in RootSegments <=>
        \/ \E e \in R : y \in (IF e.seg # Null THEN {e.seg} ELSE DefinedIn(e.int))
        \/ entry # Null /\ y \in DefinedIn(entry)
  <2> DEFINE U == UNION {IF e.seg # Null THEN {e.seg} ELSE DefinedIn(e.int) : e \in R}
             W == IF entry # Null THEN DefinedIn(entry) ELSE {}
  <2>1. RootSegments = U \cup W
    BY DEF RootSegments
  <2>2. \A y : y \in U <=> \E e \in R : y \in (IF e.seg # Null THEN {e.seg} ELSE DefinedIn(e.int))
    <3> HIDE DEF R
    <3>1. QED OBVIOUS
  <2>3. \A y : y \in W <=> entry # Null /\ y \in DefinedIn(entry)
    OBVIOUS
  <2> HIDE DEF U, W
  <2>5. QED BY <2>1, <2>2, <2>3
<1>5. \A y : y \in RootSegments' <=>
        \/ \E e \in S : y \in (IF e.seg # Null THEN {e.seg} ELSE DefinedIn(e.int)')
        \/ entry' # Null /\ y \in DefinedIn(entry)'
  <2> DEFINE U == UNION {IF e.seg # Null THEN {e.seg} ELSE DefinedIn(e.int)' : e \in S}
             W == IF entry' # Null THEN DefinedIn(entry)' ELSE {}
  <2>1. RootSegments' = U \cup W
    BY DEF RootSegments
  <2>2. \A y : y \in U <=> \E e \in S : y \in (IF e.seg # Null THEN {e.seg} ELSE DefinedIn(e.int)')
    <3> HIDE DEF S
    <3>1. QED OBVIOUS
  <2>3. \A y : y \in W <=> entry' # Null /\ y \in DefinedIn(entry)'
    OBVIOUS
  <2> HIDE DEF U, W
  <2>5. QED BY <2>1, <2>2, <2>3
<1>6. entry' = entry
  BY DEF Fixed
<1> HIDE DEF R, S
<1>7. \A y : y \in RootSegments' <=> y \in RootSegments
  BY <1>1, <1>2, <1>3, <1>4, <1>5, <1>6
<1>8. QED
  BY <1>7

LEMMA AllOfSame ==
  ASSUME files' = files, FilesOK, NEW f \in DOMAIN files
  PROVE  /\ AllOf(f)' = AllOf(f)
         /\ \A s : s \in AllOf(f) <=> \E i \in DOMAIN files[f].segs : s = <<f, i>> /\ Linkable(s)
         /\ \A s \in AllOf(f) : s[1] = f
<1>1. f # 0
  BY FileFacts
<1>2. \A i \in DOMAIN files[f].segs : Linkable(<<f, i>>) <=> files[f].segs[i].clazz # "DEBUG"
  BY <1>1 DEF Linkable, Seg
<1>3. \A i \in DOMAIN files[f].segs : Linkable(<<f, i>>)' <=> files[f].segs[i].clazz # "DEBUG"
  BY <1>1 DEF Linkable, Seg
<1>4. \A s : s \in ToSet(SegmentsOf(f)) <=> \E i \in DOMAIN files[f].segs : s = <<f, i>>
  BY DEF ToSet, SegmentsOf
<1>5. \A s : s \in ToSet(SegmentsOf(f))' <=> \E i \in DOMAIN files[f].segs : s = <<f, i>>
  BY DEF ToSet, SegmentsOf
<1>6. \A s : s \in AllOf(f) <=> s \in ToSet(SegmentsOf(f)) /\ Linkable(s)
  BY DEF AllOf
<1>7. \A s : s \in AllOf(f)' <=> s \in ToSet(SegmentsOf(f))' /\ Linkable(s)'
  BY DEF AllOf
<1>8. \A s : s \in AllOf(f)' <=> s \in AllOf(f)
  BY <1>2, <1>3, <1>4, <1>5, <1>6, <1>7
<1>9. QED
  BY <1>4, <1>6, <1>8

LEMMA NeedsSame ==
  ASSUME BindingOK, Fixed, NEW T, \A s \in FromFiles(T) : InFile(s)
  PROVE  Needs(T)' <=> Needs(T)
<1>1. RootSegments' = RootSegments
  BY RootSegmentsSame
<1>2. \A s \in FromFiles(T) : /\ FixupTargets(s)' = FixupTargets(s) /\ Seg(s)' = Seg(s)
                              /\ Seg(s).clazz = "IDATA" => DefinedIn(files[s[1]].extrnl)' = DefinedIn(files[s[1]].extrnl)
  BY FixupTargetsSame
<1>3. files' = files /\ FilesOK
  BY DEF Fixed, BindingOK
<1>4. Last(files)' = Last(files)
  BY <1>3 DEF Last
<1>5. \A f \in DOMAIN files : AllOf(f)' = AllOf(f)
  BY <1>3, AllOfSame
<1> DEFINE A == RootSegments \subseteq T
           B == \A s \in FromFiles(T) :
                  /\ FixupTargets(s) \subseteq T
                  /\ Seg(s).clazz = "IDATA" => DefinedIn(files[s[1]].extrnl) \subseteq T
           C == ~Last(files).smart =>
                  \A f \in DOMAIN files : ~files[f].smart /\ (files[f].lib = Null \/ \E s \in T : s[1] = f)
                                            => AllOf(f) \subseteq T
<1>6. A' <=> A
  BY <1>1
<1>7. B' <=> B
  BY <1>2 DEF FromFiles
<1>8. C' <=> C
  BY <1>3, <1>4, <1>5
<1>9. Needs(T) <=> A /\ B /\ C
  BY DEF Needs
<1>10. Needs(T)' <=> A' /\ B' /\ C'
  BY DEF Needs
<1> HIDE DEF A, B, C
<1>11. QED
  BY <1>6, <1>7, <1>8, <1>9, <1>10

\* The set of what must be marked with every set that has what is needed.
LEMMA MinimalGrows ==
  ASSUME BindingOK, Fixed, Minimal, NEW D, D \subseteq FileSegs,
         \A T \in SUBSET FileSegs : Needs(T) /\ FromFiles(processed) \subseteq T => D \subseteq T,
         processed' \subseteq processed \cup D \cup ({0} \X Nat)
  PROVE  Minimal'
<1>1. FileSegs' = FileSegs
  BY InFileSame DEF FileSegs, Fixed
<1>2. ASSUME NEW T \in SUBSET FileSegs, Needs(T)' PROVE FromFiles(processed)' \subseteq T
  <2>1. Needs(T)
    <3>1. \A s \in FromFiles(T) : InFile(s)
      BY DEF FromFiles, FileSegs
    <3>2. QED BY <1>2, <3>1, NeedsSame
  <2>2. FromFiles(processed) \subseteq T /\ D \subseteq T
    BY <2>1 DEF Minimal, FileSegs
  <2>3. QED BY <2>2 DEF FromFiles
<1>3. QED
  BY <1>1, <1>2 DEF Minimal, FileSegs

-----------------------------------------------------------------------------
(* The stack of calls *)

LEMMA ConsMembers ==
  ASSUME NEW c \in Calls, NEW rest \in Seq(Calls)
  PROVE  /\ <<c>> \o rest \in Seq(Calls)
         /\ ToSet(<<c>> \o rest) = {c} \cup ToSet(rest)
<1> DEFINE t == <<c>> \o rest
<1>1. /\ t \in Seq(Calls) /\ Len(t) = Len(rest) + 1 /\ Len(rest) \in Nat
      /\ \A i \in 1..Len(rest) + 1 : t[i] = IF i = 1 THEN c ELSE rest[i - 1]
  OBVIOUS
<1>2. \A x : x \in ToSet(rest) <=> \E i \in 1..Len(rest) : rest[i] = x
  BY ToSetMember
<1> HIDE DEF t
<1>3. \A x : x \in ToSet(t) <=> \E i \in 1..Len(t) : t[i] = x
  BY <1>1, ToSetMember
<1>4. t[1] = c /\ \A i \in 1..Len(rest) : t[i + 1] = rest[i] /\ i + 1 \in 1..Len(t)
  BY <1>1
<1>5. \A i \in 1..Len(t) : t[i] = c \/ (i - 1 \in 1..Len(rest) /\ t[i] = rest[i - 1])
  BY <1>1
<1>6. 1 \in 1..Len(t)
  BY <1>1
<1>7. \A x : x \in ToSet(t) <=> x = c \/ x \in ToSet(rest)
  BY <1>2, <1>3, <1>4, <1>5, <1>6
<1>8. QED
  BY <1>1, <1>7 DEF t

LEMMA CallShape ==
  ASSUME NEW s \in Nat \X Nat, NEW rest \in Seq(Calls)
  PROVE  /\ Call(s, rest) \in Seq(Calls)
         /\ ToSet(Call(s, rest)) = {[seg |-> s, at |-> 1]} \cup ToSet(rest)
<1>1. [seg |-> s, at |-> 1] \in Calls
  BY DEF Calls
<1>2. QED
  BY <1>1, ConsMembers DEF Call

LEMMA StackShape ==
  ASSUME stack \in Seq(Calls), stack # <<>>
  PROVE  /\ Caller \in Calls /\ Tail(stack) \in Seq(Calls)
         /\ ToSet(stack) = {Caller} \cup ToSet(Tail(stack))
<1>1. /\ Len(stack) \in Nat \ {0} /\ Tail(stack) \in Seq(Calls) /\ Len(Tail(stack)) = Len(stack) - 1
      /\ \A i \in 1..Len(stack) - 1 : Tail(stack)[i] = stack[i + 1]
  BY EmptySeq, HeadTailProperties
<1>2. Caller = stack[1] /\ Caller \in Calls
  BY <1>1 DEF Caller
<1>3. \A x : x \in ToSet(stack) <=> \E i \in 1..Len(stack) : stack[i] = x
  BY ToSetMember
<1>4. \A x : x \in ToSet(Tail(stack)) <=> \E i \in 1..Len(stack) - 1 : Tail(stack)[i] = x
  BY <1>1, ToSetMember
<1>5. \A i \in 1..Len(stack) : i = 1 \/ i - 1 \in 1..Len(stack) - 1
  BY <1>1
<1>6. \A i \in 1..Len(stack) - 1 : i + 1 \in 1..Len(stack)
  BY <1>1
<1>7. \A i \in 1..Len(stack) : i # 1 => Tail(stack)[i - 1] = stack[i]
  BY <1>1
<1>8. 1 \in 1..Len(stack)
  BY <1>1
<1>9. \A x : x \in ToSet(stack) <=> x = Caller \/ x \in ToSet(Tail(stack))
  BY <1>1, <1>2, <1>3, <1>4, <1>5, <1>6, <1>7, <1>8
<1>10. QED
  BY <1>1, <1>2, <1>9

LEMMA OnwardShape ==
  ASSUME stack \in Seq(Calls), stack # <<>>
  PROVE  /\ Onward \in Seq(Calls)
         /\ ToSet(Onward) = {[seg |-> Caller.seg, at |-> Caller.at + 1]} \cup ToSet(Tail(stack))
<1>1. Caller \in Calls /\ Tail(stack) \in Seq(Calls)
  BY StackShape
<1>2. PICK c : c = [seg |-> Caller.seg, at |-> Caller.at + 1]
  OBVIOUS
<1>3. PICK u \in Nat \X Nat, v \in Nat \ {0} : Caller = [seg |-> u, at |-> v]
  BY <1>1 DEF Calls
<1>4. c = [seg |-> u, at |-> v + 1] /\ c \in Calls
  BY <1>2, <1>3 DEF Calls
<1>5. Onward = <<c>> \o Tail(stack)
  <2>1. [[seg |-> u, at |-> v] EXCEPT !.at = @ + 1] = [seg |-> u, at |-> v + 1]
    OBVIOUS
  <2>2. QED BY <1>3, <1>4, <2>1 DEF Onward
<1>6. QED
  BY <1>1, <1>2, <1>4, <1>5, ConsMembers

-----------------------------------------------------------------------------
(* What is kept when something is brought in *)

\* The calls that go on are calls there were, and one that goes on behind a
\* fixup has brought in what the fixup refers to.
GoesOn(rest, D) ==
  /\ rest \in Seq(Calls)
  /\ \A c \in ToSet(rest) : \E b \in ToSet(stack) : b.seg = c.seg
  /\ \A b \in ToSet(stack) : \E c \in ToSet(rest) : c.seg = b.seg
  /\ \A s \in FromFiles(processed) : \A j \in DOMAIN files[s[1]].segs[s[2]].fixups :
       OnStack(s, j) => Target(s, j) \subseteq D \/ \E c \in ToSet(rest) : c.seg = s /\ c.at <= j

LEMMA BringsTo ==
  ASSUME NEW D, D \subseteq FileSegs, NEW rest \in Seq(Calls), Brings(D, rest)
  PROVE  /\ D \subseteq processed' /\ stack' \in Seq(Calls)
         /\ ToSet(rest) \subseteq ToSet(stack)'
         /\ \A c \in ToSet(stack)' : c \in ToSet(rest) \/ (c.seg \in D /\ c.at = 1)
         /\ \A s \in D : s \in processed \/ [seg |-> s, at |-> 1] \in ToSet(stack)'
<1>1. CASE D \subseteq processed /\ stack' = rest
  <2>1. ToSet(stack)' = ToSet(rest)
    BY <1>1 DEF ToSet
  <2>2. QED BY <1>1, <2>1 DEF Brings
<1>2. CASE \E s \in D : D = {s} /\ s \in processed' /\ stack' = Call(s, rest)
  <2>1. PICK s \in D : D = {s} /\ s \in processed' /\ stack' = Call(s, rest)
    BY <1>2
  <2>2. s \in Nat \X Nat
    BY DEF FileSegs
  <2>3. Call(s, rest) \in Seq(Calls) /\ ToSet(Call(s, rest)) = {[seg |-> s, at |-> 1]} \cup ToSet(rest)
    BY <2>2, CallShape
  <2>4. ToSet(stack)' = {[seg |-> s, at |-> 1]} \cup ToSet(rest)
    BY <2>1, <2>3 DEF ToSet
  <2>5. QED BY <2>1, <2>3, <2>4
<1>3. QED
  BY <1>1, <1>2 DEF Brings

LEMMA StackGrows ==
  ASSUME StackOK, files' = files, commons' \in Seq(Names), NEW D, D \subseteq FileSegs, NEW rest,
         GoesOn(rest, D), Brings(D, rest)
  PROVE  StackOK'
<1>1. rest \in Seq(Calls) /\ \A c \in ToSet(rest) : \E b \in ToSet(stack) : b.seg = c.seg
  BY DEF GoesOn
<1>2. /\ D \subseteq processed' /\ stack' \in Seq(Calls)
      /\ \A c \in ToSet(stack)' : c \in ToSet(rest) \/ (c.seg \in D /\ c.at = 1)
  BY <1>1, BringsTo
<1>3. processed \subseteq processed' /\ processed' \subseteq processed \cup D \cup ({0} \X Nat)
  BY DEF Brings
<1>4. \A s : InFile(s)' <=> InFile(s)
  BY InFileSame
<1>5. \A s \in D : InFile(s)
  BY DEF FileSegs
<1>6. \A s \in processed' : InFile(s)' \/ s \in {0} \X Nat
  BY <1>3, <1>4, <1>5 DEF StackOK
<1>7. \A c \in ToSet(stack)' : InFile(c.seg) /\ c.seg \in processed'
  <2>1. \A b \in ToSet(stack) : InFile(b.seg) /\ b.seg \in processed
    BY DEF StackOK
  <2>2. QED BY <1>1, <1>2, <1>3, <1>5, <2>1
<1>8. \A c \in ToSet(stack)' : InFile(c.seg)' /\ c.seg \in processed'
  BY <1>4, <1>7
<1>9. QED
  BY <1>2, <1>6, <1>8 DEF StackOK

LEMMA TargetSame ==
  ASSUME BindingOK, Fixed, NEW s, InFile(s), NEW j \in DOMAIN files[s[1]].segs[s[2]].fixups
  PROVE  Target(s, j)' = Target(s, j) /\ Target(s, j) \subseteq FileSegs
<1> DEFINE x == files[s[1]].segs[s[2]].fixups[j]
<1>1. FilesOK /\ files' = files /\ NamesOK
  BY DEF BindingOK, Fixed
<1>2. /\ x.name = Null => InFile(<<s[1], x.own>>)
      /\ x.name # Null => x.name \in Names
  BY <1>1, FixupFacts
<1>3. PICK n : n = x.name
  OBVIOUS
<1>4. n # Null => DefinedIn(n)' = DefinedIn(n) /\ DefinedIn(n) \subseteq {r : r \in {names[n].seg}} /\ NameOK(names[n])
  BY <1>1, <1>2, <1>3 DEF Fixed, SameDefinitions, NamesOK, DefinedIn
<1>5. Target(s, j) = IF n = Null THEN {<<s[1], x.own>>} ELSE DefinedIn(n)
  BY <1>3 DEF Target
<1>6. Target(s, j)' = IF n = Null THEN {<<s[1], x.own>>} ELSE DefinedIn(n)'
  BY <1>1, <1>3 DEF Target
<1>7. \A r : InFile(r) => r \in FileSegs
  BY <1>1, SegmentFacts DEF FileSegs
<1>8. n # Null => DefinedIn(n) \subseteq FileSegs
  BY <1>4, <1>7 DEF DefinedIn, NameOK
<1>9. QED
  BY <1>2, <1>3, <1>4, <1>5, <1>6, <1>7, <1>8

\* What an identifier is defined in is a segment of a file.
LEMMA DefinedInFile ==
  ASSUME BindingOK, NEW n \in Names
  PROVE  DefinedIn(n) \subseteq FileSegs
<1>1. NameOK(names[n]) /\ FilesOK
  BY DEF BindingOK, NamesOK
<1>2. \A r : InFile(r) => r \in FileSegs
  BY <1>1, SegmentFacts DEF FileSegs
<1>3. QED
  BY <1>1, <1>2 DEF DefinedIn, NameOK

LEMMA FollowedGrows ==
  ASSUME BindingOK, StackOK, Fixed, NEW D, D \subseteq FileSegs, NEW rest,
         GoesOn(rest, D), Brings(D, rest), Followed
  PROVE  Followed'
<1>1. /\ D \subseteq processed' /\ ToSet(rest) \subseteq ToSet(stack)'
      /\ \A s \in D : s \in processed \/ [seg |-> s, at |-> 1] \in ToSet(stack)'
  BY BringsTo DEF GoesOn
<1>2. processed \subseteq processed' /\ processed' \subseteq processed \cup D \cup ({0} \X Nat)
  BY DEF Brings
<1>3. ASSUME NEW s \in FromFiles(processed'), NEW j \in DOMAIN files[s[1]].segs[s[2]].fixups
      PROVE  Target(s, j) \subseteq processed' \/ \E c \in ToSet(stack)' : c.seg = s /\ c.at <= j
  <2>1. s \in FromFiles(processed) \/ s \in D
    BY <1>2 DEF FromFiles
  <2>2. InFile(s)
    BY <2>1 DEF StackOK, FileSegs, FromFiles
  <2>3. j \in Nat \ {0}
    BY <2>2, FixupFacts DEF BindingOK
  <2>4. CASE s \in FromFiles(processed)
    <3>1. Target(s, j) \subseteq processed \/ OnStack(s, j)
      BY <2>4 DEF Followed
    <3>2. OnStack(s, j) => Target(s, j) \subseteq D \/ \E c \in ToSet(rest) : c.seg = s /\ c.at <= j
      BY <2>4 DEF GoesOn
    <3>3. QED BY <1>1, <1>2, <3>1, <3>2
  <2>5. CASE s \in D /\ s \notin processed
    <3>1. [seg |-> s, at |-> 1] \in ToSet(stack)' /\ 1 <= j
      BY <1>1, <2>3, <2>5
    <3>2. QED BY <3>1
  <2>6. QED BY <2>1, <2>4, <2>5 DEF FromFiles
<1>4. \A s \in FromFiles(processed') : InFile(s)
  BY <1>2 DEF StackOK, FileSegs, FromFiles
<1>5. files' = files
  BY DEF Fixed
<1>6. ASSUME NEW s \in FromFiles(processed'), NEW j \in DOMAIN files'[s[1]].segs[s[2]].fixups
      PROVE  Target(s, j)' \subseteq processed' \/ \E c \in ToSet(stack)' : c.seg = s /\ c.at <= j
  BY <1>3, <1>4, <1>5, TargetSame
<1>7. QED
  BY <1>6 DEF Followed, OnStack, FromFiles

LEMMA DescribedGrows ==
  ASSUME BindingOK, StackOK, Fixed, NEW D, D \subseteq FileSegs, NEW rest,
         GoesOn(rest, D), Brings(D, rest), Described, idata \subseteq idata',
         \A f \in idata' : f \in idata \/ (files[f].extrnl \in Names /\ DefinedIn(files[f].extrnl) \subseteq D)
  PROVE  Described'
<1>1. /\ D \subseteq processed' /\ ToSet(rest) \subseteq ToSet(stack)'
      /\ \A s \in D : s \in processed \/ [seg |-> s, at |-> 1] \in ToSet(stack)'
  BY BringsTo DEF GoesOn
<1>2. processed \subseteq processed' /\ processed' \subseteq processed \cup D \cup ({0} \X Nat)
  BY DEF Brings
<1>3. files' = files /\ \A n \in Names : DefinedIn(n)' = DefinedIn(n)
  BY DEF Fixed, SameDefinitions
<1>4. ASSUME NEW s \in FromFiles(processed'), files[s[1]].segs[s[2]].clazz = "IDATA"
      PROVE  s[1] \in idata' \/ \E c \in ToSet(stack)' : c.seg = s
  <2>1. CASE s \in FromFiles(processed)
    <3>1. s[1] \in idata \/ \E c \in ToSet(stack) : c.seg = s
      BY <1>4, <2>1 DEF Described
    <3>2. (\E c \in ToSet(stack) : c.seg = s) => \E c \in ToSet(rest) : c.seg = s
      BY DEF GoesOn
    <3>3. QED BY <1>1, <3>1, <3>2
  <2>2. CASE s \in D /\ s \notin processed
    <3>1. [seg |-> s, at |-> 1] \in ToSet(stack)'
      BY <1>1, <2>2
    <3>2. QED BY <3>1
  <2>3. QED BY <1>2, <2>1, <2>2 DEF FromFiles
<1>5. ASSUME NEW f \in idata'
      PROVE  files'[f].extrnl \in Names /\ (DefinedIn(files[f].extrnl) \subseteq processed)'
  <2>1. files[f].extrnl \in Names /\ DefinedIn(files[f].extrnl) \subseteq processed \cup D
    BY DEF Described
  <2>2. PICK n \in Names : n = files[f].extrnl
    BY <2>1
  <2>3. DefinedIn(n) \subseteq processed' /\ DefinedIn(n)' = DefinedIn(n)
    BY <1>1, <1>2, <1>3, <2>1, <2>2
  <2>4. n = files'[f].extrnl
    BY <1>3, <2>2
  <2>5. DefinedIn(n)' \subseteq processed'
    BY <2>3
  <2>6. (DefinedIn(files[f].extrnl) \subseteq processed)'
    BY <2>4, <2>5 DEF DefinedIn
  <2>7. QED BY <2>4, <2>6
<1>6. QED
  BY <1>3, <1>4, <1>5 DEF Described, FromFiles

\* The roots that are behind are marked.
LEMMA RootedGrows ==
  ASSUME BindingOK, Fixed, Rooted, processed \subseteq processed', root' \in Nat,
         root' = 0 => stack' = <<>>,
         root = 0 /\ root' > 0 /\ entry # Null => DefinedIn(entry) \subseteq processed',
         \A i \in DOMAIN exports : i >= root /\ i < root' /\ Exported(exports[i]) => RootOf(exports[i]) \subseteq processed'
  PROVE  Rooted'
<1>1. UNCHANGED <<files, exports, mask, entry>> /\ \A n \in Names : DefinedIn(n)' = DefinedIn(n)
  BY DEF Fixed, SameDefinitions
<1>2. root' > 0 /\ entry' # Null => (DefinedIn(entry) \subseteq processed)'
  <2>1. entry # Null => entry \in Names
    BY OptionsAssumption DEF BindingOK
  <2>2. PICK n : n = entry
    OBVIOUS
  <2>3. root' > 0 /\ n # Null => DefinedIn(n)' \subseteq processed'
    BY <1>1, <2>1, <2>2 DEF Rooted
  <2>4. n = entry'
    BY <1>1, <2>2
  <2>5. QED BY <2>3, <2>4 DEF DefinedIn
<1>3. ASSUME NEW i \in DOMAIN exports, i < root', Exported(exports[i])
      PROVE  (RootOf(exports[i]) \subseteq processed)'
  <2>1. PICK e : e = exports[i]
    OBVIOUS
  <2>2. e.int \in Names
    BY <2>1 DEF BindingOK, AllExportsOK, ExportOK
  <2>3. i \in Nat
    BY SequenceShape DEF BindingOK, AllExportsOK
  <2>4. RootOf(e) \subseteq processed'
    <3>1. CASE i < root
      BY <1>3, <2>1, <3>1 DEF Rooted
    <3>2. CASE i >= root
      BY <1>3, <2>1, <3>2
    <3>3. QED BY <2>3, <3>1, <3>2 DEF Rooted
  <2>5. RootOf(e)' = RootOf(e)
    BY <1>1, <2>2 DEF RootOf
  <2>6. e = exports'[i]
    BY <1>1, <2>1
  <2>7. RootOf(e)' \subseteq processed'
    BY <2>4, <2>5
  <2>8. QED BY <2>6, <2>7 DEF RootOf, DefinedIn
<1>4. \A e : Exported(e)' <=> Exported(e)
  BY <1>1 DEF Exported
<1>5. \A i \in DOMAIN exports' : i < root' /\ Exported(exports[i])' => (RootOf(exports[i]) \subseteq processed)'
  BY <1>1, <1>3, <1>4 DEF Exported
<1>6. QED
  BY <1>2, <1>5 DEF Rooted

LEMMA WholeGrows ==
  ASSUME BindingOK, files' = files, processed \subseteq processed',
         \A f \in DOMAIN files : f \in whole => AllOf(f) \subseteq processed,
         \A f \in DOMAIN files : f \in whole' => f \in whole \/ AllOf(f) \subseteq processed
  PROVE  \A f \in DOMAIN files' : f \in whole' => (AllOf(f) \subseteq processed)'
<1>1. \A f \in DOMAIN files : AllOf(f)' = AllOf(f)
  BY AllOfSame DEF BindingOK
<1>2. QED
  BY <1>1

LEMMA SweptKept ==
  ASSUME BindingOK, Swept, Fixed, UNCHANGED sweep, phase' = phase, phase \in {"roots", "all"},
         phase = "all" => root' = root /\ stack # <<>>, processed \subseteq processed'
  PROVE  Swept'
<1>1. files' = files /\ exports' = exports /\ UNCHANGED <<file, changed, whole>>
  BY DEF Fixed, sweep
<1>2. \A f \in DOMAIN files' : f \in whole' => (AllOf(f) \subseteq processed)'
  BY <1>1, WholeGrows DEF Swept
<1>3. Last(files)' = Last(files)
  BY <1>1 DEF Last
<1>4. Wanted(file) => Wanted(file)'
  BY <1>1 DEF Wanted
<1>5. phase' = "all" =>
       /\ root' = Len(exports') + 1
       /\ ~Last(files)'.smart
       /\ file' \in Nat \ {0}
       /\ changed'.here => ~changed'.all /\ file' \in DOMAIN files' /\ Wanted(file)'
       /\ changed'.all \/ changed'.here
  BY <1>1, <1>3, <1>4 DEF Swept
<1>6. changed' \in [all : BOOLEAN, here : BOOLEAN]
  BY <1>1 DEF Swept
<1>7. phase' = "roots" => file' = 1 /\ changed' = [all |-> FALSE, here |-> FALSE] /\ whole' = {}
  BY <1>1 DEF Swept
<1>8. QED
  BY <1>2, <1>5, <1>6, <1>7 DEF Swept

-----------------------------------------------------------------------------
(* The steps of the collection *)

LEMMA OnwardGoesOn ==
  ASSUME StackOK, FilesOK, stack # <<>>
  PROVE  GoesOn(Onward, Target(Caller.seg, Caller.at))
<1>1. stack \in Seq(Calls) /\ \A s \in FromFiles(processed) : InFile(s)
  BY DEF StackOK, FromFiles
<1>2. /\ Caller \in Calls /\ ToSet(stack) = {Caller} \cup ToSet(Tail(stack))
      /\ Onward \in Seq(Calls)
      /\ ToSet(Onward) = {[seg |-> Caller.seg, at |-> Caller.at + 1]} \cup ToSet(Tail(stack))
  BY <1>1, StackShape, OnwardShape
<1>3. Caller.at \in Nat \ {0}
  BY <1>2 DEF Calls
<1>4. PICK next : next = [seg |-> Caller.seg, at |-> Caller.at + 1]
  OBVIOUS
<1>5. next.seg = Caller.seg /\ next.at = Caller.at + 1 /\ next \in ToSet(Onward) /\ ToSet(Tail(stack)) \subseteq ToSet(Onward)
  BY <1>2, <1>4
<1>6. ASSUME NEW s \in FromFiles(processed), NEW j \in DOMAIN files[s[1]].segs[s[2]].fixups, OnStack(s, j)
      PROVE  Target(s, j) \subseteq Target(Caller.seg, Caller.at) \/ \E c \in ToSet(Onward) : c.seg = s /\ c.at <= j
  <2>1. j \in Nat \ {0}
    BY <1>1, FixupFacts
  <2>2. PICK c \in ToSet(stack) : c.seg = s /\ c.at <= j
    BY <1>6 DEF OnStack
  <2>3. CASE c = Caller
    <3>1. CASE Caller.at = j
      BY <2>2, <2>3, <3>1
    <3>2. CASE Caller.at # j
      <4>1. next.at <= j /\ next.seg = s
        BY <1>3, <1>5, <2>1, <2>2, <2>3, <3>2
      <4>2. QED BY <1>5, <4>1
    <3>3. QED BY <3>1, <3>2
  <2>4. CASE c \in ToSet(Tail(stack))
    BY <1>5, <2>2, <2>4
  <2>5. QED BY <1>2, <2>3, <2>4
<1>7. \A c \in ToSet(Onward) : \E b \in ToSet(stack) : b.seg = c.seg
  BY <1>2
<1>8. \A b \in ToSet(stack) : \E c \in ToSet(Onward) : c.seg = b.seg
  BY <1>2
<1>9. QED
  BY <1>2, <1>6, <1>7, <1>8 DEF GoesOn

LEMMA StackGoesOn ==
  ASSUME StackOK, NEW D
  PROVE  GoesOn(stack, D)
BY DEF GoesOn, StackOK, OnStack

LEMMA NothingGoesOn ==
  ASSUME stack = <<>>, NEW D
  PROVE  GoesOn(<<>>, D)
<1>1. ToSet(stack) = {} /\ ToSet(<<>>) = {}
  BY DEF ToSet
<1>2. <<>> \in Seq(Calls)
  OBVIOUS
<1>3. QED
  BY <1>1, <1>2 DEF GoesOn, OnStack

Collecting == StackOK /\ Followed /\ Described /\ Rooted /\ Minimal /\ Swept

LEMMA GrowKeeps ==
  ASSUME BindingOK, Collecting, phase' \in {"roots", "all"},
         Fixed, item' = item, NamesOK', commons' \in Seq(Names),
         NEW D, D \subseteq FileSegs, NEW rest, GoesOn(rest, D), Brings(D, rest),
         \A T \in SUBSET FileSegs : Needs(T) /\ FromFiles(processed) \subseteq T => D \subseteq T,
         idata \subseteq idata',
         \A f \in idata' : f \in idata \/ (files[f].extrnl \in Names /\ DefinedIn(files[f].extrnl) \subseteq D),
         Rooted', Swept'
  PROVE  BindingOK' /\ CollectingOK'
<1>1. UNCHANGED <<files, exports, mask, entry>>
  BY DEF Fixed
<1>2. BindingOK'
  <2>1. AllExportsOK(exports)'
    BY <1>1, ExportsSame DEF BindingOK
  <2>2. ~Idle'
    BY DEF Idle
  <2>3. QED BY <1>1, <2>1, <2>2, LaterBinds
<1>3. StackOK'
  BY <1>1, StackGrows DEF Collecting
<1>4. Followed'
  BY FollowedGrows DEF Collecting
<1>5. Described'
  BY DescribedGrows DEF Collecting
<1>6. Minimal'
  <2>1. processed' \subseteq processed \cup D \cup ({0} \X Nat)
    BY DEF Brings
  <2>2. QED BY <2>1, MinimalGrows DEF Collecting
<1>7. ~Collected'
  BY DEF Collected
<1>8. QED
  BY <1>2, <1>3, <1>4, <1>5, <1>6, <1>7 DEF CollectingOK

\* A search that has failed.
LEMMA FailureKeeps ==
  ASSUME BindingOK, UNCHANGED <<files, item, entry, exports, names, processed>>,
         phase' \in {"asserted", "hung", "failed", "overrun", "miscounted"}
  PROVE  BindingOK' /\ CollectingOK'
<1>1. BindingOK'
  BY SameBinds DEF BindingSame, Idle
<1>2. ~Linking' /\ ~Collected'
  BY DEF Linking, Collected
<1>3. QED
  BY <1>1, <1>2 DEF CollectingOK

\* The fixup that the current call has come to.
LEMMA CurrentFixupFacts ==
  ASSUME FilesOK, StackOK, AtFixup
  PROVE  LET s == Caller.seg
             x == CurrentFixup
             D == Target(s, Caller.at)
         IN  /\ stack # <<>> /\ s \in FromFiles(processed) /\ InFile(s)
             /\ x.name # Null => x.name \in Names /\ D = DefinedIn(x.name)
             /\ x.name = Null => D = {<<s[1], x.own>>} /\ InFile(<<s[1], x.own>>)
             /\ \A T \in SUBSET FileSegs : Needs(T) /\ FromFiles(processed) \subseteq T => D \subseteq T
<1> DEFINE s == Caller.seg
           j == Caller.at
           x == CurrentFixup
<1>1. stack # <<>> /\ j <= Len(Seg(s).fixups) /\ x = Seg(s).fixups[j] /\ stack \in Seq(Calls)
  BY DEF AtFixup, CurrentFixup, StackOK
<1>2. Caller \in Calls /\ Caller \in ToSet(stack)
  BY <1>1, StackShape
<1>3. InFile(s) /\ s \in processed /\ j \in Nat \ {0}
  BY <1>2 DEF StackOK, Calls
<1>4. /\ Seg(s) = files[s[1]].segs[s[2]] /\ Seg(s).fixups \in Seq(Fixups) /\ s[1] # 0
  BY <1>3, SegmentFacts
<1>5. j \in DOMAIN files[s[1]].segs[s[2]].fixups /\ x = files[s[1]].segs[s[2]].fixups[j]
  <2>1. PICK t \in Seq(Fixups) : t = Seg(s).fixups
    BY <1>4
  <2>2. DOMAIN t = 1..Len(t) /\ Len(t) \in Nat
    BY <2>1
  <2>3. j \in DOMAIN t
    BY <1>1, <1>3, <2>1, <2>2
  <2>4. t = files[s[1]].segs[s[2]].fixups
    BY <1>4, <2>1
  <2>5. QED BY <1>1, <2>1, <2>3, <2>4
<1>6. /\ x.name = Null => InFile(<<s[1], x.own>>)
      /\ x.name # Null => x.name \in Names
  BY <1>3, <1>5, FixupFacts
<1>7. Target(s, j) = IF x.name = Null THEN {<<s[1], x.own>>} ELSE DefinedIn(x.name)
  BY <1>5 DEF Target
<1>8. Target(s, j) \subseteq FixupTargets(s)
  <2>1. x \in ToSet(Seg(s).fixups)
    BY <1>4, <1>5 DEF ToSet
  <2> HIDE DEF x
  <2>2. QED BY <1>7, <2>1 DEF FixupTargets
<1>9. s \in FromFiles(processed)
  BY <1>3, <1>4 DEF FromFiles
<1>10. ASSUME NEW T \in SUBSET FileSegs, Needs(T), FromFiles(processed) \subseteq T
       PROVE  Target(s, j) \subseteq T
  <2>1. s \in FromFiles(T)
    BY <1>4, <1>9, <1>10 DEF FromFiles
  <2>2. FixupTargets(s) \subseteq T
    BY <1>10, <2>1 DEF Needs
  <2>3. QED BY <1>8, <2>2
<1> HIDE DEF x
<1>11. QED
  BY <1>1, <1>3, <1>6, <1>7, <1>9, <1>10 DEF x

LEMMA FixupToNameKeeps ==
  ASSUME BindingOK, CollectingOK, FixupToName
  PROVE  BindingOK' /\ CollectingOK'
<1> DEFINE x == CurrentFixup
           D == Target(Caller.seg, Caller.at)
<1>1. /\ phase \in {"roots", "all"} /\ AtFixup /\ x.name # Null /\ Resolve(x.name, Onward)
      /\ UNCHANGED <<files, item, exports, mask, entry, root, idata, sweep>>
  BY DEF FixupToName, Linking
<1>2. Collecting /\ FilesOK /\ NamesOK /\ StackOK
  BY <1>1 DEF CollectingOK, Linking, Collecting, BindingOK
<1>3. /\ stack # <<>> /\ x.name \in Names /\ D = DefinedIn(x.name)
      /\ \A T \in SUBSET FileSegs : Needs(T) /\ FromFiles(processed) \subseteq T => D \subseteq T
  BY <1>1, <1>2, CurrentFixupFacts
<1>4. GoesOn(Onward, D)
  BY <1>2, <1>3, OnwardGoesOn
<1>5. PICK n \in Names : n = x.name
  BY <1>3
<1> HIDE DEF x, D
<1>6. CASE ToNowhere(n)
  <2>1. phase' \in {"asserted", "hung"} /\ UNCHANGED <<names, processed>>
    BY <1>6 DEF ToNowhere
  <2>2. QED BY <1>1, <2>1, FailureKeeps
<1>7. CASE ~ToNowhere(n)
  <2>1. FollowsName(n, Onward)
    BY <1>1, <1>5, <1>7 DEF Resolve, FollowsName
  <2>2. /\ NamesOK' /\ commons' \in Seq(Names) /\ SameDefinitions /\ phase' = phase
        /\ Brings(DefinedIn(n), Onward)
    BY <1>1, <1>2, <2>1, NameBrings DEF StackOK
  <2>3. Fixed
    BY <1>1, <2>2 DEF Fixed
  <2>4. D = DefinedIn(n) /\ D \subseteq FileSegs
    BY <1>3, <1>5, DefinedInFile
  <2>5. processed \subseteq processed'
    BY <2>2 DEF Brings
  <2>6. Rooted'
    <3>1. root \in Nat /\ (root = 0 => stack = <<>>)
      BY <1>2 DEF Collecting, Rooted
    <3>2. Rooted /\ \A i \in DOMAIN exports : ~(i >= root /\ i < root)
      <4>1. \A i \in DOMAIN exports : i \in Nat
        BY SequenceShape DEF BindingOK, AllExportsOK
      <4>2. QED BY <1>2, <3>1, <4>1 DEF Collecting
    <3>3. QED BY <1>1, <1>3, <2>3, <2>5, <3>1, <3>2, RootedGrows
  <2>7. Swept'
    BY <1>1, <1>2, <1>3, <2>2, <2>3, <2>5, SweptKept DEF Collecting
  <2>8. QED BY <1>1, <1>2, <1>3, <1>4, <2>2, <2>3, <2>4, <2>6, <2>7, GrowKeeps
<1>8. QED
  BY <1>6, <1>7

LEMMA FixupToSegmentKeeps ==
  ASSUME BindingOK, CollectingOK, FixupToSegment
  PROVE  BindingOK' /\ CollectingOK'
<1> DEFINE x == CurrentFixup
           D == Target(Caller.seg, Caller.at)
<1>1. /\ phase \in {"roots", "all"} /\ AtFixup /\ x.name = Null /\ CollectOnce(<<Caller.seg[1], x.own>>, Onward)
      /\ UNCHANGED <<input, phase, root, commons, idata, sweep>>
  BY DEF FixupToSegment, Linking
<1>2. Collecting /\ FilesOK /\ NamesOK /\ StackOK
  BY <1>1 DEF CollectingOK, Linking, Collecting, BindingOK
<1>3. /\ stack # <<>> /\ D = {<<Caller.seg[1], x.own>>} /\ InFile(<<Caller.seg[1], x.own>>)
      /\ \A T \in SUBSET FileSegs : Needs(T) /\ FromFiles(processed) \subseteq T => D \subseteq T
  BY <1>1, <1>2, CurrentFixupFacts
<1>4. GoesOn(Onward, D)
  BY <1>2, <1>3, OnwardGoesOn
<1> HIDE DEF x, D
<1>5. Brings(D, Onward)
  BY <1>1, <1>3, OnceBrings
<1>6. D \subseteq FileSegs
  BY <1>2, <1>3, SegmentFacts DEF FileSegs
<1>7. processed \subseteq processed'
  BY <1>5 DEF Brings
<1>8. Fixed /\ item' = item /\ names' = names
  BY <1>1 DEF input, Fixed, SameDefinitions, DefinedIn
<1>9. NamesOK' /\ commons' \in Seq(Names)
  BY <1>1, <1>2, <1>7, <1>8, NamesSame DEF BindingSame, Fixed, StackOK
<1>10. Rooted'
  <2>1. root \in Nat /\ (root = 0 => stack = <<>>) /\ Rooted
    BY <1>2 DEF Collecting, Rooted
  <2>2. \A i \in DOMAIN exports : ~(i >= root /\ i < root)
    <3>1. \A i \in DOMAIN exports : i \in Nat
      BY SequenceShape DEF BindingOK, AllExportsOK
    <3>2. QED BY <2>1, <3>1
  <2>3. QED BY <1>1, <1>3, <1>7, <1>8, <2>1, <2>2, RootedGrows
<1>11. Swept'
  BY <1>1, <1>2, <1>3, <1>7, <1>8, SweptKept DEF Collecting
<1>12. QED
  BY <1>1, <1>2, <1>3, <1>4, <1>5, <1>6, <1>8, <1>9, <1>10, <1>11, GrowKeeps

LEMMA DescriptorKeeps ==
  ASSUME BindingOK, CollectingOK, Descriptor
  PROVE  BindingOK' /\ CollectingOK'
<1> DEFINE f == Caller.seg[1]
<1>1. /\ phase \in {"roots", "all"} /\ stack # <<>> /\ Seg(Caller.seg).clazz = "IDATA"
      /\ idata' = idata \cup {f} /\ CollectName(files[f].extrnl, stack)
      /\ UNCHANGED <<files, item, exports, mask, entry, root, sweep>>
  BY DEF Descriptor, Linking
<1>2. Collecting /\ FilesOK /\ NamesOK /\ StackOK
  BY <1>1 DEF CollectingOK, Linking, Collecting, BindingOK
<1>3. Caller \in ToSet(stack)
  BY <1>1, <1>2, StackShape DEF StackOK
<1>4. InFile(Caller.seg) /\ Caller.seg \in processed
  BY <1>2, <1>3 DEF StackOK
<1>5. files[f].extrnl \in Names /\ Caller.seg[1] # 0
  BY <1>1, <1>2, <1>4, SegmentFacts, DescriptorFacts
<1>6. PICK n \in Names : n = files[f].extrnl
  BY <1>5
<1>7. FollowsName(n, stack)
  BY <1>1, <1>6 DEF CollectName, FollowsName
<1>8. /\ NamesOK' /\ commons' \in Seq(Names) /\ SameDefinitions /\ phase' = phase
      /\ Brings(DefinedIn(n), stack)
  BY <1>1, <1>2, <1>7, NameBrings DEF StackOK
<1>9. Fixed /\ DefinedIn(n) \subseteq FileSegs
  BY <1>1, <1>8, DefinedInFile DEF Fixed
<1>10. \A T \in SUBSET FileSegs : Needs(T) /\ FromFiles(processed) \subseteq T => DefinedIn(n) \subseteq T
  <2>1. Caller.seg \in FromFiles(processed)
    BY <1>4, <1>5 DEF FromFiles
  <2>2. QED BY <1>1, <1>5, <1>6, <2>1 DEF Needs, FromFiles
<1>11. GoesOn(stack, DefinedIn(n))
  BY <1>2, StackGoesOn
<1>12. processed \subseteq processed'
  BY <1>8 DEF Brings
<1>13. Rooted'
  <2>1. root \in Nat /\ (root = 0 => stack = <<>>) /\ Rooted
    BY <1>2 DEF Collecting, Rooted
  <2>2. \A i \in DOMAIN exports : ~(i >= root /\ i < root)
    <3>1. \A i \in DOMAIN exports : i \in Nat
      BY SequenceShape DEF BindingOK, AllExportsOK
    <3>2. QED BY <2>1, <3>1
  <2>3. QED BY <1>1, <1>9, <1>12, <2>1, <2>2, RootedGrows
<1>14. Swept'
  BY <1>1, <1>2, <1>8, <1>9, <1>12, SweptKept DEF Collecting
<1>15. /\ idata \subseteq idata'
       /\ \A g \in idata' : g \in idata \/ (files[g].extrnl \in Names /\ DefinedIn(files[g].extrnl) \subseteq DefinedIn(n))
  BY <1>1, <1>6
<1> HIDE DEF f
<1>16. QED
  BY <1>1, <1>2, <1>8, <1>9, <1>10, <1>11, <1>13, <1>14, <1>15, GrowKeeps

LEMMA ReturnKeeps ==
  ASSUME BindingOK, CollectingOK, Return
  PROVE  BindingOK' /\ CollectingOK'
<1>1. /\ phase \in {"roots", "all"} /\ stack # <<>> /\ ~AtFixup /\ stack' = Tail(stack)
      /\ Seg(Caller.seg).clazz = "IDATA" => Caller.seg[1] \in idata
      /\ UNCHANGED <<input, errors, phase, root, processed, commons, idata, sweep>>
  BY DEF Return, Linking
<1>2. Collecting /\ FilesOK /\ StackOK
  BY <1>1 DEF CollectingOK, Linking, Collecting, BindingOK
<1>3. /\ Fixed /\ BindingSame
      /\ \A n \in Names : DefinedIn(n)' = DefinedIn(n)
      /\ UNCHANGED <<files, item, names, exports, mask, entry>>
  BY <1>1 DEF input, Fixed, BindingSame, SameDefinitions, DefinedIn
<1>4. BindingOK'
  BY <1>1, <1>3, SameBinds DEF Idle
<1>5. /\ Caller \in Calls /\ stack' \in Seq(Calls) /\ Caller \in ToSet(stack)
      /\ ToSet(stack) = {Caller} \cup ToSet(Tail(stack))
  BY <1>1, <1>2, StackShape DEF StackOK
<1>6. ToSet(stack)' = ToSet(Tail(stack))
  BY <1>1 DEF ToSet
<1>7. InFile(Caller.seg) /\ Caller.at \in Nat
  BY <1>2, <1>5 DEF StackOK, Calls
<1>8. StackOK'
  <2>1. \A s : InFile(s)' <=> InFile(s)
    BY <1>3, InFileSame
  <2>2. \A c \in ToSet(stack)' : InFile(c.seg)' /\ c.seg \in processed'
    BY <1>1, <1>2, <1>5, <1>6, <2>1 DEF StackOK
  <2>3. \A s \in processed' : InFile(s)' \/ s \in {0} \X Nat
    BY <1>1, <1>2, <2>1 DEF StackOK
  <2>4. QED BY <1>1, <1>2, <1>5, <2>2, <2>3 DEF StackOK
<1>9. Followed'
  <2>1. ASSUME NEW s \in FromFiles(processed), NEW j \in DOMAIN files[s[1]].segs[s[2]].fixups
        PROVE  Target(s, j) \subseteq processed \/ \E c \in ToSet(Tail(stack)) : c.seg = s /\ c.at <= j
    <3>1. InFile(s)
      BY <1>2 DEF StackOK, FromFiles
    <3>2. /\ Seg(s) = files[s[1]].segs[s[2]] /\ Seg(s).fixups \in Seq(Fixups)
          /\ DOMAIN Seg(s).fixups = 1..Len(Seg(s).fixups) /\ Len(Seg(s).fixups) \in Nat
      BY <1>2, <3>1, SegmentFacts
    <3>3. j \in Nat /\ j <= Len(Seg(s).fixups)
      BY <3>2
    <3>4. ~(Caller.seg = s /\ Caller.at <= j)
      <4>1. ~(Caller.at <= Len(Seg(Caller.seg).fixups))
        BY <1>1 DEF AtFixup
      <4>2. QED BY <1>7, <3>2, <3>3, <4>1
    <3>5. Target(s, j) \subseteq processed \/ OnStack(s, j)
      BY <1>2 DEF Collecting, Followed
    <3>6. QED BY <1>5, <3>4, <3>5 DEF OnStack
  <2>2. \A s \in FromFiles(processed) : InFile(s)
    BY <1>2 DEF StackOK, FromFiles
  <2>3. ASSUME NEW s \in FromFiles(processed), NEW j \in DOMAIN files[s[1]].segs[s[2]].fixups
        PROVE  Target(s, j)' \subseteq processed \/ \E c \in ToSet(stack)' : c.seg = s /\ c.at <= j
    BY <1>3, <1>4, <1>6, <2>1, <2>2, TargetSame
  <2>4. QED BY <1>1, <1>3, <2>3 DEF Followed, OnStack, FromFiles
<1>10. Described'
  <2>1. ASSUME NEW s \in FromFiles(processed), files[s[1]].segs[s[2]].clazz = "IDATA"
        PROVE  s[1] \in idata \/ \E c \in ToSet(Tail(stack)) : c.seg = s
    <3>1. InFile(s)
      BY <1>2 DEF StackOK, FromFiles
    <3>2. Seg(s) = files[s[1]].segs[s[2]]
      BY <1>2, <3>1, SegmentFacts
    <3>3. s[1] \in idata \/ \E c \in ToSet(stack) : c.seg = s
      BY <1>2, <2>1 DEF Collecting, Described
    <3>4. Caller.seg = s => s[1] \in idata
      BY <1>1, <2>1, <3>2
    <3>5. QED BY <1>5, <3>3, <3>4
  <2>2. ASSUME NEW f \in idata
        PROVE  files'[f].extrnl \in Names /\ (DefinedIn(files[f].extrnl) \subseteq processed)'
    <3>1. files[f].extrnl \in Names /\ DefinedIn(files[f].extrnl) \subseteq processed
      BY <1>2 DEF Collecting, Described
    <3>2. (DefinedIn(files[f].extrnl) \subseteq processed)'
      BY <1>1, <1>3, <3>1 DEF DefinedIn
    <3>3. QED BY <1>3, <3>1, <3>2
  <2>3. \A s \in FromFiles(processed)' : files'[s[1]].segs[s[2]].clazz = "IDATA" =>
          s[1] \in idata' \/ \E c \in ToSet(stack)' : c.seg = s
    BY <1>1, <1>3, <1>6, <2>1 DEF FromFiles
  <2>4. QED BY <1>1, <2>2, <2>3 DEF Described
<1>11. Rooted'
  <2>1. root \in Nat /\ (root = 0 => stack = <<>>) /\ Rooted
    BY <1>2 DEF Collecting, Rooted
  <2>2. \A i \in DOMAIN exports : ~(i >= root /\ i < root)
    <3>1. \A i \in DOMAIN exports : i \in Nat
      BY SequenceShape DEF BindingOK, AllExportsOK
    <3>2. QED BY <2>1, <3>1
  <2>3. QED BY <1>1, <1>3, <2>1, <2>2, RootedGrows
<1>12. Swept'
  BY <1>1, <1>2, <1>3, SweptKept DEF Collecting
<1>13. Minimal'
  <2>1. {} \subseteq FileSegs /\ processed' \subseteq processed \cup {} \cup ({0} \X Nat)
    BY <1>1
  <2>2. \A T \in SUBSET FileSegs : {} \subseteq T
    OBVIOUS
  <2>3. QED BY <1>2, <1>3, <2>1, <2>2, MinimalGrows DEF Collecting
<1>14. ~Collected'
  BY <1>1 DEF Collected
<1>15. QED
  BY <1>4, <1>8, <1>9, <1>10, <1>11, <1>12, <1>13, <1>14 DEF CollectingOK

\* A root brings in what it refers to.
LEMMA RootKeeps ==
  ASSUME BindingOK, Collecting, phase = "roots", phase' = phase, stack = <<>>,
         Fixed, item' = item, idata' = idata, UNCHANGED sweep, root' = root + 1,
         NamesOK', commons' \in Seq(Names),
         NEW D, D \subseteq FileSegs, D \subseteq RootSegments, Brings(D, <<>>),
         root = 0 /\ entry # Null => DefinedIn(entry) \subseteq D,
         root \in DOMAIN exports /\ Exported(exports[root]) => RootOf(exports[root]) \subseteq D
  PROVE  BindingOK' /\ CollectingOK'
<1>1. GoesOn(<<>>, D)
  BY NothingGoesOn
<1>2. root \in Nat /\ Rooted /\ Swept
  BY DEF Collecting, Rooted
<1>3. D \subseteq processed'
  <2>1. <<>> \in Seq(Calls)
    OBVIOUS
  <2>2. QED BY <2>1, BringsTo
<1>4. processed \subseteq processed'
  BY DEF Brings
<1>5. Rooted'
  <2>1. \A i \in DOMAIN exports : i \in Nat
    BY SequenceShape DEF BindingOK, AllExportsOK
  <2>2. \A i \in DOMAIN exports : i >= root /\ i < root' => i = root
    BY <1>2, <2>1
  <2>3. root' \in Nat /\ root' # 0
    BY <1>2
  <2>4. \A i \in DOMAIN exports : i >= root /\ i < root' /\ Exported(exports[i]) => RootOf(exports[i]) \subseteq processed'
    BY <1>3, <2>2
  <2>5. root = 0 /\ entry # Null => DefinedIn(entry) \subseteq processed'
    BY <1>3
  <2>6. QED BY <1>2, <1>4, <2>3, <2>4, <2>5, RootedGrows
<1>6. Swept'
  BY <1>2, <1>4, SweptKept
<1>7. \A T \in SUBSET FileSegs : Needs(T) /\ FromFiles(processed) \subseteq T => D \subseteq T
  BY DEF Needs
<1>8. /\ idata \subseteq idata'
      /\ \A f \in idata' : f \in idata \/ (files[f].extrnl \in Names /\ DefinedIn(files[f].extrnl) \subseteq D)
  OBVIOUS
<1>9. QED
  BY <1>1, <1>5, <1>6, <1>7, <1>8, GrowKeeps

LEMMA EntryRootKeeps ==
  ASSUME BindingOK, CollectingOK, EntryRoot
  PROVE  BindingOK' /\ CollectingOK'
<1>1. /\ phase = "roots" /\ root = 0 /\ root' = 1
      /\ IF entry # Null
         THEN Resolve(entry, <<>>)
         ELSE UNCHANGED <<names, commons, stack, processed, used, undefs, errors, phase>>
      /\ UNCHANGED <<files, item, exports, mask, entry, idata, sweep>>
  BY DEF EntryRoot
<1>2. Collecting /\ FilesOK /\ NamesOK /\ StackOK /\ stack = <<>> /\ commons \in Seq(Names)
  BY <1>1 DEF CollectingOK, Linking, Collecting, BindingOK, Rooted, StackOK
<1>3. root \notin DOMAIN exports
  BY <1>1, SequenceShape DEF BindingOK, AllExportsOK
<1>4. CASE entry = Null
  <2>1. UNCHANGED <<names, commons, stack, processed, phase>>
    BY <1>1, <1>4
  <2>2. Fixed /\ BindingSame
    BY <1>1, <2>1 DEF Fixed, SameDefinitions, DefinedIn, BindingSame
  <2>3. NamesOK' /\ commons' \in Seq(Names)
    BY <1>2, <2>1, <2>2, NamesSame
  <2>4. Brings({}, <<>>)
    BY <1>2, <2>1 DEF Brings
  <2>5. {} \subseteq FileSegs /\ {} \subseteq RootSegments /\ root' = root + 1
    BY <1>1
  <2>6. QED BY <1>1, <1>2, <1>3, <1>4, <2>1, <2>2, <2>3, <2>4, <2>5, RootKeeps
<1>5. CASE entry # Null /\ ToNowhere(entry)
  <2>1. phase' \in {"asserted", "hung"} /\ UNCHANGED <<names, processed>>
    BY <1>5 DEF ToNowhere
  <2>2. QED BY <1>1, <2>1, FailureKeeps
<1>6. CASE entry # Null /\ ~ToNowhere(entry)
  <2>1. FollowsName(entry, <<>>)
    BY <1>1, <1>6 DEF Resolve, FollowsName
  <2>2. entry \in Names
    BY <1>6, OptionsAssumption DEF BindingOK
  <2>3. PICK n \in Names : n = entry
    BY <2>2
  <2>4. FollowsName(n, <<>>) /\ files' = files
    BY <1>1, <2>1, <2>3
  <2>5. /\ NamesOK' /\ commons' \in Seq(Names) /\ SameDefinitions /\ phase' = phase
        /\ Brings(DefinedIn(n), <<>>)
    BY <1>2, <2>4, NameBrings
  <2>6. Fixed /\ DefinedIn(n) \subseteq FileSegs
    BY <1>1, <2>5, DefinedInFile DEF Fixed
  <2>7. DefinedIn(n) \subseteq RootSegments
    BY <1>6, <2>3 DEF RootSegments
  <2>8. DefinedIn(entry) \subseteq DefinedIn(n) /\ root' = root + 1
    BY <1>1, <2>3
  <2>9. QED BY <1>1, <1>2, <1>3, <2>5, <2>6, <2>7, <2>8, RootKeeps
<1>7. QED
  BY <1>4, <1>5, <1>6

LEMMA ExportRootKeeps ==
  ASSUME BindingOK, CollectingOK, ExportRoot
  PROVE  BindingOK' /\ CollectingOK'
<1>1. PICK e : e = exports[root]
  OBVIOUS
<1>2. /\ phase = "roots" /\ root \in DOMAIN exports /\ stack = <<>> /\ root' = root + 1
      /\ UNCHANGED <<files, item, exports, mask, entry, idata, sweep>>
      /\ \/ /\ ~Exported(e)
            /\ UNCHANGED <<names, commons, stack, processed, phase>>
         \/ /\ Exported(e) /\ e.seg # Null
            /\ CollectSegments(e.seg, <<>>)
            /\ UNCHANGED <<names, commons, phase>>
         \/ /\ Exported(e) /\ e.seg = Null
            /\ CollectName(e.int, <<>>)
  BY <1>1 DEF ExportRoot
<1>3. Collecting /\ FilesOK /\ NamesOK /\ StackOK /\ commons \in Seq(Names)
  BY <1>2 DEF CollectingOK, Linking, Collecting, BindingOK, StackOK
<1>4. root # 0 /\ e.int \in Names /\ (e.seg = Null \/ InFile(e.seg)) /\ e \in ToSet(exports)
  BY <1>1, <1>2, SequenceShape DEF BindingOK, AllExportsOK, ExportOK, ToSet
<1>r. Exported(e) => RootOf(e) \subseteq RootSegments
  BY <1>4 DEF RootOf, RootSegments
<1>s. ASSUME UNCHANGED <<names, commons>>, processed \subseteq processed'
      PROVE  NamesOK' /\ commons' \in Seq(Names) /\ Fixed
  <2>1. NamesOK'
    BY <1>s, <1>2, <1>3, NamesSame DEF BindingSame
  <2>2. QED BY <1>s, <1>2, <1>3, <2>1 DEF Fixed, SameDefinitions, DefinedIn
<1>5. CASE ~Exported(e) /\ UNCHANGED <<names, commons, stack, processed, phase>>
  <2>1. Brings({}, <<>>)
    BY <1>2, <1>5 DEF Brings
  <2>2. {} \subseteq FileSegs /\ {} \subseteq RootSegments
    OBVIOUS
  <2>3. NamesOK' /\ commons' \in Seq(Names) /\ Fixed
    BY <1>5, <1>s
  <2>4. QED BY <1>1, <1>2, <1>3, <1>4, <1>5, <2>1, <2>2, <2>3, RootKeeps
<1>6. CASE Exported(e) /\ e.seg # Null /\ CollectSegments(e.seg, <<>>) /\ UNCHANGED <<names, commons, phase>>
  <2>1. Brings({e.seg}, <<>>)
    BY <1>6 DEF Brings, CollectSegments
  <2>2. RootOf(e) = {e.seg} /\ {e.seg} \subseteq FileSegs
    BY <1>3, <1>4, <1>6, SegmentFacts DEF RootOf, FileSegs
  <2>3. NamesOK' /\ commons' \in Seq(Names) /\ Fixed
    BY <1>6, <1>s DEF CollectSegments
  <2>4. {e.seg} \subseteq RootSegments /\ RootOf(exports[root]) \subseteq {e.seg}
    BY <1>1, <1>6, <1>r, <2>2
  <2>5. QED BY <1>2, <1>3, <1>4, <1>6, <2>1, <2>2, <2>3, <2>4, RootKeeps
<1>7. CASE Exported(e) /\ e.seg = Null /\ CollectName(e.int, <<>>)
  <2>1. PICK n \in Names : n = e.int
    BY <1>4
  <2>2. FollowsName(n, <<>>)
    BY <1>7, <2>1 DEF CollectName, FollowsName
  <2>3. /\ NamesOK' /\ commons' \in Seq(Names) /\ SameDefinitions /\ phase' = phase
        /\ Brings(DefinedIn(n), <<>>)
    BY <1>2, <1>3, <2>2, NameBrings
  <2>4. Fixed /\ DefinedIn(n) \subseteq FileSegs
    BY <1>2, <2>3, DefinedInFile DEF Fixed
  <2>5. RootOf(e) = DefinedIn(n)
    BY <1>7, <2>1 DEF RootOf
  <2>6. DefinedIn(n) \subseteq RootSegments /\ RootOf(exports[root]) \subseteq DefinedIn(n)
    BY <1>1, <1>7, <1>r, <2>5
  <2>7. QED BY <1>2, <1>3, <1>4, <2>3, <2>4, <2>6, RootKeeps
<1>8. QED
  BY <1>2, <1>5, <1>6, <1>7

-----------------------------------------------------------------------------
(* The end of the collection *)

\* Nothing is left to follow.
LEMMA NeedsAtRest ==
  ASSUME BindingOK, Collecting, stack = <<>>, root = Len(exports) + 1,
         ~Last(files).smart => \A f \in DOMAIN files : ~Wanted(f)
  PROVE  Needs(processed)
<1>1. FilesOK /\ StackOK /\ Followed /\ Described /\ Rooted /\ Swept
  BY DEF Collecting, BindingOK
<1>2. ToSet(stack) = {} /\ \A s \in FromFiles(processed) : InFile(s)
  BY <1>1 DEF ToSet, StackOK, FromFiles
<1>3. RootSegments \subseteq processed
  <2>1. DOMAIN exports = 1..Len(exports) /\ Len(exports) \in Nat
    BY SequenceShape DEF BindingOK, AllExportsOK
  <2>2. \A i \in DOMAIN exports : Exported(exports[i]) => RootOf(exports[i]) \subseteq processed
    <3>1. \A i \in DOMAIN exports : i < root
      BY <2>1
    <3>2. QED BY <1>1, <3>1 DEF Rooted
  <2>3. \A e \in ToSet(exports) : Exported(e) => RootOf(e) \subseteq processed
    BY <2>2 DEF ToSet
  <2>4. entry # Null => DefinedIn(entry) \subseteq processed
    BY <1>1, <2>1 DEF Rooted
  <2>5. RootSegments = (UNION {RootOf(e) : e \in {x \in ToSet(exports) : Exported(x)}})
                       \cup (IF entry # Null THEN DefinedIn(entry) ELSE {})
    BY DEF RootSegments, RootOf
  <2>6. QED BY <2>3, <2>4, <2>5
<1>4. ASSUME NEW s \in FromFiles(processed) PROVE FixupTargets(s) \subseteq processed
  <2>1. Seg(s) = files[s[1]].segs[s[2]]
    BY <1>1, <1>2, SegmentFacts
  <2>2. \A j \in DOMAIN Seg(s).fixups : Target(s, j) \subseteq processed
    BY <1>1, <1>2, <2>1 DEF Followed, OnStack
  <2>3. \A j \in DOMAIN Seg(s).fixups : LET x == Seg(s).fixups[j]
          IN (IF x.name = Null THEN {<<s[1], x.own>>} ELSE DefinedIn(x.name)) \subseteq processed
    BY <2>1, <2>2 DEF Target
  <2>4. \A x \in ToSet(Seg(s).fixups) :
          (IF x.name = Null THEN {<<s[1], x.own>>} ELSE DefinedIn(x.name)) \subseteq processed
    BY <2>3 DEF ToSet
  <2>5. QED BY <2>4 DEF FixupTargets
<1>5. ASSUME NEW s \in FromFiles(processed), Seg(s).clazz = "IDATA"
      PROVE  DefinedIn(files[s[1]].extrnl) \subseteq processed
  <2>1. Seg(s) = files[s[1]].segs[s[2]]
    BY <1>1, <1>2, SegmentFacts
  <2>2. s[1] \in idata
    BY <1>1, <1>2, <1>5, <2>1 DEF Described
  <2>3. QED BY <1>1, <2>2 DEF Described
<1>6. ASSUME ~Last(files).smart, NEW f \in DOMAIN files, ~files[f].smart,
             files[f].lib = Null \/ \E s \in processed : s[1] = f
      PROVE  AllOf(f) \subseteq processed
  <2>1. CASE f \in whole
    BY <1>1, <2>1 DEF Swept
  <2>2. CASE f \notin whole
    <3>1. files[f].lib # Null /\ ~\E i \in DOMAIN files[f].segs : <<f, i>> \in processed
      BY <1>6, <2>2 DEF Wanted
    <3>2. PICK s \in processed : s[1] = f
      BY <1>6, <3>1
    <3>3. InFile(s)
      <4>1. f # 0
        BY <1>1, FileFacts
      <4>2. QED BY <1>2, <3>2, <4>1 DEF FromFiles
    <3>4. s = <<s[1], s[2]>> /\ s[2] \in DOMAIN files[s[1]].segs
      BY <1>1, <3>3, SegmentFacts
    <3>5. QED BY <3>1, <3>2, <3>4
  <2>3. QED BY <2>1, <2>2
<1>7. QED
  BY <1>3, <1>4, <1>5, <1>6 DEF Needs

\* What is marked stays what is needed.
LEMMA DoneKeeps ==
  ASSUME BindingOK, UNCHANGED <<files, item, names, exports, mask, entry, processed>>,
         Needs(processed), Minimal, \A s \in processed : InFile(s) \/ s \in {0} \X Nat,
         phase' \in {"order", "image", "done", "failed", "overrun", "miscounted"}
  PROVE  BindingOK' /\ CollectingOK'
<1>1. BindingOK'
  BY SameBinds DEF BindingSame, Idle
<1>2. ~Linking'
  BY DEF Linking
<1>3. Fixed
  BY DEF Fixed, SameDefinitions, DefinedIn
<1>4. Needs(processed)'
  <2>1. PICK T : T = processed
    OBVIOUS
  <2>2. \A s \in FromFiles(T) : InFile(s)
    BY <2>1 DEF FromFiles
  <2>3. Needs(T)'
    BY <1>3, <2>1, <2>2, NeedsSame
  <2>4. T = processed'
    BY <2>1
  <2>5. QED BY <2>3, <2>4 DEF Needs, FromFiles
<1>5. Minimal'
  <2>1. {} \subseteq FileSegs /\ processed' \subseteq processed \cup {} \cup ({0} \X Nat)
    OBVIOUS
  <2>2. \A T \in SUBSET FileSegs : {} \subseteq T
    OBVIOUS
  <2>3. QED BY <1>3, <2>1, <2>2, MinimalGrows
<1>6. \A s \in processed' : InFile(s)' \/ s \in {0} \X Nat
  BY InFileSame
<1>7. QED
  BY <1>1, <1>2, <1>4, <1>5, <1>6 DEF CollectingOK

\* The search goes on as it stands.
LEMMA PauseKeeps ==
  ASSUME BindingOK, Collecting, UNCHANGED <<input, search>>, phase' \in {"roots", "all"}, Swept'
  PROVE  BindingOK' /\ CollectingOK'
<1>1. /\ UNCHANGED <<files, item, names, exports, mask, entry>>
      /\ UNCHANGED <<root, stack, processed, commons, idata>>
  BY DEF input, search
<1>2. Fixed /\ BindingSame
  BY <1>1 DEF Fixed, SameDefinitions, DefinedIn, BindingSame
<1>3. NamesOK' /\ commons' \in Seq(Names) /\ StackOK
  BY <1>1, <1>2, NamesSame DEF BindingOK, Collecting, StackOK
<1>4. GoesOn(stack, {}) /\ Brings({}, stack)
  BY <1>1, <1>3, StackGoesOn DEF Brings
<1>5. Rooted'
  <2>1. root \in Nat /\ (root = 0 => stack = <<>>) /\ Rooted
    BY DEF Collecting, Rooted
  <2>2. \A i \in DOMAIN exports : ~(i >= root /\ i < root)
    <3>1. \A i \in DOMAIN exports : i \in Nat
      BY SequenceShape DEF BindingOK, AllExportsOK
    <3>2. QED BY <2>1, <3>1
  <2>3. QED BY <1>1, <1>2, <2>1, <2>2, RootedGrows
<1>6. {} \subseteq FileSegs /\ \A T \in SUBSET FileSegs : {} \subseteq T
  OBVIOUS
<1>7. QED
  BY <1>1, <1>2, <1>3, <1>4, <1>5, <1>6, GrowKeeps

LEMMA RootsCollectedKeeps ==
  ASSUME BindingOK, CollectingOK, RootsCollected
  PROVE  BindingOK' /\ CollectingOK'
<1>1. /\ phase = "roots" /\ root = Len(exports) + 1 /\ stack = <<>>
      /\ phase' = IF Last(files).smart THEN "order" ELSE "all"
      /\ UNCHANGED <<input, search, sweep>>
  BY DEF RootsCollected
<1>2. Collecting
  BY <1>1 DEF CollectingOK, Linking, Collecting
<1>3. /\ UNCHANGED <<files, item, names, exports, mask, entry, processed>>
      /\ UNCHANGED <<root, stack, file, changed, whole>>
  BY <1>1 DEF input, search, sweep
<1>4. CASE Last(files).smart
  <2>1. Needs(processed)
    BY <1>1, <1>2, <1>4, NeedsAtRest
  <2>2. phase' = "order"
    BY <1>1, <1>4
  <2>3. Minimal /\ \A s \in processed : InFile(s) \/ s \in {0} \X Nat
    BY <1>2 DEF Collecting, StackOK
  <2>4. QED BY <1>3, <2>1, <2>2, <2>3, DoneKeeps
<1>5. CASE ~Last(files).smart
  <2>1. phase' = "all"
    BY <1>1, <1>5
  <2>2. Swept'
    <3>1. file = 1 /\ changed = [all |-> FALSE, here |-> FALSE] /\ Swept
      BY <1>1, <1>2 DEF Collecting, Swept
    <3>2. \A f \in DOMAIN files' : f \in whole' => (AllOf(f) \subseteq processed)'
      BY <1>3, <3>1, WholeGrows DEF Swept
    <3>3. ~Last(files)'.smart
      BY <1>3, <1>5 DEF Last
    <3>4. \A f \in 1..file' - 1 : ~Wanted(f)'
      BY <1>3, <3>1
    <3>5. QED BY <1>1, <1>3, <2>1, <3>1, <3>2, <3>3, <3>4 DEF Swept
  <2>3. QED BY <1>1, <1>2, <2>1, <2>2, PauseKeeps
<1>6. QED
  BY <1>4, <1>5

LEMMA CollectAllSegmentsKeeps ==
  ASSUME BindingOK, CollectingOK, CollectAllSegments
  PROVE  BindingOK' /\ CollectingOK'
<1>1. /\ phase = "all" /\ stack = <<>> /\ file \in DOMAIN files /\ Wanted(file) /\ ~changed.all
      /\ UNCHANGED <<input, errors, phase, root, commons, idata>>
  BY DEF CollectAllSegments
<1>2. Collecting /\ FilesOK /\ NamesOK /\ StackOK /\ Swept /\ Rooted /\ commons \in Seq(Names)
  BY <1>1 DEF CollectingOK, Linking, Collecting, BindingOK, StackOK
<1>3. UNCHANGED <<files, item, names, exports, mask, entry>>
  BY <1>1 DEF input
<1>4. /\ DOMAIN files = 1..Len(files) /\ Len(files) \in Nat /\ file \in Nat \ {0}
      /\ DOMAIN files[file].segs = 1..Len(files[file].segs) /\ Len(files[file].segs) \in Nat
  BY <1>1, <1>2, FileFacts
<1>5. \A s : s \in AllOf(file) <=> \E i \in DOMAIN files[file].segs : s = <<file, i>> /\ Linkable(s)
  BY <1>1, <1>2, <1>3, AllOfSame
<1>6. Last(files)' = Last(files) /\ ~Last(files).smart
  BY <1>1, <1>2, <1>3 DEF Last, Swept
<1>7. CASE Unlinked(file) # {}
  <2> DEFINE i == CHOOSE i \in Unlinked(file) : \A j \in Unlinked(file) : i <= j
             D == {<<file, i>>}
  <2>1. /\ CollectSegments(<<file, i>>, <<>>) /\ changed' = [changed EXCEPT !.here = TRUE]
        /\ UNCHANGED <<file, whole>>
    BY <1>7 DEF CollectAllSegments
  <2>2. i \in Unlinked(file)
    <3>1. Unlinked(file) \subseteq Nat
      BY <1>4 DEF Unlinked
    <3>2. PICK m : m = Min(Unlinked(file))
      OBVIOUS
    <3>3. m \in Unlinked(file) /\ \A j \in Unlinked(file) : m <= j
      BY <1>7, <3>1, <3>2, LeastExists
    <3>4. QED BY <3>3
  <2> HIDE DEF i
  <2>3. i \in DOMAIN files[file].segs /\ Linkable(<<file, i>>)
    BY <2>2 DEF Unlinked
  <2>4. D \subseteq AllOf(file)
    BY <1>5, <2>3
  <2>5. D \subseteq FileSegs
    <3>1. InFile(<<file, i>>)
      BY <1>1, <2>3 DEF InFile
    <3>2. QED BY <1>2, <3>1, SegmentFacts DEF FileSegs
  <2>6. Brings(D, <<>>) /\ GoesOn(<<>>, D)
    BY <1>1, <2>1, NothingGoesOn DEF Brings, CollectSegments
  <2>7. processed \subseteq processed'
    BY <2>1 DEF CollectSegments
  <2>8. ASSUME NEW T \in SUBSET FileSegs, Needs(T), FromFiles(processed) \subseteq T
        PROVE  D \subseteq T
    <3>1. files[file].lib = Null \/ \E s \in T : s[1] = file
      <4>1. files[file].lib # Null => \E k \in DOMAIN files[file].segs : <<file, k>> \in processed
        BY <1>1 DEF Wanted
      <4>2. \A k : <<file, k>> \in processed => <<file, k>> \in T
        BY <1>4, <2>8 DEF FromFiles
      <4>3. \A k : <<file, k>>[1] = file
        OBVIOUS
      <4>4. QED BY <4>1, <4>2, <4>3
    <3>2. ~files[file].smart
      BY <1>1 DEF Wanted
    <3>3. AllOf(file) \subseteq T
      BY <1>1, <1>6, <2>8, <3>1, <3>2 DEF Needs
    <3>4. QED BY <2>4, <3>3
  <2> HIDE DEF D
  <2>9. Fixed /\ BindingSame
    BY <1>3, <2>7 DEF Fixed, SameDefinitions, DefinedIn, BindingSame
  <2>10. NamesOK' /\ commons' \in Seq(Names)
    BY <1>1, <1>2, <2>9, NamesSame
  <2>11. Rooted'
    <3>1. root \in Nat /\ root # 0
      <4>1. root = Len(exports) + 1 /\ Len(exports) \in Nat
        BY <1>1, <1>2, SequenceShape DEF Swept, BindingOK, AllExportsOK
      <4>2. QED BY <4>1
    <3>2. \A k \in DOMAIN exports : ~(k >= root /\ k < root)
      <4>1. \A k \in DOMAIN exports : k \in Nat
        BY SequenceShape DEF BindingOK, AllExportsOK
      <4>2. QED BY <3>1, <4>1
    <3>3. QED BY <1>1, <1>2, <2>7, <2>9, <3>1, <3>2, RootedGrows
  <2>12. Swept'
    <3>1. changed \in [all : BOOLEAN, here : BOOLEAN]
      BY <1>2 DEF Swept
    <3>2. changed' \in [all : BOOLEAN, here : BOOLEAN] /\ changed'.here /\ ~changed'.all
      BY <1>1, <2>1, <3>1
    <3>3. \A f \in DOMAIN files' : f \in whole' => (AllOf(f) \subseteq processed)'
      BY <1>2, <1>3, <2>1, <2>7, WholeGrows DEF Swept
    <3>4. Wanted(file)'
      BY <1>1, <1>3, <2>1, <2>7 DEF Wanted
    <3>5. root' = Len(exports') + 1
      BY <1>1, <1>2, <1>3 DEF Swept
    <3>6. QED BY <1>1, <1>3, <1>4, <1>6, <2>1, <3>2, <3>3, <3>4, <3>5 DEF Swept
  <2>13. idata' = idata /\ phase' \in {"roots", "all"}
    BY <1>1
  <2>14. QED BY <1>2, <1>3, <2>5, <2>6, <2>8, <2>9, <2>10, <2>11, <2>12, <2>13, GrowKeeps
<1>8. CASE Unlinked(file) = {}
  <2>1. /\ whole' = whole \cup {file} /\ changed' = [all |-> changed.here, here |-> FALSE]
        /\ file' = file + 1 /\ UNCHANGED <<stack, processed>>
    BY <1>8 DEF CollectAllSegments
  <2>2. AllOf(file) \subseteq processed
    BY <1>5, <1>8 DEF Unlinked
  <2>3. Swept'
    <3>1. changed \in [all : BOOLEAN, here : BOOLEAN]
      BY <1>2 DEF Swept
    <3>2. changed' \in [all : BOOLEAN, here : BOOLEAN] /\ ~changed'.here /\ changed'.all = changed.here
      BY <2>1, <3>1
    <3>3. \A f \in DOMAIN files' : f \in whole' => (AllOf(f) \subseteq processed)'
      BY <1>2, <1>3, <2>1, <2>2, WholeGrows DEF Swept
    <3>4. \A f : Wanted(f)' => Wanted(f) /\ f \notin whole'
      BY <1>3, <2>1 DEF Wanted
    <3>5. ~changed'.all => \A f \in 1..file' - 1 : ~Wanted(f)'
      <4>1. ~changed.here => \A f \in 1..file - 1 : ~Wanted(f)
        BY <1>1, <1>2 DEF Swept
      <4>2. \A f \in 1..file' - 1 : f = file \/ f \in 1..file - 1
        BY <1>4, <2>1
      <4>3. file \in whole'
        BY <2>1
      <4>4. QED BY <3>2, <3>4, <4>1, <4>2, <4>3
    <3>6. root' = Len(exports') + 1
      BY <1>1, <1>2, <1>3 DEF Swept
    <3>7. file' \in Nat \ {0} /\ stack' = <<>>
      BY <1>1, <1>4, <2>1
    <3>8. QED BY <1>1, <1>6, <3>2, <3>3, <3>5, <3>6, <3>7 DEF Swept
  <2>4. UNCHANGED <<input, search>> \/ (UNCHANGED input /\ UNCHANGED <<root, stack, processed, commons, used, idata, nfixups>>)
    BY <1>8, <2>1 DEF CollectAllSegments
  <2>5. QED BY <1>1, <1>2, <2>3, <2>4, PauseKeeps DEF search
<1>9. QED
  BY <1>7, <1>8

LEMMA PassFileKeeps ==
  ASSUME BindingOK, CollectingOK, PassFile
  PROVE  BindingOK' /\ CollectingOK'
<1>1. /\ phase = "all" /\ stack = <<>> /\ file \in DOMAIN files /\ (~Wanted(file) \/ changed.all)
      /\ file' = file + 1 /\ UNCHANGED <<input, phase, search, changed, whole>>
  BY DEF PassFile
<1>2. Collecting /\ FilesOK /\ Swept
  BY <1>1 DEF CollectingOK, Linking, Collecting, BindingOK
<1>3. UNCHANGED <<files, exports, root, stack, processed>>
  BY <1>1 DEF input, search
<1>4. Last(files)' = Last(files) /\ file \in Nat \ {0}
  BY <1>1, <1>2, <1>3 DEF Last, Swept
<1>5. \A f : Wanted(f)' <=> Wanted(f)
  BY <1>1, <1>3 DEF Wanted
<1>6. ~changed.here
  BY <1>1, <1>2 DEF Swept
<1>7. ~changed.all => \A f \in 1..file' - 1 : ~Wanted(f)'
  <2>1. \A f \in 1..file' - 1 : f = file \/ f \in 1..file - 1
    BY <1>1, <1>4
  <2>2. ~changed.all => \A f \in 1..file - 1 : ~Wanted(f)
    BY <1>1, <1>2, <1>6 DEF Swept
  <2>3. QED BY <1>1, <1>5, <2>1, <2>2
<1>8. \A f \in DOMAIN files' : f \in whole' => (AllOf(f) \subseteq processed)'
  BY <1>1, <1>2, <1>3, WholeGrows DEF Swept
<1>9. file' \in Nat \ {0}
  BY <1>1, <1>4
<1>10. Swept'
  BY <1>1, <1>2, <1>3, <1>4, <1>6, <1>7, <1>8, <1>9 DEF Swept
<1>11. QED
  BY <1>1, <1>2, <1>10, PauseKeeps

LEMMA CollectAllAgainKeeps ==
  ASSUME BindingOK, CollectingOK, CollectAllAgain
  PROVE  BindingOK' /\ CollectingOK'
<1>1. /\ phase = "all" /\ stack = <<>> /\ file \notin DOMAIN files /\ file' = 1
      /\ changed' = [all |-> FALSE, here |-> FALSE]
      /\ phase' = IF changed.all THEN "all" ELSE "order"
      /\ UNCHANGED <<input, search, whole>>
  BY DEF CollectAllAgain
<1>2. Collecting /\ FilesOK /\ Swept
  BY <1>1 DEF CollectingOK, Linking, Collecting, BindingOK
<1>3. UNCHANGED <<files, item, names, exports, mask, entry, root, stack, processed>>
  BY <1>1 DEF input, search
<1>4. root = Len(exports) + 1 /\ ~changed.here /\ file \in Nat \ {0}
  BY <1>1, <1>2 DEF Swept
<1>5. CASE changed.all
  <2>1. Last(files)' = Last(files)
    BY <1>3 DEF Last
  <2>2. \A f \in DOMAIN files' : f \in whole' => (AllOf(f) \subseteq processed)'
    BY <1>1, <1>2, <1>3, WholeGrows DEF Swept
  <2>3. Swept'
    BY <1>1, <1>2, <1>3, <1>5, <2>1, <2>2 DEF Swept
  <2>4. QED BY <1>1, <1>2, <1>5, <2>3, PauseKeeps
<1>6. CASE ~changed.all
  <2>1. \A f \in DOMAIN files : ~Wanted(f)
    <3>1. \A f \in 1..file - 1 : ~Wanted(f)
      BY <1>1, <1>2, <1>4, <1>6 DEF Swept
    <3>2. DOMAIN files = 1..Len(files) /\ Len(files) \in Nat
      BY <1>2 DEF FilesOK
    <3>3. DOMAIN files \subseteq 1..file - 1
      BY <1>1, <1>4, <3>2
    <3>4. QED BY <3>1, <3>3
  <2>2. Needs(processed)
    BY <1>1, <1>2, <1>4, <2>1, NeedsAtRest
  <2>3. Minimal /\ \A s \in processed : InFile(s) \/ s \in {0} \X Nat
    BY <1>2 DEF Collecting, StackOK
  <2>4. phase' = "order"
    BY <1>1, <1>6
  <2>5. QED BY <1>3, <2>2, <2>3, <2>4, DoneKeeps
<1>7. QED
  BY <1>5, <1>6

-----------------------------------------------------------------------------
(* The other steps *)

LEMMA PrepareExportKeeps ==
  ASSUME BindingOK, PrepareExport
  PROVE  CollectingOK'
<1>1. phase = "prepare" /\ phase' = "roots" /\ UNCHANGED <<search, sweep>>
  BY DEF PrepareExport
<1>2. Untouched
  BY <1>1 DEF BindingOK, Idle
<1>3. /\ root' = 0 /\ stack' = <<>> /\ processed' = {} /\ commons' = <<>> /\ idata' = {}
      /\ file' = 1 /\ changed' = [all |-> FALSE, here |-> FALSE] /\ whole' = {}
  BY <1>1, <1>2 DEF Untouched, search, sweep
<1>4. StackOK'
  <2>1. ToSet(stack)' = {}
    BY <1>3 DEF ToSet
  <2>2. QED BY <1>3, <2>1 DEF StackOK
<1>5. FromFiles(processed)' = {}
  BY <1>3 DEF FromFiles
<1>6. Followed' /\ Described' /\ Minimal'
  BY <1>3, <1>5 DEF Followed, Described, Minimal
<1>7. Rooted'
  <2>1. \A i \in DOMAIN exports' : i \in Nat \ {0}
    <3>1. AllExportsOK(exports)'
      BY PrepareExportBinds DEF BindingOK
    <3>2. PICK es : es = exports'
      OBVIOUS
    <3>3. IsSequence(es)
      BY <3>1, <3>2 DEF AllExportsOK, IsSequence
    <3>4. QED BY <3>2, <3>3, SequenceShape
  <2>2. \A i \in DOMAIN exports' : ~(i < root')
    BY <1>3, <2>1
  <2>3. QED BY <1>3, <2>2 DEF Rooted
<1>8. Swept'
  BY <1>1, <1>3 DEF Swept
<1>9. QED
  BY <1>1, <1>4, <1>6, <1>7, <1>8 DEF CollectingOK, Collected

LEMMA PlaceKeeps ==
  ASSUME BindingOK, CollectingOK, Place
  PROVE  BindingOK' /\ CollectingOK'
<1>1. phase = "order" /\ phase' \in {"failed", "image"} /\ UNCHANGED <<input, processed>>
  BY DEF Place
<1>2. /\ UNCHANGED <<files, item, names, exports, mask, entry>>
      /\ Needs(processed) /\ Minimal /\ \A s \in processed : InFile(s) \/ s \in {0} \X Nat
  BY <1>1 DEF input, CollectingOK, Collected
<1>3. QED
  BY <1>1, <1>2, DoneKeeps

LEMMA CreateImagesKeeps ==
  ASSUME BindingOK, CollectingOK, CreateImages
  PROVE  BindingOK' /\ CollectingOK'
<1>1. phase = "image" /\ phase' \in {"done", "overrun", "miscounted"} /\ UNCHANGED <<input, search>>
  BY DEF CreateImages
<1>2. /\ UNCHANGED <<files, item, names, exports, mask, entry, processed>>
      /\ Needs(processed) /\ Minimal /\ \A s \in processed : InFile(s) \/ s \in {0} \X Nat
  BY <1>1 DEF input, search, CollectingOK, Collected
<1>3. QED
  BY <1>1, <1>2, DoneKeeps

\* While files are read nothing is collected.
LEMMA ReadingKeeps ==
  ASSUME BindingOK, Option \/ OpenFile \/ ReadDeclaration \/ ReadExport \/ FileRead \/ Link
  PROVE  CollectingOK'
<1>1. phase' \in {"options", "file", "read", "prepare", "failed"}
  BY DEF Option, OpenFile, ReadDeclaration, ReadExport, FileRead, Link
<1>2. QED
  BY <1>1 DEF CollectingOK, Linking, Collected

LEMMA StutterKeeps ==
  ASSUME BindingOK, CollectingOK, UNCHANGED vars
  PROVE  BindingOK' /\ CollectingOK'
<1>1. /\ UNCHANGED <<files, item, names, exports, mask, entry, processed>>
      /\ UNCHANGED <<input, search, sweep, phase, errors>>
  BY DEF vars, input, search
<1>2. CASE Idle
  <2>1. Untouched /\ errors \in Nat
    BY <1>2 DEF BindingOK
  <2>2. Untouched' /\ errors' \in Nat
    BY <1>1, <2>1, UntouchedSame
  <2>3. FilesOK' /\ NamesOK' /\ AllExportsOK(exports)' /\ entry' \in Entries
    <3>1. NamesOK' /\ AllExportsOK(exports)'
      BY <1>1, NamesSame, ExportsSame DEF BindingOK, BindingSame
    <3>2. QED BY <1>1, <3>1 DEF BindingOK, FilesOK
  <2>4. CollectingOK'
    BY <1>1, <1>2 DEF Idle, CollectingOK, Linking, Collected
  <2>5. QED BY <2>2, <2>3, <2>4 DEF BindingOK
<1>3. CASE Linking
  <2>1. Collecting /\ stack' = stack /\ root' = root
    BY <1>1, <1>3 DEF CollectingOK, Collecting, search
  <2>2. Swept'
    <3>1. /\ UNCHANGED <<file, changed, whole>> /\ Swept
      BY <1>1, <2>1 DEF sweep, Collecting
    <3>2. \A f \in DOMAIN files' : f \in whole' => (AllOf(f) \subseteq processed)'
      BY <1>1, <3>1, WholeGrows DEF Swept
    <3>3. \A f : Wanted(f)' <=> Wanted(f)
      BY <1>1, <3>1 DEF Wanted
    <3>4. Last(files)' = Last(files)
      BY <1>1 DEF Last
    <3>5. QED BY <1>1, <2>1, <3>1, <3>2, <3>3, <3>4 DEF Swept
  <2>3. phase' \in {"roots", "all"}
    BY <1>1, <1>3 DEF Linking
  <2>4. QED BY <1>1, <2>1, <2>2, <2>3, PauseKeeps
<1>4. CASE Collected
  <2>1. Needs(processed) /\ Minimal /\ \A s \in processed : InFile(s) \/ s \in {0} \X Nat
    BY <1>4 DEF CollectingOK
  <2>2. phase' \in {"order", "image", "done"}
    BY <1>1, <1>4 DEF Collected
  <2>3. QED BY <1>1, <2>1, <2>2, DoneKeeps
<1>5. CASE ~Idle /\ ~Linking /\ ~Collected
  <2>1. BindingOK'
    BY <1>1, <1>5, SameBinds DEF BindingSame, Idle
  <2>2. QED BY <1>1, <1>5, <2>1 DEF CollectingOK, Linking, Collected
<1>6. QED
  BY <1>2, <1>3, <1>4, <1>5

-----------------------------------------------------------------------------
(* Theorems *)

\* Reading keeps what names, exports and segments are bound to in order;
\* collecting never marks a segment that the program could do without, and
\* what a marked segment refers to is marked, or the stack will come to it.
THEOREM LinkingInv == Spec => [](BindingOK /\ CollectingOK)
<1>1. Init => BindingOK /\ CollectingOK
  <2> SUFFICES ASSUME Init PROVE BindingOK /\ CollectingOK
    OBVIOUS
  <2>1. phase = "options"
    BY DEF Init
  <2>2. QED BY <2>1, BindingInit DEF CollectingOK, Linking, Collected
<1>2. BindingOK /\ CollectingOK /\ [Next]_vars => BindingOK' /\ CollectingOK'
  <2> SUFFICES ASSUME BindingOK, CollectingOK, [Next]_vars PROVE BindingOK' /\ CollectingOK'
    OBVIOUS
  <2>1. CASE Option \/ OpenFile \/ ReadDeclaration \/ ReadExport \/ FileRead \/ Link
    BY <2>1, OptionBinds, OpenFileBinds, ReadDeclarationBinds, ReadExportBinds, FileReadBinds, LinkBinds,
       ReadingKeeps
  <2>2. CASE PrepareExport \/ EntryRoot \/ ExportRoot \/ RootsCollected
    BY <2>2, PrepareExportBinds, PrepareExportKeeps, EntryRootKeeps, ExportRootKeeps, RootsCollectedKeeps
  <2>3. CASE FixupToName \/ FixupToSegment \/ Descriptor \/ Return
    BY <2>3, FixupToNameKeeps, FixupToSegmentKeeps, DescriptorKeeps, ReturnKeeps
  <2>4. CASE CollectAllSegments \/ PassFile \/ CollectAllAgain
    BY <2>4, CollectAllSegmentsKeeps, PassFileKeeps, CollectAllAgainKeeps
  <2>5. CASE Place \/ CreateImages \/ UNCHANGED vars
    BY <2>5, PlaceKeeps, CreateImagesKeeps, StutterKeeps
  <2>6. QED BY <2>1, <2>2, <2>3, <2>4, <2>5 DEF Next
<1>3. QED
  BY <1>1, <1>2, PTL DEF Spec

\* What is linked is what the program needs, and no smaller part of it will
\* do (struct.cpp:1097-1252, CollectFixup, CollectSegments and CollectAll).
THEOREM OnlyNeeded == Spec => []OnlyNeededIsLinked
<1>1. BindingOK /\ CollectingOK => OnlyNeededIsLinked
  <2> SUFFICES ASSUME BindingOK, CollectingOK, Collected
               PROVE  /\ Needs(processed)
                      /\ \A T \in SUBSET FromFiles(processed) : Needs(T) => T = FromFiles(processed)
    BY DEF OnlyNeededIsLinked
  <2>1. Needs(processed) /\ Minimal /\ \A s \in processed : InFile(s) \/ s \in {0} \X Nat
    BY DEF CollectingOK
  <2>2. FromFiles(processed) \subseteq FileSegs
    <3>1. \A s \in FromFiles(processed) : InFile(s)
      BY <2>1 DEF FromFiles
    <3>2. QED BY <3>1, SegmentFacts DEF FileSegs, BindingOK
  <2>3. ASSUME NEW T \in SUBSET FromFiles(processed), Needs(T) PROVE T = FromFiles(processed)
    BY <2>1, <2>2, <2>3 DEF Minimal, FileSegs
  <2>4. QED BY <2>1, <2>3
<1>2. QED
  BY <1>1, LinkingInv, PTL

-----------------------------------------------------------------------------
(* The inductive invariant: definitions *)

\* The declarations of a file that have been read.
ReadOf(f) ==
  {files[f].decls[k] : k \in {i \in DOMAIN files[f].decls : phase = "file" /\ f = Len(files) => i < item}}
Says(f, d, kind, n) == d \in ReadOf(f) /\ d.kind = kind /\ d.name = n

\* What is bound is what the declarations so far say.
DefinitionOK(n) ==
  LET info == names[n]
  IN  /\ info = Null => \A f \in DOMAIN files : \A d \in ReadOf(f) : d.name # n
      /\ info # Null /\ info.kind = "public" /\ info.seg # Null =>
           LET g == info.seg[1]
           IN  /\ \E d \in ReadOf(g) : Says(g, d, "public", n)
               /\ \A f \in DOMAIN files : \A d \in ReadOf(f) : Says(f, d, "public", n) =>
                    f >= g /\ (f > g => files[f].lib # Null /\ files[f].lib # files[g].lib)
      /\ info # Null /\ info.kind = "common" =>
           /\ \E f \in DOMAIN files : \E d \in ReadOf(f) : Says(f, d, "common", n) /\ d.arg = info.arg
           /\ \A f \in DOMAIN files : \A d \in ReadOf(f) : Says(f, d, "common", n) => d.arg <= info.arg
           /\ \A f \in DOMAIN files : \A d \in ReadOf(f) : ~Says(f, d, "public", n)
      /\ info # Null /\ info.kind = "weak" =>
           \A f \in DOMAIN files : \A d \in ReadOf(f) : ~Says(f, d, "public", n) /\ ~Says(f, d, "common", n)

DefinitionsOK == errors = 0 /\ Idle => \A n \in Names : DefinitionOK(n)
LEMMA ReadOfMembers ==
  ASSUME NEW f, NEW d
  PROVE  d \in ReadOf(f) <=> \E k \in DOMAIN files[f].decls :
           d = files[f].decls[k] /\ (phase = "file" /\ f = Len(files) => k < item)
BY DEF ReadOf

\* A step by which no declaration is read.
LEMMA DefinitionsSame ==
  ASSUME BindingOK, DefinitionsOK, names' = names, errors' = 0 => errors = 0, Idle' => Idle,
         DOMAIN files \subseteq DOMAIN files',
         \A f \in DOMAIN files : files'[f].lib = files[f].lib /\ ReadOf(f)' = ReadOf(f),
         \A f \in DOMAIN files' : f \notin DOMAIN files => ReadOf(f)' = {}
  PROVE  DefinitionsOK'
<1> SUFFICES ASSUME errors = 0, Idle, NEW n \in Names PROVE DefinitionOK(n)'
  BY DEF DefinitionsOK
<1>1. DefinitionOK(n)
  BY DEF DefinitionsOK
<1>2. NameOK(names[n]) /\ FilesOK
  BY DEF BindingOK, NamesOK
<1>3. PICK info : info = names[n]
  OBVIOUS
<1>4. info # Null /\ info.kind = "public" /\ info.seg # Null => info.seg[1] \in DOMAIN files
  BY <1>2, <1>3, SegmentFacts DEF NameOK
<1>5. \A f \in DOMAIN files' : \A d \in ReadOf(f)' : f \in DOMAIN files /\ d \in ReadOf(f)
  OBVIOUS
<1>6. info = Null => \A f \in DOMAIN files' : \A d \in ReadOf(f)' : d.name # n
  BY <1>1, <1>3, <1>5 DEF DefinitionOK
<1>7. ASSUME info # Null, info.kind = "public", info.seg # Null
      PROVE  LET g == info.seg[1]
             IN  /\ \E d \in ReadOf(g)' : Says(g, d, "public", n)'
                 /\ \A f \in DOMAIN files' : \A d \in ReadOf(f)' : Says(f, d, "public", n)' =>
                      f >= g /\ (f > g => files'[f].lib # Null /\ files'[f].lib # files'[g].lib)
  <2>1. PICK g \in DOMAIN files : g = info.seg[1]
    BY <1>4, <1>7
  <2>2. /\ \E d \in ReadOf(g) : Says(g, d, "public", n)
        /\ \A f \in DOMAIN files : \A d \in ReadOf(f) : Says(f, d, "public", n) =>
             f >= g /\ (f > g => files[f].lib # Null /\ files[f].lib # files[g].lib)
    BY <1>1, <1>3, <1>7, <2>1 DEF DefinitionOK
  <2>3. \E d \in ReadOf(g)' : Says(g, d, "public", n)'
    BY <2>1, <2>2 DEF Says
  <2>4. \A f \in DOMAIN files' : \A d \in ReadOf(f)' : Says(f, d, "public", n)' =>
             f >= g /\ (f > g => files'[f].lib # Null /\ files'[f].lib # files'[g].lib)
    BY <1>5, <2>1, <2>2 DEF Says
  <2>5. QED BY <2>1, <2>3, <2>4
<1>8. ASSUME info # Null, info.kind = "common"
      PROVE  /\ \E f \in DOMAIN files' : \E d \in ReadOf(f)' : Says(f, d, "common", n)' /\ d.arg = info.arg
             /\ \A f \in DOMAIN files' : \A d \in ReadOf(f)' : Says(f, d, "common", n)' => d.arg <= info.arg
             /\ \A f \in DOMAIN files' : \A d \in ReadOf(f)' : ~Says(f, d, "public", n)'
  BY <1>1, <1>3, <1>5, <1>8 DEF DefinitionOK, Says
<1>9. ASSUME info # Null, info.kind = "weak"
      PROVE  \A f \in DOMAIN files' : \A d \in ReadOf(f)' : ~Says(f, d, "public", n)' /\ ~Says(f, d, "common", n)'
  BY <1>1, <1>3, <1>5, <1>9 DEF DefinitionOK, Says
<1>10. info = names'[n]
  BY <1>3
<1>11. QED
  BY <1>6, <1>7, <1>8, <1>9, <1>10 DEF DefinitionOK

LEMMA DefinitionsInit ==
  ASSUME Init
  PROVE  DefinitionsOK
<1>1. names = [n \in Names |-> Null] /\ DOMAIN files = {}
  BY DEF Init
<1>2. QED
  BY <1>1 DEF DefinitionsOK, DefinitionOK

\* Reading a declaration adds it to what has been read.
LEMMA ReadDeclarationReads ==
  ASSUME BindingOK, ReadDeclaration
  PROVE  /\ \A f \in DOMAIN files : f # Len(files) => ReadOf(f)' = ReadOf(f)
         /\ \A d : d \in ReadOf(Len(files))' <=> d \in ReadOf(Len(files)) \/ d = CurrentFile.decls[item]
<1>1. /\ phase = "file" /\ item \in DOMAIN CurrentFile.decls
      /\ item' = item + 1 /\ UNCHANGED <<files, phase>>
  BY DEF ReadDeclaration
<1>2. FilesOK /\ files # <<>> /\ item \in Nat
  BY <1>1 DEF BindingOK, FilesOK
<1>3. CurrentFile \in Objects /\ CurrentFile = files[Len(files)] /\ Len(files) \in DOMAIN files
  BY <1>2, CurrentFileFacts
<1>4. CurrentFile.decls \in Seq(Declarations)
  BY <1>3, ObjectsAssumption
<1>5. \A k \in DOMAIN CurrentFile.decls : k \in Nat /\ (k < item + 1 <=> k < item \/ k = item)
  BY <1>2, <1>4
<1>6. ASSUME NEW f, NEW d
      PROVE  d \in ReadOf(f)' <=> \E k \in DOMAIN files[f].decls :
               d = files[f].decls[k] /\ (f = Len(files) => k < item + 1)
  BY <1>1 DEF ReadOf
<1>7. ASSUME NEW f \in DOMAIN files, f # Len(files) PROVE ReadOf(f)' = ReadOf(f)
  <2>1. \A d : d \in ReadOf(f) <=> \E k \in DOMAIN files[f].decls : d = files[f].decls[k]
    BY <1>7, ReadOfMembers
  <2>2. \A d : d \in ReadOf(f)' <=> \E k \in DOMAIN files[f].decls : d = files[f].decls[k]
    BY <1>6, <1>7
  <2>3. \A d : d \in ReadOf(f)' <=> d \in ReadOf(f)
    BY <2>1, <2>2
  <2>4. QED BY <2>3
<1>8. ASSUME NEW d
      PROVE  d \in ReadOf(Len(files))' <=> d \in ReadOf(Len(files)) \/ d = CurrentFile.decls[item]
  <2>1. d \in ReadOf(Len(files)) <=> \E k \in DOMAIN CurrentFile.decls : d = CurrentFile.decls[k] /\ k < item
    BY <1>1, <1>3, ReadOfMembers
  <2>2. PICK l : l = Len(files)
    OBVIOUS
  <2>3. d \in ReadOf(l)' <=> \E k \in DOMAIN CurrentFile.decls : d = CurrentFile.decls[k] /\ k < item + 1
    BY <1>3, <1>6, <2>2
  <2>4. l = Len(files')
    BY <1>1, <2>2
  <2>5. ReadOf(Len(files))' = ReadOf(l)'
    BY <2>4 DEF ReadOf
  <2>6. QED BY <1>1, <1>5, <2>1, <2>3, <2>5
<1>9. QED
  BY <1>7, <1>8

LEMMA ReadDeclarationDefines ==
  ASSUME BindingOK, DefinitionsOK, ReadDeclaration
  PROVE  DefinitionsOK'
<1> SUFFICES ASSUME errors' = 0, NEW n \in Names PROVE DefinitionOK(n)'
  BY DEF DefinitionsOK
<1>1. PICK d : d = CurrentFile.decls[item]
  OBVIOUS
<1>2. phase = "file" /\ UNCHANGED <<files, phase>>
  BY DEF ReadDeclaration
<1>3. /\ d \in Declarations /\ errors' \in {errors, errors + 1} /\ errors \in Nat
      /\ \/ names' = names /\ Leaves(d, CurrentFile.lib, errors')
         \/ \E new : Rebinds(d, new) /\ names' = [names EXCEPT ![d.name] = new]
  BY <1>1, DeclarationFacts
<1>4. errors = 0 /\ errors' = errors
  BY <1>3
<1>5. /\ d.kind \in Kinds /\ d.name \in Names /\ d.arg \in Nat
  BY <1>3 DEF Declarations
<1>6. /\ FilesOK /\ Untouched /\ names \in [Names -> Infos \cup {Null}] /\ NameOK(names[n])
  BY <1>2 DEF BindingOK, Idle, NamesOK
<1>7. PICK N : N = Len(files)
  OBVIOUS
<1>8. /\ N \in DOMAIN files /\ CurrentFile = files[N]
      /\ \A f \in DOMAIN files : f \in Nat /\ f <= N
  <2>1. files # <<>>
    BY <1>2, <1>6 DEF FilesOK
  <2>2. QED BY <1>6, <1>7, <2>1, CurrentFileFacts, FileFacts
<1>9. /\ \A f \in DOMAIN files : f # N => ReadOf(f)' = ReadOf(f)
      /\ \A e : e \in ReadOf(N)' <=> e \in ReadOf(N) \/ e = d
  <2>1. ReadOf(Len(files))' = ReadOf(N)'
    <3>1. N = Len(files')
      BY <1>2, <1>7
    <3>2. QED BY <3>1 DEF ReadOf
  <2>2. QED BY <1>1, <1>7, <2>1, ReadDeclarationReads
<1>10. DefinitionOK(n)
  BY <1>2, <1>4 DEF DefinitionsOK, Idle
<1>11. PICK info : info = names[n]
  OBVIOUS
<1>12. info \in Infos \cup {Null} /\ Null \notin Infos
  BY <1>6, <1>11, NullAssumption DEF Infos
<1>13. info # Null /\ info.kind = "public" /\ info.seg # Null => info.seg[1] \in DOMAIN files
  BY <1>6, <1>11, SegmentFacts DEF NameOK
<1>14. \A f \in DOMAIN files : \A e \in ReadOf(f)' : e \in ReadOf(f) \/ (f = N /\ e = d)
  BY <1>9
<1>15. \A f \in DOMAIN files : \A e \in ReadOf(f) : e \in ReadOf(f)'
  BY <1>8, <1>9
<1>16. \A f \in DOMAIN files : \A e, k : Says(f, e, k, n)' <=>
         Says(f, e, k, n) \/ (f = N /\ e = d /\ d.kind = k /\ d.name = n)
  BY <1>9 DEF Says
<1>17. d \in ReadOf(N)'
  BY <1>9
\* The binding is left as it is.
<1>18. ASSUME names'[n] = info,
              info = Null => d.name # n,
              info # Null /\ info.kind = "public" /\ info.seg # Null /\ d.name = n /\ d.kind = "public" =>
                N > info.seg[1] /\ files[N].lib # Null /\ files[N].lib # files[info.seg[1]].lib,
              info # Null /\ info.kind = "common" /\ d.name = n => d.kind \notin {"public", "common"},
              info # Null /\ info.kind = "weak" /\ d.name = n => d.kind \notin {"public", "common"}
       PROVE  DefinitionOK(n)'
  <2>1. info = Null => \A f \in DOMAIN files' : \A e \in ReadOf(f)' : e.name # n
    BY <1>2, <1>10, <1>11, <1>14, <1>18 DEF DefinitionOK
  <2>2. ASSUME info # Null, info.kind = "public", info.seg # Null
        PROVE  LET g == info.seg[1]
               IN  /\ \E e \in ReadOf(g)' : Says(g, e, "public", n)'
                   /\ \A f \in DOMAIN files' : \A e \in ReadOf(f)' : Says(f, e, "public", n)' =>
                        f >= g /\ (f > g => files'[f].lib # Null /\ files'[f].lib # files'[g].lib)
    <3>1. PICK g \in DOMAIN files : g = info.seg[1]
      BY <1>13, <2>2
    <3>2. /\ \E e \in ReadOf(g) : Says(g, e, "public", n)
          /\ \A f \in DOMAIN files : \A e \in ReadOf(f) : Says(f, e, "public", n) =>
               f >= g /\ (f > g => files[f].lib # Null /\ files[f].lib # files[g].lib)
      BY <1>10, <1>11, <2>2, <3>1 DEF DefinitionOK
    <3>3. \E e \in ReadOf(g)' : Says(g, e, "public", n)'
      BY <1>15, <1>16, <3>1, <3>2
    <3>4. \A f \in DOMAIN files : \A e \in ReadOf(f)' : Says(f, e, "public", n)' =>
            f >= g /\ (f > g => files[f].lib # Null /\ files[f].lib # files[g].lib)
      <4>1. d.kind = "public" /\ d.name = n => N >= g /\ files[N].lib # Null /\ files[N].lib # files[g].lib
        BY <1>8, <1>18, <2>2, <3>1
      <4>2. \A f \in DOMAIN files : \A e : Says(f, e, "public", n) => e \in ReadOf(f)
        BY DEF Says
      <4>3. QED BY <1>16, <3>2, <4>1, <4>2
    <3>5. QED BY <1>2, <3>1, <3>3, <3>4
  <2>3. ASSUME info # Null, info.kind = "common"
        PROVE  /\ \E f \in DOMAIN files' : \E e \in ReadOf(f)' : Says(f, e, "common", n)' /\ e.arg = info.arg
               /\ \A f \in DOMAIN files' : \A e \in ReadOf(f)' : Says(f, e, "common", n)' => e.arg <= info.arg
               /\ \A f \in DOMAIN files' : \A e \in ReadOf(f)' : ~Says(f, e, "public", n)'
    <3>1. /\ \E f \in DOMAIN files : \E e \in ReadOf(f) : Says(f, e, "common", n) /\ e.arg = info.arg
          /\ \A f \in DOMAIN files : \A e \in ReadOf(f) : Says(f, e, "common", n) => e.arg <= info.arg
          /\ \A f \in DOMAIN files : \A e \in ReadOf(f) : ~Says(f, e, "public", n)
      BY <1>10, <1>11, <2>3 DEF DefinitionOK
    <3>2. ~(d.name = n /\ d.kind \in {"public", "common"})
      BY <1>18, <2>3
    <3>3. \A f \in DOMAIN files : \A e, k : Says(f, e, k, n) => e \in ReadOf(f)
      BY DEF Says
    <3>4. QED BY <1>2, <1>15, <1>16, <3>1, <3>2, <3>3
  <2>4. ASSUME info # Null, info.kind = "weak"
        PROVE  \A f \in DOMAIN files' : \A e \in ReadOf(f)' : ~Says(f, e, "public", n)' /\ ~Says(f, e, "common", n)'
    <3>1. \A f \in DOMAIN files : \A e \in ReadOf(f) : ~Says(f, e, "public", n) /\ ~Says(f, e, "common", n)
      BY <1>10, <1>11, <2>4 DEF DefinitionOK
    <3>2. ~(d.name = n /\ d.kind \in {"public", "common"})
      BY <1>18, <2>4
    <3>3. \A f \in DOMAIN files : \A e, k : Says(f, e, k, n) => e \in ReadOf(f)
      BY DEF Says
    <3>4. QED BY <1>2, <1>16, <3>1, <3>2, <3>3
  <2>5. QED BY <1>18, <2>1, <2>2, <2>3, <2>4 DEF DefinitionOK
<1>19. CASE names' = names /\ Leaves(d, CurrentFile.lib, errors')
  <2>1. names'[n] = info
    BY <1>11, <1>19
  <2>2. d.name = n => /\ info # Null
                      /\ d.kind = "public" =>
                           /\ ~Replaceable(info)
                           /\ files[N].lib # Null /\ (info.seg # Null => files[info.seg[1]].lib # files[N].lib)
                      /\ d.kind = "common" => info.kind \notin {"weak", "common"}
    BY <1>4, <1>8, <1>11, <1>19 DEF Leaves
  <2>3. info # Null /\ info.kind = "public" /\ info.seg # Null /\ d.name = n /\ d.kind = "public" =>
          N > info.seg[1]
    <3>1. info # Null /\ info.kind = "public" /\ info.seg # Null /\ d.name = n /\ d.kind = "public" =>
            info.seg[1] # N /\ info.seg[1] \in DOMAIN files
      BY <1>13, <2>2
    <3>2. QED BY <1>8, <3>1
  <2>4. QED BY <1>18, <2>1, <2>2, <2>3 DEF Replaceable
<1>20. ASSUME NEW new, Rebinds(d, new), names' = [names EXCEPT ![d.name] = new] PROVE DefinitionOK(n)'
  <2>1. CASE d.name # n
    <3>1. names'[n] = info
      BY <1>11, <1>20, <2>1
    <3>2. QED BY <1>18, <2>1, <3>1
  <2>2. CASE d.name = n
    <3>1. names'[n] = new
      BY <1>5, <1>6, <1>20, <2>2
    <3>2. \A f \in DOMAIN files : \A e, k : Says(f, e, k, n) => e \in ReadOf(f) /\ e.name = n /\ e.kind = k
      BY DEF Says
    <3>3. info = Null => \A f \in DOMAIN files : \A e, k : ~Says(f, e, k, n)
      BY <1>10, <1>11, <3>2 DEF DefinitionOK
    <3>4. info # Null /\ info.kind \in {"weak", "common"} => \A f \in DOMAIN files : \A e : ~Says(f, e, "public", n)
      BY <1>10, <1>11, <3>2 DEF DefinitionOK
    <3>5. info # Null /\ info.kind = "weak" => \A f \in DOMAIN files : \A e : ~Says(f, e, "common", n)
      BY <1>10, <1>11, <3>2 DEF DefinitionOK
    <3>6. CASE /\ d.kind = "public" /\ (info = Null \/ Replaceable(info))
               /\ new = Bound("public", IF d.arg = 0 THEN Null ELSE <<Len(files), d.arg>>, 0)
      <4>1. new.kind = "public" /\ (new.seg # Null => new.seg[1] = N)
        BY <1>7, <3>6 DEF Bound
      <4>2. new # Null
        <5>1. new \in Infos
          <6>1. d.kind = "public" => d.arg = 0 \/ InFile(<<Len(files), d.arg>>)
            BY <1>1, DeclarationFacts
          <6>2. QED BY <1>3, <1>6, <1>20, <6>1, RebindsOK
        <5>2. QED BY <1>12, <5>1
      <4>3. Says(N, d, "public", n)'
        BY <1>8, <1>16, <2>2, <3>6
      <4>4. \A f \in DOMAIN files : \A e : Says(f, e, "public", n)' => f = N
        BY <1>16, <3>3, <3>4, <3>6 DEF Replaceable
      <4>5. new.seg # Null =>
              /\ \E e \in ReadOf(N)' : Says(N, e, "public", n)'
              /\ \A f \in DOMAIN files' : \A e \in ReadOf(f)' : Says(f, e, "public", n)' =>
                        f >= N /\ (f > N => files'[f].lib # Null /\ files'[f].lib # files'[N].lib)
        BY <1>2, <1>8, <1>17, <4>3, <4>4
      <4>6. QED BY <3>1, <4>1, <4>2, <4>5 DEF DefinitionOK
    <3>7. ASSUME d.kind = "common", new # Null, new.kind = "common",
                 \/ new.arg = d.arg
                 \/ \E f \in DOMAIN files : \E e \in ReadOf(f) : Says(f, e, "common", n) /\ e.arg = new.arg,
                 d.arg <= new.arg,
                 \A f \in DOMAIN files : \A e : Says(f, e, "common", n) => e.arg <= new.arg,
                 \A f \in DOMAIN files : \A e : ~Says(f, e, "public", n)
          PROVE  DefinitionOK(n)'
      <4>1. Says(N, d, "common", n)'
        BY <1>8, <1>16, <2>2, <3>7
      <4>2. \E f \in DOMAIN files' : \E e \in ReadOf(f)' : Says(f, e, "common", n)' /\ e.arg = new.arg
        <5>1. CASE new.arg = d.arg
          BY <1>2, <1>8, <1>17, <4>1, <5>1
        <5>2. CASE \E f \in DOMAIN files : \E e \in ReadOf(f) : Says(f, e, "common", n) /\ e.arg = new.arg
          BY <1>2, <1>15, <1>16, <5>2
        <5>3. QED BY <3>7, <5>1, <5>2
      <4>3. \A f \in DOMAIN files' : \A e \in ReadOf(f)' : Says(f, e, "common", n)' => e.arg <= new.arg
        BY <1>2, <1>16, <3>7
      <4>4. \A f \in DOMAIN files' : \A e \in ReadOf(f)' : ~Says(f, e, "public", n)'
        BY <1>2, <1>16, <3>7
      <4>5. QED BY <3>1, <3>7, <4>2, <4>3, <4>4 DEF DefinitionOK
    <3>8. CASE /\ d.kind = "common" /\ (info = Null \/ info.kind = "weak")
               /\ new = Bound("common", Null, d.arg)
      <4>1. new # Null /\ new.kind = "common" /\ new.arg = d.arg /\ d.arg <= new.arg
        <5>1. new \in Infos
          BY <1>5, <3>8 DEF Bound, Infos, Kinds
        <5>2. new.kind = "common" /\ new.arg = d.arg
          BY <3>8 DEF Bound
        <5>3. QED BY <1>5, <1>12, <5>1, <5>2
      <4>2. \A f \in DOMAIN files : \A e : ~Says(f, e, "common", n) /\ ~Says(f, e, "public", n)
        BY <3>3, <3>4, <3>5, <3>8
      <4>3. QED BY <3>7, <3>8, <4>1, <4>2
    <3>9. CASE /\ d.kind = "common" /\ info # Null /\ info.kind = "common"
               /\ new = [info EXCEPT !.arg = IF @ < d.arg THEN d.arg ELSE @]
      <4>1. info \in Infos /\ info.arg \in Nat
        BY <1>12, <3>9 DEF Infos
      <4>2. PICK a \in Nat : a = IF info.arg < d.arg THEN d.arg ELSE info.arg
        BY <1>5, <4>1
      <4>3. new = [info EXCEPT !.arg = a]
        BY <3>9, <4>2
      <4>4. new \in Infos /\ new.kind = "common" /\ new.arg = a
        BY <3>9, <4>1, <4>3 DEF Infos
      <4>5. /\ \E f \in DOMAIN files : \E e \in ReadOf(f) : Says(f, e, "common", n) /\ e.arg = info.arg
            /\ \A f \in DOMAIN files : \A e \in ReadOf(f) : Says(f, e, "common", n) => e.arg <= info.arg
        BY <1>10, <1>11, <3>9 DEF DefinitionOK
      <4>6. \A f \in DOMAIN files : \A e : Says(f, e, "common", n) => e.arg \in Nat
        <5>1. ASSUME NEW f \in DOMAIN files, NEW e \in ReadOf(f) PROVE e.arg \in Nat
          <6>1. PICK k \in DOMAIN files[f].decls : e = files[f].decls[k]
            BY <5>1, ReadOfMembers
          <6>2. files[f].decls \in Seq(Declarations)
            BY <1>6, FileFacts, ObjectsAssumption
          <6>3. e \in Declarations
            BY <6>1, <6>2
          <6>4. QED BY <6>3 DEF Declarations
        <5>2. QED BY <3>2, <5>1
      <4>7. d.arg <= a /\ info.arg <= a /\ (a = d.arg \/ a = info.arg)
        BY <1>5, <4>1, <4>2
      <4>8. \A f \in DOMAIN files : \A e : Says(f, e, "common", n) => e.arg <= a
        <5>1. \A x \in Nat : x <= info.arg => x <= a
          BY <4>1, <4>2, <4>7
        <5>2. QED BY <3>2, <4>5, <4>6, <5>1
      <4>9. new # Null
        BY <1>12, <4>4
      <4>10. QED BY <3>4, <3>7, <3>9, <4>4, <4>5, <4>7, <4>8, <4>9
    <3>10. CASE /\ d.kind \in Imports \cup {"weak"} /\ info = Null
                /\ new = Bound(d.kind, Null, IF d.kind = "weak" THEN 0 ELSE d.arg)
      <4>1. new \in Infos /\ new # Null
        BY <1>5, <1>12, <3>10 DEF Bound, Infos
      <4>2. new.kind = d.kind /\ new.seg = Null /\ d.kind \notin {"public", "common"}
        BY <3>10 DEF Bound, Imports
      <4>3. \A f \in DOMAIN files' : \A e : ~Says(f, e, "public", n)' /\ ~Says(f, e, "common", n)'
        BY <1>2, <1>16, <3>3, <3>10, <4>2
      <4>4. QED BY <3>1, <4>1, <4>2, <4>3 DEF DefinitionOK
    <3>11. QED BY <1>11, <1>20, <2>2, <3>6, <3>8, <3>9, <3>10 DEF Rebinds
  <2>3. QED BY <2>1, <2>2
<1>21. QED
  BY <1>3, <1>19, <1>20

LEMMA OpenFileDefines ==
  ASSUME BindingOK, DefinitionsOK, OpenFile
  PROVE  DefinitionsOK'
<1>1. PICK o \in Objects : files' = Append(files, o)
  BY DEF OpenFile
<1>2. phase \in {"options", "read"} /\ phase' = "file" /\ item' = 1 /\ UNCHANGED <<names, errors>>
  BY DEF OpenFile
<1>3. files \in Seq(Objects)
  BY DEF BindingOK, FilesOK
<1>4. /\ DOMAIN files = 1..Len(files) /\ Len(files) \in Nat
      /\ Len(files') = Len(files) + 1 /\ DOMAIN files' = 1..Len(files) + 1
      /\ \A f \in DOMAIN files : files'[f] = files[f] /\ f # Len(files')
  BY <1>1, <1>3
<1>5. ASSUME NEW f \in DOMAIN files PROVE ReadOf(f)' = ReadOf(f)
  <2>1. \A d : d \in ReadOf(f) <=> \E k \in DOMAIN files[f].decls : d = files[f].decls[k]
    BY <1>2, ReadOfMembers
  <2>2. \A d : d \in ReadOf(f)' <=> \E k \in DOMAIN files[f].decls : d = files[f].decls[k]
    BY <1>4 DEF ReadOf
  <2>3. \A d : d \in ReadOf(f)' <=> d \in ReadOf(f)
    BY <2>1, <2>2
  <2>4. QED BY <2>3
<1>6. ASSUME NEW f \in DOMAIN files', f \notin DOMAIN files PROVE ReadOf(f)' = {}
  <2>1. f = Len(files') /\ files'[f] = o
    BY <1>1, <1>3, <1>4, <1>6
  <2>2. o.decls \in Seq(Declarations)
    BY ObjectsAssumption
  <2>3. \A k \in DOMAIN o.decls : ~(k < 1)
    BY <2>2
  <2>4. QED BY <1>2, <2>1, <2>3 DEF ReadOf
<1>7. DOMAIN files \subseteq DOMAIN files' /\ \A f \in DOMAIN files : files'[f].lib = files[f].lib
  BY <1>4
<1>8. Idle
  BY <1>2 DEF Idle
<1>9. QED
  BY <1>2, <1>5, <1>6, <1>7, <1>8, DefinitionsSame

\* A step that neither opens a file nor reads a declaration.
LEMMA LaterDefines ==
  ASSUME BindingOK, DefinitionsOK, UNCHANGED <<files, names>>, errors' = 0 => errors = 0, Idle' => Idle,
         \A f \in DOMAIN files : ReadOf(f)' = ReadOf(f)
  PROVE  DefinitionsOK'
BY DefinitionsSame

\* All of a file has been read before its exports.
LEMMA AllRead ==
  ASSUME BindingOK, phase = "file", files' = files, item > Len(CurrentFile.decls), item' \in Nat, item' >= item,
         NEW f \in DOMAIN files
  PROVE  ReadOf(f)' = ReadOf(f)
<1>1. FilesOK /\ files # <<>> /\ item \in Nat
  BY DEF BindingOK, FilesOK
<1>2. CurrentFile \in Objects /\ CurrentFile = files[Len(files)]
  BY <1>1, CurrentFileFacts
<1>3. CurrentFile.decls \in Seq(Declarations)
  BY <1>2, ObjectsAssumption
<1>4. f = Len(files) => \A k \in DOMAIN files[f].decls : k < item /\ k < item'
  BY <1>1, <1>2, <1>3
<1>5. QED
  BY <1>4 DEF ReadOf

LEMMA ReadExportDefines ==
  ASSUME BindingOK, DefinitionsOK, ReadExport
  PROVE  DefinitionsOK'
<1> DEFINE e == CurrentFile.exports[item - Len(CurrentFile.decls)]
           seg == IF e.seg = 0 THEN Null ELSE <<Len(files), e.seg>>
           r == NewExport(Reading, e, seg, OBJMOD)
<1>1. /\ phase = "file" /\ item - Len(CurrentFile.decls) \in DOMAIN CurrentFile.exports /\ ReadAs(r)
      /\ item' = item + 1 /\ UNCHANGED <<files, phase>>
  BY DEF ReadExport
<1>2. FilesOK /\ files # <<>> /\ item \in Nat /\ errors \in Nat
  BY <1>1 DEF BindingOK, FilesOK, Idle
<1>3. CurrentFile \in Objects
  BY <1>2, CurrentFileFacts
<1>4. CurrentFile.decls \in Seq(Declarations) /\ CurrentFile.exports \in Seq(OwnExports)
  BY <1>3, ObjectsAssumption
<1>5. item > Len(CurrentFile.decls)
  <2>1. Len(CurrentFile.decls) \in Nat /\ item - Len(CurrentFile.decls) >= 1
    BY <1>1, <1>4
  <2>2. QED BY <1>2, <2>1
<1>6. \A f \in DOMAIN files : ReadOf(f)' = ReadOf(f)
  BY <1>1, <1>2, <1>5, AllRead
<1>7. names' = r.names /\ errors' = r.errors
  BY <1>1 DEF ReadAs
<1> HIDE DEF e, seg
<1>8. r.names = names /\ r.errors \in {errors, errors + 1}
  <2>1. /\ Reading.errors = errors /\ Reading.names = names
        /\ Reading = [names |-> names, imported |-> imported, exports |-> exports, errors |-> errors]
    BY DEF Reading
  <2>2. QED BY <2>1 DEF NewExport
<1> HIDE DEF r
<1>9. errors' = 0 => errors = 0
  BY <1>2, <1>7, <1>8
<1>10. QED
  BY <1>1, <1>6, <1>7, <1>8, <1>9, LaterDefines DEF Idle

LEMMA OptionDefines ==
  ASSUME BindingOK, DefinitionsOK, Option
  PROVE  DefinitionsOK'
<1>1. PICK e \in Options : ReadAs(NewExport(Reading, e, Null, e.src))
  BY DEF Option
<1>2. phase \in {"options", "read"} /\ UNCHANGED <<files, item, phase>>
  BY DEF Option
<1> DEFINE r == NewExport(Reading, e, Null, e.src)
<1>3. names' = r.names /\ errors' = r.errors
  BY <1>1 DEF ReadAs
<1>4. r.names = names /\ r.errors \in {errors, errors + 1}
  <2>1. /\ Reading.errors = errors /\ Reading.names = names
        /\ Reading = [names |-> names, imported |-> imported, exports |-> exports, errors |-> errors]
    BY DEF Reading
  <2>2. QED BY <2>1 DEF NewExport
<1> HIDE DEF r
<1>5. errors' = 0 => errors = 0
  <2>1. errors \in Nat
    BY <1>2 DEF BindingOK, Idle
  <2>2. QED BY <1>3, <1>4, <2>1
<1>6. \A f \in DOMAIN files : ReadOf(f)' = ReadOf(f)
  BY <1>2 DEF ReadOf
<1>7. QED
  BY <1>2, <1>3, <1>4, <1>5, <1>6, LaterDefines DEF Idle

LEMMA FileReadDefines ==
  ASSUME BindingOK, DefinitionsOK, FileRead
  PROVE  DefinitionsOK'
<1>1. /\ phase = "file" /\ item > Len(CurrentFile.decls) + Len(CurrentFile.exports)
      /\ phase' = "read" /\ UNCHANGED <<files, item, names, errors>>
  BY DEF FileRead, input
<1>2. FilesOK /\ files # <<>> /\ item \in Nat
  BY <1>1 DEF BindingOK, FilesOK
<1>3. CurrentFile \in Objects
  BY <1>2, CurrentFileFacts
<1>4. CurrentFile.decls \in Seq(Declarations) /\ CurrentFile.exports \in Seq(OwnExports)
  BY <1>3, ObjectsAssumption
<1>5. Len(CurrentFile.decls) \in Nat /\ Len(CurrentFile.exports) \in Nat
  BY <1>4
<1>6. item > Len(CurrentFile.decls)
  <2>1. PICK a \in Nat : a = Len(CurrentFile.decls)
    BY <1>5
  <2>2. PICK b \in Nat : b = Len(CurrentFile.exports)
    BY <1>5
  <2>3. item > a + b
    BY <1>1, <2>1, <2>2
  <2>4. item > a
    BY <1>2, <2>3
  <2>5. QED BY <2>1, <2>4
<1>7. \A f \in DOMAIN files : ReadOf(f)' = ReadOf(f)
  BY <1>1, <1>2, <1>6, AllRead
<1>8. QED
  BY <1>1, <1>7, LaterDefines DEF Idle

LEMMA OtherDefines ==
  ASSUME BindingOK, DefinitionsOK, Link \/ UNCHANGED vars
  PROVE  DefinitionsOK'
<1>1. /\ UNCHANGED <<files, item, names, errors>>
      /\ phase' = phase \/ (phase = "read" /\ phase' \in {"prepare", "failed"})
  BY DEF Link, vars, input
<1>2. \A f \in DOMAIN files : ReadOf(f)' = ReadOf(f)
  BY <1>1 DEF ReadOf
<1>3. Idle' => Idle
  BY <1>1 DEF Idle
<1>4. QED
  BY <1>1, <1>2, <1>3, LaterDefines

\* After the names are bound they are read no more.
LEMMA NoMoreReading ==
  ASSUME PrepareExport \/ EntryRoot \/ ExportRoot \/ RootsCollected
         \/ FixupToName \/ FixupToSegment \/ Descriptor \/ Return
         \/ CollectAllSegments \/ PassFile \/ CollectAllAgain \/ Place \/ CreateImages
  PROVE  ~Idle'
<1>1. CASE PrepareExport \/ RootsCollected \/ CollectAllAgain \/ Place \/ CreateImages
  BY <1>1 DEF PrepareExport, RootsCollected, CollectAllAgain, Place, CreateImages, Idle
<1>2. CASE FixupToSegment \/ Return \/ CollectAllSegments \/ PassFile
  BY <1>2 DEF FixupToSegment, Return, CollectAllSegments, PassFile, Idle, Linking
<1>3. ASSUME NEW n, NEW rest, Resolve(n, rest) \/ CollectName(n, rest), phase \in {"roots", "all"}
      PROVE  ~Idle'
  <2>1. phase' = phase \/ phase' \in {"asserted", "hung"}
    BY <1>3 DEF Resolve, CollectName, ToDefined, ToCommon, ToImport, ToNothing, ToNowhere
  <2>2. QED BY <1>3, <2>1 DEF Idle
<1>4. CASE EntryRoot \/ ExportRoot \/ FixupToName \/ Descriptor
  <2>1. phase \in {"roots", "all"}
    BY <1>4 DEF EntryRoot, ExportRoot, FixupToName, Descriptor, Linking
  <2>2. phase' = phase \/ \E n, rest : Resolve(n, rest) \/ CollectName(n, rest)
    BY <1>4 DEF EntryRoot, ExportRoot, FixupToName, Descriptor
  <2>3. QED BY <1>3, <2>1, <2>2 DEF Idle
<1>5. QED
  BY <1>1, <1>2, <1>4

\* An error-free reading binds every identifier as the declarations read so
\* far demand, whatever the order of the files.
THEOREM DefinitionsInv == Spec => []DefinitionsOK
<1>1. Init => DefinitionsOK
  BY DefinitionsInit
<1>2. BindingOK /\ CollectingOK /\ DefinitionsOK /\ [Next]_vars => DefinitionsOK'
  <2> SUFFICES ASSUME BindingOK, DefinitionsOK, [Next]_vars PROVE DefinitionsOK'
    OBVIOUS
  <2>1. CASE Option \/ OpenFile \/ ReadDeclaration \/ ReadExport \/ FileRead \/ Link \/ UNCHANGED vars
    BY <2>1, OptionDefines, OpenFileDefines, ReadDeclarationDefines, ReadExportDefines, FileReadDefines,
       OtherDefines
  <2>2. CASE PrepareExport \/ EntryRoot \/ ExportRoot \/ RootsCollected
             \/ FixupToName \/ FixupToSegment \/ Descriptor \/ Return
             \/ CollectAllSegments \/ PassFile \/ CollectAllAgain \/ Place \/ CreateImages
    BY <2>2, NoMoreReading DEF DefinitionsOK
  <2>3. QED BY <2>1, <2>2 DEF Next
<1>3. QED
  BY <1>1, <1>2, LinkingInv, PTL DEF Spec

-----------------------------------------------------------------------------
(* The inductive invariant: the first declaration of a name *)

HasRead(f, k) == phase = "file" /\ f = Len(files) => k < item
ReadFirst(f, k, n) ==
  /\ Declares(f, k, n) /\ HasRead(f, k)
  /\ \A g \in DOMAIN files : \A j \in DOMAIN files[g].decls :
       Declares(g, j, n) /\ HasRead(g, j) => f < g \/ (f = g /\ k <= j)
Begins(d, info) ==
  IF info.kind \in Imports THEN d.kind = info.kind /\ d.arg = info.arg ELSE d.kind \notin Imports

FirstOK(n) ==
  LET info == names[n]
  IN  /\ info = Null => \A f \in DOMAIN files : \A k \in DOMAIN files[f].decls :
                          ~(Declares(f, k, n) /\ HasRead(f, k))
      /\ info # Null =>
           \E f \in DOMAIN files : \E k \in DOMAIN files[f].decls :
             ReadFirst(f, k, n) /\ Begins(files[f].decls[k], info)
      /\ info # Null /\ info.kind \in Imports =>
           \A f \in DOMAIN files : \A k \in DOMAIN files[f].decls :
             Declares(f, k, n) /\ HasRead(f, k) /\ files[f].decls[k].kind \in {"public", "common"} =>
               files[f].lib # Null

FirstsOK == errors = 0 /\ Idle => \A n \in Names : FirstOK(n)

\* A step by which no declaration is read.
LEMMA FirstsSame ==
  ASSUME FirstsOK, names' = names, errors' = 0 => errors = 0, Idle' => Idle,
         DOMAIN files \subseteq DOMAIN files',
         \A f \in DOMAIN files : files'[f] = files[f],
         \A f \in DOMAIN files : \A k \in DOMAIN files[f].decls : HasRead(f, k)' <=> HasRead(f, k),
         \A f \in DOMAIN files' : \A k \in DOMAIN files'[f].decls : f \notin DOMAIN files => ~HasRead(f, k)'
  PROVE  FirstsOK'
<1> SUFFICES ASSUME errors = 0, Idle, NEW n \in Names PROVE FirstOK(n)'
  BY DEF FirstsOK
<1>1. FirstOK(n)
  BY DEF FirstsOK
<1>2. PICK info : info = names[n]
  OBVIOUS
<1>3. \A f \in DOMAIN files : \A k : Declares(f, k, n)' <=> Declares(f, k, n)
  BY DEF Declares
<1>4. \A f \in DOMAIN files' : \A k \in DOMAIN files'[f].decls :
        Declares(f, k, n)' /\ HasRead(f, k)' =>
          f \in DOMAIN files /\ k \in DOMAIN files[f].decls /\ Declares(f, k, n) /\ HasRead(f, k)
  BY <1>3
<1>5. info = Null => \A f \in DOMAIN files' : \A k \in DOMAIN files'[f].decls :
                       ~(Declares(f, k, n)' /\ HasRead(f, k)')
  BY <1>1, <1>2, <1>4 DEF FirstOK
<1>6. ASSUME info # Null
      PROVE  \E f \in DOMAIN files' : \E k \in DOMAIN files'[f].decls :
               ReadFirst(f, k, n)' /\ Begins(files'[f].decls[k], info)
  <2>1. PICK f \in DOMAIN files : \E k \in DOMAIN files[f].decls :
          ReadFirst(f, k, n) /\ Begins(files[f].decls[k], info)
    BY <1>1, <1>2, <1>6 DEF FirstOK
  <2>2. PICK k \in DOMAIN files[f].decls : ReadFirst(f, k, n) /\ Begins(files[f].decls[k], info)
    BY <2>1
  <2>3. ReadFirst(f, k, n)'
    BY <1>3, <1>4, <2>2 DEF ReadFirst
  <2>4. QED BY <2>2, <2>3
<1>7. info # Null /\ info.kind \in Imports =>
        \A f \in DOMAIN files' : \A k \in DOMAIN files'[f].decls :
          Declares(f, k, n)' /\ HasRead(f, k)' /\ files'[f].decls[k].kind \in {"public", "common"} =>
            files'[f].lib # Null
  BY <1>1, <1>2, <1>4 DEF FirstOK
<1>8. info = names'[n]
  BY <1>2
<1>9. QED
  BY <1>5, <1>6, <1>7, <1>8 DEF FirstOK, Begins

LEMMA FirstsInit ==
  ASSUME Init
  PROVE  FirstsOK
<1>1. names = [n \in Names |-> Null] /\ DOMAIN files = {}
  BY DEF Init
<1>2. QED
  BY <1>1 DEF FirstsOK, FirstOK

\* The declaration that is read comes after all that have been.
LEMMA ReadDeclarationFirsts ==
  ASSUME BindingOK, FirstsOK, ReadDeclaration
  PROVE  FirstsOK'
<1> SUFFICES ASSUME errors' = 0, NEW n \in Names PROVE FirstOK(n)'
  BY DEF FirstsOK
<1>1. PICK d : d = CurrentFile.decls[item]
  OBVIOUS
<1>2. /\ phase = "file" /\ item \in DOMAIN CurrentFile.decls
      /\ item' = item + 1 /\ UNCHANGED <<files, phase>>
  BY DEF ReadDeclaration
<1>3. /\ d \in Declarations /\ errors' \in {errors, errors + 1} /\ errors \in Nat
      /\ \/ names' = names /\ Leaves(d, CurrentFile.lib, errors')
         \/ \E new : Rebinds(d, new) /\ names' = [names EXCEPT ![d.name] = new]
      /\ d.kind = "public" => d.arg = 0 \/ InFile(<<Len(files), d.arg>>)
  BY <1>1, DeclarationFacts
<1>4. errors = 0 /\ errors' = errors
  BY <1>3
<1>5. /\ d.kind \in Kinds /\ d.name \in Names /\ d.arg \in Nat
  BY <1>3 DEF Declarations
<1>6. FilesOK /\ item \in Nat /\ Untouched /\ names \in [Names -> Infos \cup {Null}]
  BY <1>2 DEF BindingOK, FilesOK, Idle, NamesOK
<1>7. PICK N, c : N = Len(files) /\ c = item
  OBVIOUS
<1>8. /\ N \in DOMAIN files /\ CurrentFile = files[N] /\ files[N].decls[item] = d
      /\ item \in DOMAIN files[N].decls
      /\ \A f \in DOMAIN files : f \in Nat /\ f <= N /\ N \in Nat
  <2>1. files # <<>>
    BY <1>2, <1>6 DEF FilesOK
  <2>2. QED BY <1>1, <1>2, <1>6, <1>7, <2>1, CurrentFileFacts, FileFacts
<1>9. \A f \in DOMAIN files : DOMAIN files[f].decls \subseteq Nat
  <2>1. ASSUME NEW f \in DOMAIN files PROVE DOMAIN files[f].decls \subseteq Nat
    <3>1. files[f].decls \in Seq(Declarations)
      BY <1>6, FileFacts, ObjectsAssumption
    <3>2. QED BY <3>1
  <2>2. QED BY <2>1
<1>10. \A f \in DOMAIN files : \A k \in DOMAIN files[f].decls :
         HasRead(f, k)' <=> HasRead(f, k) \/ (f = N /\ k = item)
  BY <1>2, <1>6, <1>7, <1>9 DEF HasRead
<1>11. \A f, k : Declares(f, k, n)' <=> Declares(f, k, n)
  BY <1>2 DEF Declares
<1>12. Declares(N, c, n) <=> d.name = n
  BY <1>7, <1>8 DEF Declares
<1>13. FirstOK(n)
  BY <1>2, <1>4 DEF FirstsOK, Idle
<1>14. PICK info : info = names[n]
  OBVIOUS
<1>15. \A f \in DOMAIN files : \A k \in DOMAIN files[f].decls : HasRead(f, k) => f < N \/ (f = N /\ k < item)
  BY <1>2, <1>7, <1>8 DEF HasRead
\* A first declaration stays the first.
<1>16. ASSUME NEW f \in DOMAIN files, NEW k \in DOMAIN files[f].decls, ReadFirst(f, k, n)
       PROVE  ReadFirst(f, k, n)'
  <2>1. Declares(f, k, n) /\ HasRead(f, k)
    BY <1>16 DEF ReadFirst
  <2>2. f < N \/ (f = N /\ k <= item)
    BY <1>6, <1>9, <1>15, <2>1
  <2>3. ASSUME NEW g \in DOMAIN files, NEW j \in DOMAIN files[g].decls, Declares(g, j, n)', HasRead(g, j)'
        PROVE  f < g \/ (f = g /\ k <= j)
    <3>1. CASE g = N /\ j = item
      BY <2>2, <3>1
    <3>2. CASE HasRead(g, j)
      BY <1>11, <1>16, <2>3, <3>2 DEF ReadFirst
    <3>3. QED BY <1>10, <2>3, <3>1, <3>2
  <2>4. QED BY <1>2, <1>10, <1>11, <2>1, <2>3 DEF ReadFirst
\* The binding is left as it is.
<1>17. ASSUME names'[n] = info, d.name = n => info # Null,
              info # Null /\ info.kind \in Imports /\ d.name = n /\ d.kind \in {"public", "common"} =>
                files[N].lib # Null
       PROVE  FirstOK(n)'
  <2>1. info = Null => \A f \in DOMAIN files : \A k \in DOMAIN files[f].decls :
                         ~(Declares(f, k, n)' /\ HasRead(f, k)')
    BY <1>7, <1>10, <1>11, <1>12, <1>13, <1>14, <1>17 DEF FirstOK
  <2>2. ASSUME info # Null
        PROVE  \E f \in DOMAIN files : \E k \in DOMAIN files[f].decls :
                 ReadFirst(f, k, n)' /\ Begins(files[f].decls[k], info)
    <3>1. PICK f \in DOMAIN files : \E k \in DOMAIN files[f].decls :
            ReadFirst(f, k, n) /\ Begins(files[f].decls[k], info)
      BY <1>13, <1>14, <2>2 DEF FirstOK
    <3>2. PICK k \in DOMAIN files[f].decls : ReadFirst(f, k, n) /\ Begins(files[f].decls[k], info)
      BY <3>1
    <3>3. QED BY <1>16, <3>2
  <2>3. info # Null /\ info.kind \in Imports =>
          \A f \in DOMAIN files : \A k \in DOMAIN files[f].decls :
            Declares(f, k, n)' /\ HasRead(f, k)' /\ files[f].decls[k].kind \in {"public", "common"} =>
              files[f].lib # Null
    BY <1>7, <1>8, <1>10, <1>11, <1>12, <1>13, <1>14, <1>17 DEF FirstOK
  <2>4. QED BY <1>2, <1>17, <2>1, <2>2, <2>3 DEF FirstOK, Begins
<1>18. CASE names' = names /\ Leaves(d, CurrentFile.lib, errors')
  <2>1. names'[n] = info
    BY <1>14, <1>18
  <2>2. d.name = n => info # Null /\ (d.kind \in {"public", "common"} => files[N].lib # Null)
    BY <1>4, <1>8, <1>14, <1>18 DEF Leaves
  <2>3. QED BY <1>17, <2>1, <2>2
<1>19. ASSUME NEW new, Rebinds(d, new), names' = [names EXCEPT ![d.name] = new] PROVE FirstOK(n)'
  <2>1. CASE d.name # n
    <3>1. names'[n] = info
      BY <1>14, <1>19, <2>1
    <3>2. QED BY <1>17, <2>1, <3>1
  <2>2. CASE d.name = n
    <3>1. names'[n] = new
      BY <1>5, <1>6, <1>19, <2>2
    <3>2. new \in Infos /\ new # Null
      <4>1. new \in Infos
        BY <1>2, <1>3, <1>6, <1>19, RebindsOK
      <4>2. QED BY <4>1, NullAssumption DEF Infos
    <3>3. CASE info = Null
      <4>1. \A f \in DOMAIN files : \A k \in DOMAIN files[f].decls : ~(Declares(f, k, n) /\ HasRead(f, k))
        BY <1>13, <1>14, <3>3 DEF FirstOK
      <4>2. \A f \in DOMAIN files : \A k \in DOMAIN files[f].decls :
              Declares(f, k, n)' /\ HasRead(f, k)' => f = N /\ k = item
        BY <1>10, <1>11, <4>1
      <4>3. ReadFirst(N, c, n)'
        <5>1. Declares(N, c, n)' /\ HasRead(N, c)'
          BY <1>7, <1>8, <1>10, <1>11, <1>12, <2>2
        <5>2. QED BY <1>2, <1>6, <1>7, <4>2, <5>1 DEF ReadFirst
      <4>4. new.kind = d.kind /\ (new.kind \in Imports => new.arg = d.arg)
        <5>1. info.kind = "common" /\ info # Null => FALSE
          BY <3>3
        <5>2. QED BY <1>14, <1>19, <2>2, <3>3 DEF Rebinds, Bound, Imports
      <4>5. c \in DOMAIN files[N].decls /\ Begins(files[N].decls[c], new)
        BY <1>7, <1>8, <4>4 DEF Begins
      <4>6. new.kind \in Imports => d.kind \notin {"public", "common"}
        BY <4>4 DEF Imports
      <4>7. new.kind \in Imports =>
              \A f \in DOMAIN files : \A k \in DOMAIN files[f].decls :
                Declares(f, k, n)' /\ HasRead(f, k)' => files[f].decls[k].kind \notin {"public", "common"}
        BY <1>8, <4>2, <4>6
      <4>8. \E f \in DOMAIN files : \E k \in DOMAIN files[f].decls :
              ReadFirst(f, k, n)' /\ Begins(files[f].decls[k], new)
        BY <1>8, <4>3, <4>5
      <4>9. QED BY <1>2, <3>1, <3>2, <4>7, <4>8 DEF FirstOK, Begins
    <3>4. CASE info # Null
      <4>1. info.kind \in {"weak", "common"} /\ new.kind \in {"public", "common"}
        <5>1. info \in Infos
          BY <1>6, <1>14, <3>4
        <5>2. d.kind = "common" /\ info.kind = "common"
                /\ new = [info EXCEPT !.arg = IF @ < d.arg THEN d.arg ELSE @] => new.kind = "common"
          <6>1. info = [kind |-> info.kind, seg |-> info.seg, arg |-> info.arg]
            BY <5>1 DEF Infos
          <6>2. QED BY <6>1
        <5>3. QED BY <1>14, <1>19, <2>2, <3>4, <5>2 DEF Rebinds, Bound, Replaceable
      <4>2. PICK f \in DOMAIN files : \E k \in DOMAIN files[f].decls :
              ReadFirst(f, k, n) /\ Begins(files[f].decls[k], info)
        BY <1>13, <1>14, <3>4 DEF FirstOK
      <4>3. PICK k \in DOMAIN files[f].decls : ReadFirst(f, k, n) /\ Begins(files[f].decls[k], info)
        BY <4>2
      <4>4. info.kind \notin Imports /\ new.kind \notin Imports
        BY <4>1 DEF Imports
      <4>5. ReadFirst(f, k, n)' /\ Begins(files[f].decls[k], new)
        BY <1>16, <4>3, <4>4 DEF Begins
      <4>6. QED BY <1>2, <3>1, <3>2, <4>4, <4>5 DEF FirstOK, Begins
    <3>5. QED BY <3>3, <3>4
  <2>3. QED BY <2>1, <2>2
<1>20. QED
  BY <1>3, <1>18, <1>19

LEMMA OpenFileFirsts ==
  ASSUME BindingOK, FirstsOK, OpenFile
  PROVE  FirstsOK'
<1>1. PICK o \in Objects : files' = Append(files, o)
  BY DEF OpenFile
<1>2. phase \in {"options", "read"} /\ phase' = "file" /\ item' = 1 /\ UNCHANGED <<names, errors>>
  BY DEF OpenFile
<1>3. files \in Seq(Objects)
  BY DEF BindingOK, FilesOK
<1>4. /\ Len(files') = Len(files) + 1 /\ DOMAIN files \subseteq DOMAIN files'
      /\ \A f \in DOMAIN files : files'[f] = files[f] /\ f # Len(files')
      /\ \A f \in DOMAIN files' : f \notin DOMAIN files => f = Len(files') /\ files'[f] = o
  BY <1>1, <1>3
<1>5. \A f \in DOMAIN files : \A k \in DOMAIN files[f].decls : HasRead(f, k)' <=> HasRead(f, k)
  BY <1>2, <1>4 DEF HasRead
<1>6. \A f \in DOMAIN files' : \A k \in DOMAIN files'[f].decls : f \notin DOMAIN files => ~HasRead(f, k)'
  <2>1. o.decls \in Seq(Declarations)
    BY ObjectsAssumption
  <2>2. \A k \in DOMAIN o.decls : ~(k < 1)
    BY <2>1
  <2>3. QED BY <1>2, <1>4, <2>2 DEF HasRead
<1>7. Idle
  BY <1>2 DEF Idle
<1>8. QED
  BY <1>2, <1>4, <1>5, <1>6, <1>7, FirstsSame

\* A step that neither opens a file nor reads a declaration.
LEMMA OtherFirsts ==
  ASSUME BindingOK, FirstsOK, Option \/ ReadExport \/ FileRead \/ Link \/ UNCHANGED vars
  PROVE  FirstsOK'
<1>1. ASSUME NEW e, NEW seg, NEW src, errors \in Nat,
             names' = NewExport(Reading, e, seg, src).names, errors' = NewExport(Reading, e, seg, src).errors
      PROVE  names' = names /\ (errors' = 0 => errors = 0)
  <2>1. PICK r : r = NewExport(Reading, e, seg, src)
    OBVIOUS
  <2>2. r.names = names /\ r.errors \in {errors, errors + 1}
    <3>1. /\ Reading.errors = errors /\ Reading.names = names
          /\ Reading = [names |-> names, imported |-> imported, exports |-> exports, errors |-> errors]
      BY DEF Reading
    <3>2. QED BY <2>1, <3>1 DEF NewExport
  <2>3. names' = r.names /\ errors' = r.errors
    BY <1>1, <2>1
  <2>4. QED BY <1>1, <2>2, <2>3
<1>2. CASE Option
  <2>1. PICK e \in Options : ReadAs(NewExport(Reading, e, Null, e.src))
    BY <1>2 DEF Option
  <2>2. phase \in {"options", "read"} /\ UNCHANGED <<files, item, phase>>
    BY <1>2 DEF Option
  <2>3. errors \in Nat /\ Idle
    BY <2>2 DEF BindingOK, Idle
  <2>4. names' = names /\ (errors' = 0 => errors = 0)
    BY <1>1, <2>1, <2>3 DEF ReadAs
  <2>5. \A f, k : HasRead(f, k)' <=> HasRead(f, k)
    BY <2>2 DEF HasRead
  <2>6. QED BY <2>2, <2>3, <2>4, <2>5, FirstsSame
<1>3. CASE ReadExport \/ FileRead
  <2>1. /\ phase = "file" /\ UNCHANGED files /\ item' \in {item, item + 1}
        /\ phase' = "file" \/ phase' = "read"
    BY <1>3 DEF ReadExport, FileRead, input
  <2>2. FilesOK /\ files # <<>> /\ item \in Nat /\ errors \in Nat /\ Idle
    BY <2>1 DEF BindingOK, FilesOK, Idle
  <2>3. CurrentFile \in Objects /\ CurrentFile = files[Len(files)]
    BY <2>2, CurrentFileFacts
  <2>4. CurrentFile.decls \in Seq(Declarations) /\ CurrentFile.exports \in Seq(OwnExports)
    BY <2>3, ObjectsAssumption
  <2>5. names' = names /\ (errors' = 0 => errors = 0)
    <3>1. CASE ReadExport
      <4>1. PICK e, seg : ReadAs(NewExport(Reading, e, seg, OBJMOD))
        BY <3>1 DEF ReadExport
      <4>2. QED BY <1>1, <2>2, <4>1 DEF ReadAs
    <3>2. CASE FileRead
      BY <3>2 DEF FileRead, input
    <3>3. QED BY <1>3, <3>1, <3>2
  <2>6. \A k \in DOMAIN CurrentFile.decls : k < item
    <3>1. PICK a \in Nat : a = Len(CurrentFile.decls) /\ DOMAIN CurrentFile.decls = 1..a
      BY <2>4
    <3>2. PICK b \in Nat : b = Len(CurrentFile.exports) /\ DOMAIN CurrentFile.exports = 1..b
      BY <2>4
    <3>3. CASE ReadExport
      <4>1. item - a \in 1..b
        BY <3>1, <3>2, <3>3 DEF ReadExport
      <4>2. QED BY <2>2, <3>1, <4>1
    <3>4. CASE FileRead
      <4>1. item > a + b
        BY <3>1, <3>2, <3>4 DEF FileRead
      <4>2. item > a
        BY <2>2, <4>1
      <4>3. QED BY <2>2, <3>1, <4>2
    <3>5. QED BY <1>3, <3>3, <3>4
  <2>7. \A k \in DOMAIN CurrentFile.decls : k < item'
    <3>1. DOMAIN CurrentFile.decls \subseteq Nat
      BY <2>4
    <3>2. QED BY <2>1, <2>2, <2>6, <3>1
  <2>8. \A f \in DOMAIN files : \A k \in DOMAIN files[f].decls : HasRead(f, k)' /\ HasRead(f, k)
    BY <2>1, <2>3, <2>6, <2>7 DEF HasRead
  <2>9. QED BY <2>1, <2>2, <2>5, <2>8, FirstsSame
<1>4. CASE Link \/ UNCHANGED vars
  <2>1. /\ UNCHANGED <<files, item, names, errors>>
        /\ phase' = phase \/ (phase = "read" /\ phase' \in {"prepare", "failed"})
    BY <1>4 DEF Link, vars, input
  <2>2. \A f, k : HasRead(f, k)' <=> HasRead(f, k)
    BY <2>1 DEF HasRead
  <2>3. Idle' => Idle
    BY <2>1 DEF Idle
  <2>4. QED BY <2>1, <2>2, <2>3, FirstsSame
<1>5. QED
  BY <1>2, <1>3, <1>4

\* An error-free reading has bound a name to an import if that import was the
\* first to declare it, and to no import otherwise (NewImportName,
\* struct.cpp:97-130).
THEOREM FirstsInv == Spec => []FirstsOK
<1>1. Init => FirstsOK
  BY FirstsInit
<1>2. BindingOK /\ CollectingOK /\ FirstsOK /\ [Next]_vars => FirstsOK'
  <2> SUFFICES ASSUME BindingOK, FirstsOK, [Next]_vars PROVE FirstsOK'
    OBVIOUS
  <2>1. CASE Option \/ OpenFile \/ ReadDeclaration \/ ReadExport \/ FileRead \/ Link \/ UNCHANGED vars
    BY <2>1, OpenFileFirsts, ReadDeclarationFirsts, OtherFirsts
  <2>2. CASE PrepareExport \/ EntryRoot \/ ExportRoot \/ RootsCollected
             \/ FixupToName \/ FixupToSegment \/ Descriptor \/ Return
             \/ CollectAllSegments \/ PassFile \/ CollectAllAgain \/ Place \/ CreateImages
    BY <2>2, NoMoreReading DEF FirstsOK
  <2>3. QED BY <2>1, <2>2 DEF Next
<1>3. QED
  BY <1>1, <1>2, LinkingInv, PTL DEF Spec

\* A name is bound to the import that declared it first, or, where none did, as
\* if the other declarations were known all at once: the first public one wins
\* over weak and COMMON ones, later public ones come from other libraries, and
\* a COMMON block has the largest length asked for (struct.cpp:53-148,
\* NewPublicName to NewWeakName).
THEOREM Definitions == Spec => []OneDefinition
<1>1. ASSUME BindingOK, DefinitionsOK, errors = 0, phase \in {"options", "read", "prepare"},
             NEW n \in Names, names[n] # Null
      PROVE  BoundAtOnce(n)
  <2>1. DefinitionOK(n)
    BY <1>1 DEF DefinitionsOK, Idle
  <2>2. \A f : \A d : d \in ReadOf(f) <=> d \in ToSet(files[f].decls)
    BY <1>1, ReadOfMembers DEF ToSet
  <2>3. \A f : \A k : Declared(f, {k}, n) <=> \E d \in ReadOf(f) : Says(f, d, k, n)
    BY <2>2 DEF Declared, Says
  <2>4. PICK info : info = names[n]
    OBVIOUS
  <2>5. DOMAIN files = 1..Len(files) /\ Len(files) \in Nat /\ FilesOK /\ NameOK(info)
    BY <1>1, <2>4 DEF BindingOK, FilesOK, NamesOK
  <2> DEFINE lengths == UNION {{d.arg : d \in {x \in ToSet(files[f].decls) : x.kind = "common" /\ x.name = n}} :
                               f \in DOMAIN files}
  <2>6. \A l : l \in lengths <=> \E f \in DOMAIN files : \E d \in ToSet(files[f].decls) :
                                  d.kind = "common" /\ d.name = n /\ l = d.arg
    OBVIOUS
  <2> HIDE DEF lengths
  <2>7. ASSUME info.kind = "public", info.seg # Null
        PROVE  LET f == info.seg[1]
               IN  /\ Declared(f, {"public"}, n)
                   /\ \A g \in 1..f - 1 : ~Declared(g, {"public"}, n)
                   /\ \A g \in f + 1..Len(files) : Declared(g, {"public"}, n) =>
                        files[g].lib # Null /\ files[g].lib # files[f].lib
    <3>1. PICK f \in DOMAIN files : f = info.seg[1]
      BY <2>4, <2>5, <2>7, <1>1, SegmentFacts DEF NameOK
    <3>2. /\ \E d \in ReadOf(f) : Says(f, d, "public", n)
          /\ \A g \in DOMAIN files : \A d \in ReadOf(g) : Says(g, d, "public", n) =>
               g >= f /\ (g > f => files[g].lib # Null /\ files[g].lib # files[f].lib)
      BY <1>1, <2>1, <2>4, <2>7, <3>1 DEF DefinitionOK
    <3>3. \A g \in 1..f - 1 : g \in DOMAIN files /\ ~(g >= f)
      BY <2>5
    <3>4. \A g \in f + 1..Len(files) : g \in DOMAIN files /\ g > f
      BY <2>5
    <3>5. QED BY <2>3, <3>1, <3>2, <3>3, <3>4
  <2>8. ASSUME info.kind = "common"
        PROVE  /\ info.arg \in lengths /\ \A l \in lengths : l <= info.arg
               /\ \A g \in DOMAIN files : ~Declared(g, {"public"}, n)
    <3>1. /\ \E f \in DOMAIN files : \E d \in ReadOf(f) : Says(f, d, "common", n) /\ d.arg = info.arg
          /\ \A f \in DOMAIN files : \A d \in ReadOf(f) : Says(f, d, "common", n) => d.arg <= info.arg
          /\ \A f \in DOMAIN files : \A d \in ReadOf(f) : ~Says(f, d, "public", n)
      BY <1>1, <2>1, <2>4, <2>8 DEF DefinitionOK
    <3>2. info.arg \in lengths
      BY <2>2, <2>6, <3>1 DEF Says
    <3>3. \A l \in lengths : l <= info.arg
      BY <2>2, <2>6, <3>1 DEF Says
    <3>4. QED BY <2>3, <3>1, <3>2, <3>3
  <2>9. ASSUME info.kind = "weak"
        PROVE  \A g \in DOMAIN files : ~Declared(g, {"public", "common"}, n)
    <3>1. \A f \in DOMAIN files : \A d \in ReadOf(f) : ~Says(f, d, "public", n) /\ ~Says(f, d, "common", n)
      BY <1>1, <2>1, <2>4, <2>9 DEF DefinitionOK
    <3>2. QED BY <2>2, <3>1 DEF Declared, Says
  <2>10. QED BY <2>4, <2>7, <2>8, <2>9 DEF BoundAtOnce, lengths
<1>2. ASSUME BindingOK, FirstsOK, errors = 0, phase \in {"options", "read", "prepare"},
             NEW n \in Names, names[n] # Null
      PROVE  BoundToFirst(n)
  <2>1. FirstOK(n) /\ \A f, k : HasRead(f, k)
    BY <1>2 DEF FirstsOK, HasRead, Idle
  <2>2. PICK f \in DOMAIN files : \E k \in DOMAIN files[f].decls :
          ReadFirst(f, k, n) /\ Begins(files[f].decls[k], names[n])
    BY <1>2, <2>1 DEF FirstOK
  <2>3. PICK k \in DOMAIN files[f].decls : ReadFirst(f, k, n) /\ Begins(files[f].decls[k], names[n])
    BY <2>2
  <2>4. FilesOK /\ \A g \in DOMAIN files : g \in Nat
    BY <1>2, FileFacts DEF BindingOK
  <2>5. 1..f \subseteq DOMAIN files
    BY <2>4, FileFacts
  <2>6. DeclaredFirst(f, k, n)
    <3>1. ASSUME NEW g \in 1..f, NEW j \in DOMAIN files[g].decls, Declares(g, j, n)
          PROVE  g = f /\ j >= k
      <4>1. f < g \/ (f = g /\ k <= j)
        BY <2>1, <2>3, <2>5, <3>1 DEF ReadFirst
      <4>2. QED BY <2>4, <4>1
    <3>2. QED BY <2>3, <3>1 DEF ReadFirst, DeclaredFirst
  <2>7. names[n].kind \in Imports => \A g \in DOMAIN files : Declared(g, {"public", "common"}, n) => files[g].lib # Null
    <3>1. ASSUME names[n].kind \in Imports, NEW g \in DOMAIN files, Declared(g, {"public", "common"}, n)
          PROVE  files[g].lib # Null
      <4>1. PICK j \in DOMAIN files[g].decls :
              files[g].decls[j].kind \in {"public", "common"} /\ files[g].decls[j].name = n
        BY <3>1 DEF Declared, ToSet
      <4>2. QED BY <1>2, <2>1, <3>1, <4>1 DEF FirstOK, Declares
    <3>2. QED BY <3>1
  <2>8. QED BY <2>3, <2>6, <2>7 DEF BoundToFirst, Begins
<1>3. BindingOK /\ DefinitionsOK /\ FirstsOK => OneDefinition
  BY <1>1, <1>2 DEF OneDefinition
<1>4. QED
  BY <1>3, LinkingInv, DefinitionsInv, FirstsInv, PTL

-----------------------------------------------------------------------------
(* The tables that the order and the addresses are made from *)

Pairs == Nat \X Nat
IsBlock(s) == \E k \in DOMAIN commons : s = <<0, k>>
TablesOK ==
  /\ IsSequence(imported)
  /\ commons \in Seq(Names) /\ \A k \in DOMAIN commons : names[commons[k]] # Null
  /\ \A s \in processed : InFile(s) \/ IsBlock(s)

LEMMA AlignmentShape ==
  ASSUME NEW n \in Nat
  PROVE  Alignment(n) \in Nat \ {0}
BY DEF Alignment

\* What a segment is made of, be it of a file or of a COMMON block.
LEMMA SegmentShape ==
  ASSUME BindingOK, TablesOK, NEW s, InFile(s) \/ IsBlock(s)
  PROVE  /\ s \in Pairs
         /\ Seg(s).group \in Nat /\ Seg(s).align \in Nat \ {0} /\ Seg(s).len \in Nat
         /\ Seg(s).fixups \in Seq(Fixups)
<1>1. CASE InFile(s)
  <2>1. FilesOK
    BY DEF BindingOK
  <2>2. /\ s \in Pairs /\ s[1] \in DOMAIN files /\ s[2] \in DOMAIN files[s[1]].segs
        /\ Seg(s) = files[s[1]].segs[s[2]]
    BY <1>1, <2>1, SegmentFacts DEF Pairs
  <2>3. files[s[1]].segs \in Seq(Segments)
    BY <2>1, <2>2, FileFacts
  <2>4. Seg(s) \in Segments
    BY <2>2, <2>3
  <2>5. QED BY <2>2, <2>4 DEF Segments
<1>2. CASE IsBlock(s)
  <2>1. PICK k \in DOMAIN commons : s = <<0, k>>
    BY <1>2 DEF IsBlock
  <2>2. k \in Nat /\ s \in Pairs /\ s[1] = 0 /\ s[2] = k
    BY <2>1 DEF TablesOK, Pairs
  <2>3. commons[k] \in Names /\ names[commons[k]] # Null
    BY <2>1 DEF TablesOK
  <2>4. names \in [Names -> Infos \cup {Null}]
    BY DEF BindingOK, NamesOK
  <2>5. names[commons[k]].arg \in Nat
    BY <2>3, <2>4 DEF Infos
  <2>6. Seg(s) = Common(commons[k])
    BY <2>2 DEF Seg
  <2>7. Seg(s).group = 0 /\ Seg(s).align = Alignment(names[commons[k]].arg)
        /\ Seg(s).len = names[commons[k]].arg /\ Seg(s).fixups = <<>>
    BY <2>6 DEF Common
  <2>8. <<>> \in Seq(Fixups)
    OBVIOUS
  <2>9. PICK n \in Nat : n = names[commons[k]].arg
    BY <2>5
  <2>10. Alignment(n) \in Nat \ {0}
    BY AlignmentShape
  <2>11. Seg(s).group = 0 /\ Seg(s).align \in Nat \ {0} /\ Seg(s).len \in Nat /\ Seg(s).fixups \in Seq(Fixups)
    BY <2>7, <2>8, <2>9, <2>10
  <2>12. QED BY <2>2, <2>11
<1>3. QED BY <1>1, <1>2

LEMMA SectionShape ==
  ASSUME NEW s
  PROVE  Section(s) \in Classes
BY DEF Section, Classes

\* The segments of a file, each once.
LEMMA SegmentsOfShape ==
  ASSUME FilesOK, NEW f \in DOMAIN files
  PROVE  /\ SegmentsOf(f) \in Seq(Pairs) /\ IsInjective(SegmentsOf(f))
         /\ \A s : s \in ToSet(SegmentsOf(f)) <=> \E i \in DOMAIN files[f].segs : s = <<f, i>>
<1>1. PICK n \in Nat : DOMAIN files[f].segs = 1..n /\ f \in Nat
  BY FileFacts
<1>2. PICK t : t = SegmentsOf(f)
  OBVIOUS
<1>3. t = [i \in 1..n |-> <<f, i>>]
  BY <1>1, <1>2 DEF SegmentsOf
<1>4. t \in Seq(Pairs) /\ Len(t) = n
  BY <1>1, <1>3 DEF Pairs
<1>5. \A i \in 1..n : t[i] = <<f, i>>
  BY <1>3
<1>6. IsInjective(t)
  <2>1. \A i, j \in 1..n : t[i] = t[j] => i = j
    BY <1>5
  <2>2. QED BY <1>4, <2>1, InjectiveSeq
<1>7. ASSUME NEW s PROVE s \in ToSet(t) <=> \E i \in 1..n : s = <<f, i>>
  <2>1. s \in ToSet(t) <=> \E i \in 1..n : t[i] = s
    BY <1>4, ToSetMember
  <2>2. QED BY <1>5, <2>1
<1>8. QED BY <1>1, <1>2, <1>4, <1>6, <1>7

LEMMA FileSegmentsShape ==
  ASSUME FilesOK
  PROVE  /\ FileSegments \in Seq(Pairs) /\ IsInjective(FileSegments)
         /\ \A s : s \in ToSet(FileSegments) <=> InFile(s)
<1>1. PICK n \in Nat : DOMAIN files = 1..n
  BY DEF FilesOK
<1>2. PICK ss : ss = [f \in 1..n |-> SegmentsOf(f)]
  OBVIOUS
<1>3. FileSegments = FlattenSeq(ss)
  BY <1>1, <1>2 DEF FileSegments
<1>4. \A f \in 1..n : ss[f] = SegmentsOf(f)
  BY <1>2
<1>5. \A f \in 1..n : /\ ss[f] \in Seq(Pairs) /\ IsInjective(ss[f])
                      /\ \A s : s \in ToSet(ss[f]) <=> \E i \in DOMAIN files[f].segs : s = <<f, i>>
  BY <1>1, <1>4, SegmentsOfShape
<1>6. PICK T : T = Seq(Pairs)
  OBVIOUS
<1>7. ss \in Seq(Seq(Pairs)) /\ Len(ss) = n
  <2>1. \A f \in 1..n : ss[f] \in T
    BY <1>5, <1>6
  <2>2. ss \in Seq(T) /\ Len(ss) = n
    BY <1>2, <2>1
  <2>3. QED BY <1>6, <2>2
<1>8. ASSUME NEW f \in 1..n, NEW g \in 1..n, f # g PROVE ToSet(ss[f]) \cap ToSet(ss[g]) = {}
  <2>1. ASSUME NEW s, s \in ToSet(ss[f]), s \in ToSet(ss[g]) PROVE FALSE
    <3>1. s[1] = f
      BY <1>5, <2>1
    <3>2. s[1] = g
      BY <1>5, <2>1
    <3>3. QED BY <1>8, <3>1, <3>2
  <2>2. QED BY <2>1
<1>9. /\ FlattenSeq(ss) \in Seq(Pairs) /\ IsInjective(FlattenSeq(ss))
      /\ ToSet(FlattenSeq(ss)) = UNION {ToSet(ss[f]) : f \in 1..n}
  <2>1. /\ \A f \in 1..Len(ss) : IsInjective(ss[f])
        /\ \A f, g \in 1..Len(ss) : f # g => ToSet(ss[f]) \cap ToSet(ss[g]) = {}
    BY <1>5, <1>7, <1>8
  <2>2. QED BY <1>7, <2>1, FlattenShape
<1>10. ASSUME NEW s PROVE s \in ToSet(FlattenSeq(ss)) <=> InFile(s)
  <2>1. s \in ToSet(FlattenSeq(ss)) <=> \E f \in 1..n : s \in ToSet(ss[f])
    BY <1>9
  <2>2. QED BY <1>1, <1>5, <2>1 DEF InFile
<1>11. QED BY <1>3, <1>9, <1>10

\* FileList has every segment once.
LEMMA AllSegmentsShape ==
  ASSUME FilesOK, TablesOK
  PROVE  /\ AllSegments \in Seq(Pairs) /\ IsInjective(AllSegments)
         /\ \A s : s \in ToSet(AllSegments) <=> InFile(s) \/ IsBlock(s)
<1>1. PICK n \in Nat : DOMAIN commons = 1..n
  BY DEF TablesOK
<1>2. PICK t : t = [k \in 1..n |-> <<0, k>>]
  OBVIOUS
<1>3. AllSegments = FileSegments \o t
  BY <1>1, <1>2 DEF AllSegments
<1>4. t \in Seq(Pairs) /\ Len(t) = n
  BY <1>2 DEF Pairs
<1>5. \A k \in 1..n : t[k] = <<0, k>>
  BY <1>2
<1>6. IsInjective(t)
  <2>1. \A i, j \in 1..n : t[i] = t[j] => i = j
    BY <1>5
  <2>2. QED BY <1>4, <2>1, InjectiveSeq
<1>7. ASSUME NEW s PROVE s \in ToSet(t) <=> IsBlock(s)
  <2>1. s \in ToSet(t) <=> \E i \in 1..n : t[i] = s
    BY <1>4, ToSetMember
  <2>2. QED BY <1>1, <1>5, <2>1 DEF IsBlock
<1>8. ToSet(FileSegments) \cap ToSet(t) = {}
  <2>1. ASSUME NEW s, InFile(s), IsBlock(s) PROVE FALSE
    <3>1. s[1] # 0
      BY <2>1, SegmentFacts
    <3>2. s[1] = 0
      BY <2>1 DEF IsBlock
    <3>3. QED BY <3>1, <3>2
  <2>2. QED BY <1>7, <2>1, FileSegmentsShape
<1>9. /\ FileSegments \o t \in Seq(Pairs) /\ IsInjective(FileSegments \o t)
      /\ ToSet(FileSegments \o t) = ToSet(FileSegments) \cup ToSet(t)
  BY <1>4, <1>6, <1>8, FileSegmentsShape, ConcatShape
<1>10. QED BY <1>3, <1>7, <1>9, FileSegmentsShape

-----------------------------------------------------------------------------
(* The order of the segments *)

\* A segment is put somewhere among those of its collection.
LEMMA InsertSegmentShape ==
  ASSUME NEW segs \in Seq(Pairs), NEW s \in Pairs,
         \A q \in ToSet(segs) \cup {s} : Len(Seg(q).fixups) \in Nat
  PROVE  \/ InsertSegment(segs, s) = Append(segs, s)
         \/ \E i \in 1..Len(segs) + 1 : InsertSegment(segs, s) = InsertAt(segs, i, s)
<1>1. PICK n \in Nat : n = Len(segs) /\ DOMAIN segs = 1..n
  OBVIOUS
<1>2. PICK run : run = {i \in DOMAIN segs : segs[i][1] = s[1]}
  OBVIOUS
<1>3. CASE run = {}
  BY <1>2, <1>3 DEF InsertSegment
<1>4. CASE run # {}
  <2>1. PICK first : first = CHOOSE i \in run : \A j \in run : i <= j
    OBVIOUS
  <2>2. first \in run
    <3>1. run \in SUBSET Nat
      BY <1>1, <1>2
    <3>2. \E i \in run : \A j \in run : i <= j
      BY <1>4, <3>1, LeastExists
    <3>3. QED BY <2>1, <3>2
  <2>3. first \in 1..n
    BY <1>1, <1>2, <2>2
  <2> DEFINE Before(q) == segs[q][1] = s[1] /\ Len(Seg(segs[q]).fixups) >= Len(Seg(s).fixups)
             Stop(i) == /\ \/ i = n + 1
                           \/ i <= n /\ (segs[i][1] # s[1] \/ Len(Seg(segs[i]).fixups) < Len(Seg(s).fixups))
                        /\ \A j \in first..i - 1 : Before(j)
  <2>4. \E i \in first..n + 1 : Stop(i)
    <3>1. PICK Stops : Stops = {i \in first..n + 1 : i = n + 1 \/ ~Before(i)}
      OBVIOUS
    <3>2. Stops \in SUBSET Nat /\ n + 1 \in Stops
      BY <2>3, <3>1
    <3>3. PICK m \in Stops : \A j \in Stops : m <= j
      BY <3>2, LeastExists
    <3>4. m \in first..n + 1 /\ (m = n + 1 \/ ~Before(m))
      BY <3>1, <3>3
    <3>5. ASSUME NEW j \in first..m - 1 PROVE Before(j)
      <4>1. j \in first..n + 1 /\ j # n + 1 /\ ~(m <= j)
        BY <2>3, <3>4
      <4>2. QED BY <3>1, <3>3, <4>1
    <3>6. CASE m = n + 1
      BY <3>4, <3>5, <3>6
    <3>7. CASE m # n + 1
      <4>1. m \in 1..n /\ ~Before(m)
        BY <2>3, <3>4, <3>7
      <4>2. segs[m] \in ToSet(segs)
        BY <1>1, <4>1, ToSetMember
      <4>3. Len(Seg(segs[m]).fixups) \in Nat /\ Len(Seg(s).fixups) \in Nat
        BY <4>2
      <4>4. m <= n /\ (segs[m][1] # s[1] \/ Len(Seg(segs[m]).fixups) < Len(Seg(s).fixups))
        BY <4>1, <4>3
      <4>5. QED BY <3>4, <3>5, <4>4
    <3>8. QED BY <3>6, <3>7
  <2>5. PICK stop : stop = CHOOSE i \in first..n + 1 : Stop(i)
    OBVIOUS
  <2>6. InsertSegment(segs, s) = InsertAt(segs, stop, s)
    BY <1>1, <1>2, <1>4, <2>1, <2>5 DEF InsertSegment
  <2> HIDE DEF Stop
  <2>7. stop \in first..n + 1
    BY <2>4, <2>5
  <2>8. stop \in 1..Len(segs) + 1
    BY <1>1, <2>3, <2>7
  <2>9. QED BY <2>6, <2>8
<1>5. QED BY <1>3, <1>4

\* Collections of segments, each under one name and each segment in one.
Collections == [name : Nat, segs : Seq(Pairs)]
Gathered(colls, S) ==
  /\ colls \in Seq(Collections) /\ IsInjective(colls)
  /\ \A x \in ToSet(colls) : IsInjective(x.segs)
  /\ \A x, y \in ToSet(colls) : x # y => x.name # y.name /\ ToSet(x.segs) \cap ToSet(y.segs) = {}
  /\ S = UNION {ToSet(x.segs) : x \in ToSet(colls)}

\* A segment goes into one collection.
LEMMA PutShape ==
  ASSUME NEW segs \in Seq(Pairs), NEW s \in Pairs, NEW sort \in BOOLEAN,
         \A q \in ToSet(segs) \cup {s} : Len(Seg(q).fixups) \in Nat,
         s \notin ToSet(segs), IsInjective(segs)
  PROVE  LET r == IF sort THEN InsertSegment(segs, s) ELSE Append(segs, s)
         IN  r \in Seq(Pairs) /\ IsInjective(r) /\ ToSet(r) = ToSet(segs) \cup {s}
<1>1. Append(segs, s) \in Seq(Pairs) /\ ToSet(Append(segs, s)) = ToSet(segs) \cup {s}
  BY AppendShape
<1>2. IsInjective(Append(segs, s))
  BY AppendNew
<1>3. ASSUME NEW i \in 1..Len(segs) + 1
      PROVE  /\ InsertAt(segs, i, s) \in Seq(Pairs) /\ IsInjective(InsertAt(segs, i, s))
             /\ ToSet(InsertAt(segs, i, s)) = ToSet(segs) \cup {s}
  BY InsertShape
<1>4. QED BY <1>1, <1>2, <1>3, InsertSegmentShape

LEMMA AddCollectionShape ==
  ASSUME NEW colls, NEW S, Gathered(colls, S), NEW s \in Pairs, s \notin S,
         Seg(s).group \in Nat, \A q \in S \cup {s} : Len(Seg(q).fixups) \in Nat
  PROVE  Gathered(AddCollection(colls, s), S \cup {s})
<1>1. colls \in Seq(Collections)
  BY DEF Gathered
<1>2. PICK n \in Nat : n = Len(colls) /\ DOMAIN colls = 1..n
  BY <1>1
<1>3. PICK g \in Nat : g = Seg(s).group
  OBVIOUS
<1>4. PICK sort \in BOOLEAN : sort <=> Section(s) \in Sorted
  <2>1. CASE Section(s) \in Sorted
    <3>1. TRUE \in BOOLEAN /\ (TRUE <=> Section(s) \in Sorted)
      BY <2>1
    <3>2. QED BY <3>1
  <2>2. CASE Section(s) \notin Sorted
    <3>1. FALSE \in BOOLEAN /\ (FALSE <=> Section(s) \in Sorted)
      BY <2>2
    <3>2. QED BY <3>1
  <2>3. QED BY <2>1, <2>2
<1>5. PICK same : same = {i \in 1..n : colls[i].name = g}
  OBVIOUS
<1>6. PICK later : later = {i \in 1..n : sort /\ g < colls[i].name}
  OBVIOUS
<1>7. PICK new : new = [name |-> g, segs |-> <<s>>]
  OBVIOUS
<1> DEFINE put(segs) == IF sort THEN InsertSegment(segs, s) ELSE Append(segs, s)
<1>8. \A i \in 1..n : colls[i] \in Collections /\ colls[i] \in ToSet(colls)
  BY <1>1, <1>2, ToSetMember
<1>9. \A x \in ToSet(colls) : \E i \in 1..n : x = colls[i]
  BY <1>1, <1>2, ToSetMember
<1>10. \A x \in ToSet(colls) : x \in Collections /\ x.name \in Nat /\ x.segs \in Seq(Pairs) /\ IsInjective(x.segs)
  BY <1>8, <1>9 DEF Collections, Gathered
<1>11. /\ \A x, y \in ToSet(colls) : x # y => x.name # y.name /\ ToSet(x.segs) \cap ToSet(y.segs) = {}
       /\ \A x \in ToSet(colls) : \A q \in ToSet(x.segs) : q \in S
       /\ \A q \in S : \E x \in ToSet(colls) : q \in ToSet(x.segs)
       /\ \A i, j \in 1..n : colls[i] = colls[j] => i = j
  <2>1. IsInjective(colls)
    BY DEF Gathered
  <2>2. \A i, j \in 1..n : colls[i] = colls[j] => i = j
    BY <1>1, <1>2, <2>1, InjectiveSeq
  <2>3. S = UNION {ToSet(x.segs) : x \in ToSet(colls)}
    BY DEF Gathered
  <2>4. \A x \in ToSet(colls) : \A q \in ToSet(x.segs) : q \in S
    BY <2>3
  <2>5. \A q \in S : \E x \in ToSet(colls) : q \in ToSet(x.segs)
    BY <2>3
  <2>6. \A x, y \in ToSet(colls) : x # y => x.name # y.name /\ ToSet(x.segs) \cap ToSet(y.segs) = {}
    BY DEF Gathered
  <2>7. QED BY <2>2, <2>4, <2>5, <2>6
<1>12. CASE same # {}
  <2>1. PICK k \in 1..n : k \in same /\ colls[k].name = g
    BY <1>5, <1>12
  <2>2. ASSUME NEW i \in same PROVE i = k
    <3>1. i \in 1..n /\ colls[i].name = colls[k].name
      BY <1>5, <2>1
    <3>2. colls[i] = colls[k]
      BY <1>8, <1>11, <2>1, <3>1
    <3>3. QED BY <1>11, <2>1, <3>1, <3>2
  <2>3. PICK old : old = colls[k]
    OBVIOUS
  <2>4. PICK segs : segs = put(old.segs)
    OBVIOUS
  <2>5. segs \in Seq(Pairs) /\ IsInjective(segs) /\ ToSet(segs) = ToSet(old.segs) \cup {s}
    <3>1. old \in ToSet(colls) /\ old.segs \in Seq(Pairs) /\ IsInjective(old.segs)
      BY <1>8, <1>10, <2>1, <2>3
    <3>2. s \notin ToSet(old.segs)
      BY <1>11, <3>1
    <3>3. \A q \in ToSet(old.segs) \cup {s} : Len(Seg(q).fixups) \in Nat
      BY <1>11, <3>1
    <3>4. QED BY <2>4, <3>1, <3>2, <3>3, PutShape
  <2> HIDE DEF put
  <2>6. PICK r : r = [i \in 1..n |-> IF i \in same THEN [colls[i] EXCEPT !.segs = put(@)] ELSE colls[i]]
    OBVIOUS
  <2>7. AddCollection(colls, s) = r
    BY <1>2, <1>3, <1>4, <1>5, <1>12, <2>6 DEF AddCollection, put
  <2>8. PICK x : x = [old EXCEPT !.segs = segs]
    OBVIOUS
  <2>9. x \in Collections /\ x.name = g /\ x.segs = segs
    <3>1. old \in Collections /\ old.name = g
      BY <1>8, <2>1, <2>3
    <3>2. QED BY <2>5, <2>8, <3>1 DEF Collections
  <2>10. ASSUME NEW i \in 1..n PROVE r[i] = IF i = k THEN x ELSE colls[i]
    <3>1. CASE i = k
      BY <2>1, <2>3, <2>4, <2>6, <2>8, <3>1
    <3>2. CASE i # k
      BY <2>2, <2>6, <3>2
    <3>3. QED BY <3>1, <3>2
  <2>11. r \in Seq(Collections) /\ Len(r) = n
    <3>1. \A i \in 1..n : r[i] \in Collections
      BY <1>8, <2>9, <2>10
    <3>2. r = [i \in 1..n |-> r[i]]
      BY <2>6
    <3>3. QED BY <3>1, <3>2
  <2>12. ASSUME NEW y, y \in ToSet(r) PROVE y = x \/ (y \in ToSet(colls) /\ y # old)
    <3>1. PICK i \in 1..n : r[i] = y
      BY <2>11, <2>12, ToSetMember
    <3>2. CASE i = k
      BY <2>10, <3>1, <3>2
    <3>3. CASE i # k
      BY <1>8, <1>11, <2>1, <2>3, <2>10, <3>1, <3>3
    <3>4. QED BY <3>2, <3>3
  <2>13. x \in ToSet(r) /\ \A y \in ToSet(colls) : y = old \/ y \in ToSet(r)
    <3>1. \A i \in 1..n : r[i] \in ToSet(r)
      BY <2>11, ToSetMember
    <3>2. x \in ToSet(r)
      BY <2>1, <2>10, <3>1
    <3>3. ASSUME NEW y \in ToSet(colls), y # old PROVE y \in ToSet(r)
      <4>1. PICK i \in 1..n : y = colls[i]
        BY <1>9
      <4>2. r[i] = y
        BY <2>3, <2>10, <3>3, <4>1
      <4>3. QED BY <3>1, <4>2
    <3>4. QED BY <3>2, <3>3
  <2>14. old \in ToSet(colls) /\ old.name = g
    BY <1>8, <2>1, <2>3
  <2>15. \A y \in ToSet(colls) : y # old => y.name # g /\ ToSet(y.segs) \cap ToSet(segs) = {}
    BY <1>11, <2>5, <2>14
  <2>16. IsInjective(r)
    <3>1. ASSUME NEW i \in 1..n, NEW j \in 1..n, r[i] = r[j] PROVE i = j
      <4>1. \A m \in 1..n : m # k => colls[m] # old /\ colls[m] # x
        BY <1>8, <1>11, <2>1, <2>3, <2>9, <2>15
      <4>2. QED BY <1>11, <2>10, <3>1, <4>1
    <3>2. QED BY <2>11, <3>1, InjectiveSeq
  <2>17. \A y \in ToSet(r) : IsInjective(y.segs)
    BY <1>10, <2>5, <2>9, <2>12
  <2>18. \A y, z \in ToSet(r) : y # z => y.name # z.name /\ ToSet(y.segs) \cap ToSet(z.segs) = {}
    <3>1. ASSUME NEW y \in ToSet(r), NEW z \in ToSet(r), y # z
          PROVE  y.name # z.name /\ ToSet(y.segs) \cap ToSet(z.segs) = {}
      <4>1. CASE y = x
        <5>1. z \in ToSet(colls) /\ z # old
          BY <2>12, <3>1, <4>1
        <5>2. z.name # g /\ ToSet(z.segs) \cap ToSet(segs) = {}
          BY <2>15, <5>1
        <5>3. QED BY <2>9, <4>1, <5>2
      <4>2. CASE z = x
        <5>1. y \in ToSet(colls) /\ y # old
          BY <2>12, <3>1, <4>2
        <5>2. y.name # g /\ ToSet(y.segs) \cap ToSet(segs) = {}
          BY <2>15, <5>1
        <5>3. QED BY <2>9, <4>2, <5>2
      <4>3. CASE y # x /\ z # x
        <5>1. y \in ToSet(colls) /\ z \in ToSet(colls)
          BY <2>12, <4>3
        <5>2. QED BY <1>11, <3>1, <5>1
      <4>4. QED BY <4>1, <4>2, <4>3
    <3>2. QED BY <3>1
  <2>19. ASSUME NEW q PROVE q \in S \cup {s} <=> \E y \in ToSet(r) : q \in ToSet(y.segs)
    <3>1. ASSUME q \in S \cup {s} PROVE \E y \in ToSet(r) : q \in ToSet(y.segs)
      <4>1. CASE q = s \/ q \in ToSet(old.segs)
        BY <2>5, <2>9, <2>13, <4>1
      <4>2. CASE q # s /\ q \notin ToSet(old.segs)
        BY <1>11, <2>13, <3>1, <4>2
      <4>3. QED BY <4>1, <4>2
    <3>2. ASSUME NEW y \in ToSet(r), q \in ToSet(y.segs) PROVE q \in S \cup {s}
      BY <1>11, <2>5, <2>9, <2>12, <2>14, <3>2
    <3>3. QED BY <3>1, <3>2
  <2>20. S \cup {s} = UNION {ToSet(y.segs) : y \in ToSet(r)}
    BY <2>19
  <2>21. QED BY <2>7, <2>11, <2>16, <2>17, <2>18, <2>20 DEF Gathered
<1>13. CASE same = {}
  <2>1. \A y \in ToSet(colls) : y.name # g
    BY <1>5, <1>9, <1>13
  <2>2. <<s>> \in Seq(Pairs) /\ ToSet(<<s>>) = {s} /\ IsInjective(<<s>>)
    <3>1. <<s>> \in Seq(Pairs) /\ Len(<<s>>) = 1 /\ <<s>>[1] = s
      OBVIOUS
    <3>2. PICK one \in Seq(Pairs) : one = <<s>> /\ Len(one) = 1 /\ one[1] = s
      BY <3>1
    <3>3. ASSUME NEW q PROVE q \in ToSet(one) <=> q = s
      <4>1. q \in ToSet(one) <=> \E i \in 1..Len(one) : one[i] = q
        BY ToSetMember
      <4>2. QED BY <3>2, <4>1
    <3>4. IsInjective(one)
      <4>1. \A i, j \in 1..1 : one[i] = one[j] => i = j
        OBVIOUS
      <4>2. QED BY <3>2, <4>1, InjectiveSeq
    <3>5. ToSet(one) = {s}
      BY <3>3
    <3>6. QED BY <3>2, <3>4, <3>5
  <2>3. new \in Collections /\ new.name = g /\ new.segs = <<s>>
    BY <1>7, <2>2 DEF Collections
  <2>4. new \notin ToSet(colls)
    BY <2>1, <2>3
  <2>5. PICK r : r = AddCollection(colls, s)
    OBVIOUS
  <2>6. r \in Seq(Collections) /\ IsInjective(r) /\ ToSet(r) = ToSet(colls) \cup {new}
    <3>0. IsInjective(colls)
      BY DEF Gathered
    <3>1. CASE later # {}
      <4>1. PICK i : i = CHOOSE j \in later : \A m \in later : j <= m
        OBVIOUS
      <4>2. later \in SUBSET Nat
        BY <1>6
      <4>3. \E j \in later : \A m \in later : j <= m
        BY <3>1, <4>2, LeastExists
      <4>4. i \in 1..n
        BY <1>6, <4>1, <4>3
      <4>5. r = InsertAt(colls, i, new)
        BY <1>2, <1>3, <1>4, <1>5, <1>6, <1>7, <1>13, <2>5, <3>1, <4>1 DEF AddCollection
      <4>6. i \in 1..Len(colls) + 1
        BY <1>2, <4>4
      <4>7. QED BY <1>1, <2>3, <2>4, <3>0, <4>5, <4>6, InsertShape
    <3>2. CASE later = {}
      <4>1. r = Append(colls, new)
        BY <1>2, <1>3, <1>4, <1>5, <1>6, <1>7, <1>13, <2>5, <3>2 DEF AddCollection
      <4>2. QED BY <1>1, <2>3, <2>4, <3>0, <4>1, AppendShape, AppendNew
    <3>3. QED BY <3>1, <3>2
  <2>7. \A y \in ToSet(r) : IsInjective(y.segs)
    BY <1>10, <2>2, <2>3, <2>6
  <2>8. \A y \in ToSet(colls) : ToSet(y.segs) \cap ToSet(new.segs) = {}
    BY <1>11, <2>2, <2>3
  <2>9. \A y, z \in ToSet(r) : y # z => y.name # z.name /\ ToSet(y.segs) \cap ToSet(z.segs) = {}
    BY <1>11, <2>1, <2>3, <2>6, <2>8
  <2>10. ASSUME NEW q PROVE q \in S \cup {s} <=> \E y \in ToSet(r) : q \in ToSet(y.segs)
    BY <1>11, <2>2, <2>3, <2>6
  <2>11. S \cup {s} = UNION {ToSet(y.segs) : y \in ToSet(r)}
    BY <2>10
  <2>12. QED BY <2>5, <2>6, <2>7, <2>9, <2>11 DEF Gathered
<1>14. QED BY <1>12, <1>13

\* Every segment of a section that is linked has one place in the section.
LEMMA OrderShape ==
  ASSUME BindingOK, TablesOK, NEW c
  PROVE  /\ OrderSegments(c) \in Seq(Pairs) /\ IsInjective(OrderSegments(c))
         /\ ToSet(OrderSegments(c)) = {s \in processed : Section(s) = c}
<1>0. FilesOK
  BY DEF BindingOK
<1>1. PICK all : all = AllSegments
  OBVIOUS
<1>2. PICK n \in Nat : n = Len(all) /\ all \in Seq(Pairs)
  BY <1>0, <1>1, AllSegmentsShape
<1>3. /\ \A i, j \in 1..n : all[i] = all[j] => i = j
      /\ \A i \in 1..n : all[i] \in Pairs /\ (InFile(all[i]) \/ IsBlock(all[i]))
      /\ \A s : InFile(s) \/ IsBlock(s) => \E i \in 1..n : all[i] = s
  <2>1. IsInjective(all) /\ \A s : s \in ToSet(all) <=> InFile(s) \/ IsBlock(s)
    BY <1>0, <1>1, AllSegmentsShape
  <2>2. \A s : s \in ToSet(all) <=> \E i \in 1..n : all[i] = s
    BY <1>2, ToSetMember
  <2>3. \A i, j \in 1..n : all[i] = all[j] => i = j
    BY <1>2, <2>1, InjectiveSeq
  <2>4. \A i \in 1..n : all[i] \in Pairs /\ (InFile(all[i]) \/ IsBlock(all[i]))
    BY <1>2, <2>1, <2>2
  <2>5. \A s : InFile(s) \/ IsBlock(s) => \E i \in 1..n : all[i] = s
    BY <2>1, <2>2
  <2>6. QED BY <2>3, <2>4, <2>5
<1> DEFINE mine(s) == s \in processed /\ Section(s) = c
<1>4. PICK M : M = {s \in processed : Section(s) = c}
  OBVIOUS
<1>5. \A s : mine(s) <=> s \in M
  BY <1>4
<1>6. \A i \in 1..n : /\ Seg(all[i]).group \in Nat /\ Len(Seg(all[i]).fixups) \in Nat
  <2>1. ASSUME NEW i \in 1..n PROVE Seg(all[i]).group \in Nat /\ Seg(all[i]).fixups \in Seq(Fixups)
    BY <1>3, SegmentShape
  <2>2. QED BY <2>1
<1> DEFINE Kept(i) == {s \in M : \E j \in 1..i : all[j] = s}
\* One step puts the segment in its place, or passes over it.
<1>7. ASSUME NEW i \in 1..n, NEW colls, Gathered(colls, Kept(i - 1))
      PROVE  Gathered(IF mine(all[i]) THEN AddCollection(colls, all[i]) ELSE colls, Kept(i))
  <2>1. \A j \in 1..i : j \in 1..i - 1 \/ j = i
    OBVIOUS
  <2>2. \A j \in 1..i - 1 : j \in 1..i /\ j \in 1..n /\ j # i
    OBVIOUS
  <2>3. i \in 1..i
    OBVIOUS
  <2>4. CASE all[i] \in M
    <3>1. Kept(i) = Kept(i - 1) \cup {all[i]}
      <4>1. ASSUME NEW s PROVE s \in Kept(i) <=> s \in Kept(i - 1) \cup {all[i]}
        BY <2>1, <2>2, <2>3, <2>4
      <4>2. QED BY <4>1
    <3>2. all[i] \notin Kept(i - 1)
      BY <1>3, <2>2
    <3>3. \A q \in Kept(i - 1) \cup {all[i]} : Len(Seg(q).fixups) \in Nat
      BY <1>6, <2>2
    <3> HIDE DEF Kept, mine
    <3>4. Gathered(AddCollection(colls, all[i]), Kept(i - 1) \cup {all[i]})
      BY <1>3, <1>6, <1>7, <3>2, <3>3, AddCollectionShape
    <3>5. QED BY <1>5, <2>4, <3>1, <3>4
  <2>5. CASE all[i] \notin M
    <3>1. Kept(i) = Kept(i - 1)
      <4>1. ASSUME NEW s PROVE s \in Kept(i) <=> s \in Kept(i - 1)
        BY <2>1, <2>2, <2>5
      <4>2. QED BY <4>1
    <3> HIDE DEF Kept, mine
    <3>2. QED BY <1>5, <1>7, <2>5, <3>1
  <2>6. QED BY <2>4, <2>5
<1> DEFINE Step(i, colls) == IF mine(all[i]) THEN AddCollection(colls, all[i]) ELSE colls
<1>8. PICK S : S = Seq(Collections)
  OBVIOUS
<1>9. PICK h : h = [p \in (1..n) \X S |-> IF Gathered(p[2], Kept(p[1] - 1)) THEN Step(p[1], p[2]) ELSE <<>>]
  OBVIOUS
<1>10. ASSUME NEW i \in 1..n, NEW x \in S
       PROVE  /\ h[<<i, x>>] \in S
              /\ Gathered(x, Kept(i - 1)) => h[<<i, x>>] = Step(i, x) /\ Gathered(Step(i, x), Kept(i))
  <2>1. <<i, x>> \in (1..n) \X S /\ <<i, x>>[1] = i /\ <<i, x>>[2] = x
    OBVIOUS
  <2> DEFINE G == Gathered(x, Kept(i - 1))
  <2>2. G => Gathered(Step(i, x), Kept(i))
    BY <1>7
  <2> HIDE DEF Step, Kept
  <2>3. h[<<i, x>>] = IF G THEN Step(i, x) ELSE <<>>
    BY <1>9, <2>1
  <2>4. CASE G
    <3>1. Step(i, x) \in S
      BY <1>8, <2>2, <2>4 DEF Gathered
    <3>2. QED BY <2>2, <2>3, <2>4, <3>1
  <2>5. CASE ~G
    <3>1. <<>> \in S
      BY <1>8
    <3>2. QED BY <2>3, <2>5, <3>1
  <2>6. QED BY <2>4, <2>5
<1> HIDE DEF Step, Kept, mine
<1>11. PICK f : Recurs(f, h, n, <<>>, S)
  <2>1. StaysIn(h, n, S)
    BY <1>10 DEF StaysIn
  <2>2. <<>> \in S
    BY <1>8
  <2>3. QED BY <2>1, <2>2, Recursion
<1>12. f \in [0..n -> S] /\ f[0] = <<>> /\ \A i \in 1..n : f[i] = h[<<i, f[i - 1]>>]
  BY <1>11 DEF Recurs
<1>13. PICK G : G = {i \in 0..n : Gathered(f[i], Kept(i))}
  OBVIOUS
<1>14. 0 \in G
  <2>1. Kept(0) = {}
    BY DEF Kept
  <2>2. <<>> \in Seq(Collections) /\ IsInjective(<<>>) /\ ToSet(<<>>) = {}
    BY EmptyShape
  <2>3. {} = UNION {ToSet(x.segs) : x \in {}}
    OBVIOUS
  <2>4. Gathered(<<>>, {})
    BY <2>2, <2>3 DEF Gathered
  <2>5. Gathered(f[0], Kept(0))
    BY <1>12, <2>1, <2>4
  <2>6. 0 \in 0..n
    OBVIOUS
  <2>7. QED BY <1>13, <2>5, <2>6
<1>15. ASSUME NEW i \in 1..n, i - 1 \in G PROVE i \in G /\ f[i] = Step(i, f[i - 1])
  <2>1. i - 1 \in 0..n /\ i \in 0..n
    OBVIOUS
  <2>2. f[i - 1] \in S
    BY <1>12, <2>1
  <2>3. Gathered(f[i - 1], Kept(i - 1))
    BY <1>13, <1>15
  <2>4. f[i] = Step(i, f[i - 1]) /\ Gathered(f[i], Kept(i))
    BY <1>10, <1>12, <2>2, <2>3
  <2>5. QED BY <1>13, <2>1, <2>4
<1>16. \A i \in 0..n : i \in G
  BY <1>14, <1>15, UpTo
<1>17. ASSUME NEW i \in 1..n PROVE f[i] = Step(i, f[i - 1])
  <2>1. i - 1 \in 0..n
    OBVIOUS
  <2>2. QED BY <1>15, <1>16, <2>1
\* The recursion of OrderSegments has one value at each place.
<1> DEFINE Solves(g) == g = [k \in 0..n |-> IF k = 0 THEN <<>> ELSE IF mine(all[k]) THEN AddCollection(g[k - 1], all[k]) ELSE g[k - 1]]
           colls == CHOOSE g : Solves(g)
<1>18. Solves(f)
  <2>1. f = [k \in 0..n |-> f[k]]
    BY <1>12
  <2>2. ASSUME NEW k \in 0..n
        PROVE  f[k] = IF k = 0 THEN <<>> ELSE IF mine(all[k]) THEN AddCollection(f[k - 1], all[k]) ELSE f[k - 1]
    <3>1. CASE k = 0
      BY <1>12, <3>1
    <3>2. CASE k # 0
      <4>1. k \in 1..n
        BY <3>2
      <4>2. QED BY <1>17, <3>2, <4>1 DEF Step
    <3>3. QED BY <3>1, <3>2
  <2>3. QED BY <2>1, <2>2
<1>19. Solves(colls)
  <2> HIDE DEF Solves
  <2>1. QED BY <1>18
<1>20. OrderSegments(c) = FlattenSeq([i \in DOMAIN colls[n] |-> colls[n][i].segs])
  BY <1>1, <1>2 DEF OrderSegments, mine
<1> HIDE DEF colls
<1>21. /\ colls[0] = <<>>
       /\ \A k \in 1..n : colls[k] = Step(k, colls[k - 1])
  <2>1. ASSUME NEW k \in 0..n
        PROVE  colls[k] = IF k = 0 THEN <<>> ELSE IF mine(all[k]) THEN AddCollection(colls[k - 1], all[k]) ELSE colls[k - 1]
    BY <1>19
  <2>2. 0 \in 0..n /\ \A k \in 1..n : k \in 0..n /\ k # 0
    OBVIOUS
  <2>3. QED BY <2>1, <2>2 DEF Step
<1> HIDE DEF Solves
<1>22. PICK E : E = {i \in 0..n : colls[i] = f[i]}
  OBVIOUS
<1>23. \A i \in 0..n : i \in E
  <2>1. 0 \in E
    BY <1>12, <1>21, <1>22
  <2>2. ASSUME NEW i \in 1..n, i - 1 \in E PROVE i \in E
    <3>1. colls[i - 1] = f[i - 1]
      BY <1>22, <2>2
    <3>2. colls[i] = f[i]
      BY <1>17, <1>21, <3>1
    <3>3. QED BY <1>22, <3>2
  <2>3. QED BY <2>1, <2>2, UpTo
<1>24. PICK made : made = colls[n]
  OBVIOUS
<1>25. Gathered(made, Kept(n))
  <2>1. n \in E /\ n \in G
    BY <1>16, <1>23
  <2>2. QED BY <1>13, <1>22, <1>24, <2>1
<1>26. Kept(n) = M
  <2>1. \A s \in M : \E j \in 1..n : all[j] = s
    BY <1>3, <1>4 DEF TablesOK
  <2>2. QED BY <2>1 DEF Kept
<1>27. PICK ss : ss = [i \in DOMAIN made |-> made[i].segs]
  OBVIOUS
<1>28. PICK m \in Nat : m = Len(made) /\ DOMAIN made = 1..m
  BY <1>25 DEF Gathered
<1>29. \A i \in 1..m : ss[i] = made[i].segs /\ made[i] \in Collections /\ made[i] \in ToSet(made)
  <2>1. made \in Seq(Collections)
    BY <1>25 DEF Gathered
  <2>2. \A i \in 1..m : made[i] \in ToSet(made)
    BY <1>28, <2>1, ToSetMember
  <2>3. QED BY <1>27, <1>28, <2>1, <2>2
<1>30. PICK T : T = Seq(Pairs)
  OBVIOUS
<1>31. ss \in Seq(Seq(Pairs)) /\ Len(ss) = m
  <2>1. \A i \in 1..m : ss[i] \in T
    BY <1>29, <1>30 DEF Collections
  <2>2. ss = [i \in 1..m |-> ss[i]]
    BY <1>27, <1>28
  <2>3. ss \in Seq(T) /\ Len(ss) = m
    BY <2>1, <2>2
  <2>4. QED BY <1>30, <2>3
<1>32. \A i \in 1..m : IsInjective(ss[i])
  BY <1>25, <1>29 DEF Gathered
<1>33. ASSUME NEW i \in 1..m, NEW j \in 1..m, i # j PROVE ToSet(ss[i]) \cap ToSet(ss[j]) = {}
  <2>1. made \in Seq(Collections) /\ IsInjective(made)
    BY <1>25 DEF Gathered
  <2>2. made[i] # made[j]
    BY <1>28, <1>33, <2>1, InjectiveSeq
  <2>3. QED BY <1>25, <1>29, <2>2 DEF Gathered
<1>34. /\ FlattenSeq(ss) \in Seq(Pairs) /\ IsInjective(FlattenSeq(ss))
       /\ ToSet(FlattenSeq(ss)) = UNION {ToSet(ss[i]) : i \in 1..m}
  <2>1. /\ \A i \in 1..Len(ss) : IsInjective(ss[i])
        /\ \A i, j \in 1..Len(ss) : i # j => ToSet(ss[i]) \cap ToSet(ss[j]) = {}
    BY <1>31, <1>32, <1>33
  <2>2. QED BY <1>31, <2>1, FlattenShape
<1>35. ASSUME NEW s PROVE s \in ToSet(FlattenSeq(ss)) <=> s \in M
  <2>1. s \in ToSet(FlattenSeq(ss)) <=> \E i \in 1..m : s \in ToSet(ss[i])
    BY <1>34
  <2>2. s \in M <=> \E x \in ToSet(made) : s \in ToSet(x.segs)
    BY <1>25, <1>26 DEF Gathered
  <2>3. made \in Seq(Collections)
    BY <1>25 DEF Gathered
  <2>4. \A x : x \in ToSet(made) <=> \E i \in 1..m : made[i] = x
    BY <1>28, <2>3, ToSetMember
  <2>5. QED BY <1>29, <2>1, <2>2, <2>4
<1>36. OrderSegments(c) = FlattenSeq(ss)
  BY <1>20, <1>24, <1>27
<1>37. ToSet(FlattenSeq(ss)) = M
  BY <1>35
<1>38. QED BY <1>4, <1>34, <1>36, <1>37

-----------------------------------------------------------------------------
(* Addresses *)

\* Up rounds up.
LEMMA UpShape ==
  ASSUME NEW n \in Nat, NEW a \in Nat \ {0}
  PROVE  Up(n, a) \in Nat /\ n <= Up(n, a) /\ Up(n, a) % a = 0
<1>1. PICK m \in Nat : m = n + a - 1
  OBVIOUS
<1>2. PICK q \in Nat : q = m \div a
  <2>1. m \div a \in Nat
    OBVIOUS
  <2>2. QED BY <2>1
<1>3. PICK r \in 0..a - 1 : r = m % a
  <2>1. m % a \in 0..a - 1
    OBVIOUS
  <2>2. QED BY <2>1
<1>4. m = q * a + r
  <2>1. m = (m \div a) * a + (m % a)
    OBVIOUS
  <2>2. QED BY <1>2, <1>3, <2>1
<1>5. Up(n, a) = q * a
  BY <1>1, <1>2 DEF Up
<1>6. (q * a) % a = 0 /\ q * a \in Nat
  OBVIOUS
<1>7. n <= q * a
  <2>1. PICK p \in Nat : p = q * a
    BY <1>6
  <2>2. QED BY <1>1, <1>3, <1>4, <2>1
<1>8. QED BY <1>5, <1>6, <1>7

\* Rounding up above a multiple.
LEMMA UpAbove ==
  ASSUME NEW b \in Nat, NEW a \in Nat \ {0}, b % a = 0, NEW n \in Nat
  PROVE  Up(b + n, a) = b + Up(n, a)
<1>1. PICK m \in Nat : m = n + a - 1
  OBVIOUS
<1>2. PICK q \in Nat : q = m \div a
  <2>1. m \div a \in Nat
    OBVIOUS
  <2>2. QED BY <2>1
<1>3. PICK r \in 0..a - 1 : r = m % a
  <2>1. m % a \in 0..a - 1
    OBVIOUS
  <2>2. QED BY <2>1
<1>4. m = q * a + r
  <2>1. m = (m \div a) * a + (m % a)
    OBVIOUS
  <2>2. QED BY <1>2, <1>3, <2>1
<1>5. PICK p \in Nat : p = b \div a
  <2>1. b \div a \in Nat
    OBVIOUS
  <2>2. QED BY <2>1
<1>6. b = p * a
  <2>1. b = (b \div a) * a + (b % a)
    OBVIOUS
  <2>2. PICK x \in Nat : x = p * a
    OBVIOUS
  <2>3. b = x + (b % a)
    BY <1>5, <2>1, <2>2
  <2>4. QED BY <2>2, <2>3
<1>7. p * a + q * a = (p + q) * a /\ p + q \in Nat /\ p * a \in Nat /\ q * a \in Nat
  OBVIOUS
<1>8. (b + n) + a - 1 = (p + q) * a + r
  <2>1. PICK x \in Nat : x = p * a
    BY <1>7
  <2>2. PICK y \in Nat : y = q * a
    BY <1>7
  <2>3. (p + q) * a = x + y
    BY <1>7, <2>1, <2>2
  <2>4. b = x /\ n + a - 1 = y + r
    BY <1>1, <1>4, <1>6, <2>1, <2>2
  <2>5. (b + n) + a - 1 = (x + y) + r
    BY <2>4
  <2>6. QED BY <2>3, <2>5
<1>9. ((p + q) * a + r) \div a = p + q
  <2>1. PICK k \in Nat : k = p + q
    OBVIOUS
  <2>2. (k * a + r) \div a = k
    OBVIOUS
  <2>3. QED BY <2>1, <2>2
<1>10. Up(b + n, a) = (p + q) * a
  BY <1>8, <1>9 DEF Up
<1>11. Up(n, a) = q * a
  BY <1>1, <1>2 DEF Up
<1>12. QED BY <1>6, <1>7, <1>10, <1>11

\* Where the segments end, one after the other.
Ends(segs, addr, end) ==
  /\ end \in [0..Len(segs) -> Nat] /\ end[0] = addr
  /\ \A i \in 1..Len(segs) : end[i] = Up(end[i - 1], Seg(segs[i]).align) + Seg(segs[i]).len

\* The segments stand at `at', from addr on, and the last one ends at stop.
Laid(segs, addr, at, stop) ==
  \E end : /\ Ends(segs, addr, end) /\ stop = end[Len(segs)]
           /\ at = [i \in DOMAIN segs |-> Up(end[i - 1], Seg(segs[i]).align)]

Measured(segs) ==
  segs \in Seq(Pairs) /\ \A i \in 1..Len(segs) : Seg(segs[i]).align \in Nat \ {0} /\ Seg(segs[i]).len \in Nat

\* CalcAddress lays its segments out.
LEMMA CalcAddressShape ==
  ASSUME NEW segs, Measured(segs), NEW addr \in Nat
  PROVE  Laid(segs, addr, CalcAddress(segs, addr).at, CalcAddress(segs, addr).end)
<1>1. PICK n \in Nat : n = Len(segs) /\ DOMAIN segs = 1..n
  BY DEF Measured
<1>2. PICK al \in [1..n -> Nat \ {0}] : \A i \in 1..n : al[i] = Seg(segs[i]).align
  <2>1. PICK g : g = [i \in 1..n |-> Seg(segs[i]).align]
    OBVIOUS
  <2>2. \A i \in 1..n : g[i] = Seg(segs[i]).align /\ g[i] \in Nat \ {0}
    BY <1>1, <2>1 DEF Measured
  <2>3. g \in [1..n -> Nat \ {0}]
    BY <2>1, <2>2
  <2>4. QED BY <2>2, <2>3
<1>3. PICK len \in [1..n -> Nat] : \A i \in 1..n : len[i] = Seg(segs[i]).len
  <2>1. PICK g : g = [i \in 1..n |-> Seg(segs[i]).len]
    OBVIOUS
  <2>2. \A i \in 1..n : g[i] = Seg(segs[i]).len /\ g[i] \in Nat
    BY <1>1, <2>1 DEF Measured
  <2>3. g \in [1..n -> Nat]
    BY <2>1, <2>2
  <2>4. QED BY <2>2, <2>3
<1>4. PICK h : h = [p \in (1..n) \X Nat |-> Up(p[2], al[p[1]]) + len[p[1]]]
  OBVIOUS
<1>5. ASSUME NEW i \in 1..n, NEW x \in Nat
      PROVE  h[<<i, x>>] = Up(x, al[i]) + len[i] /\ h[<<i, x>>] \in Nat
  <2>1. <<i, x>> \in (1..n) \X Nat /\ <<i, x>>[1] = i /\ <<i, x>>[2] = x
    OBVIOUS
  <2>2. h[<<i, x>>] = Up(x, al[i]) + len[i]
    BY <1>4, <2>1
  <2>3. Up(x, al[i]) \in Nat /\ len[i] \in Nat
    BY UpShape
  <2>4. QED BY <2>2, <2>3
<1>6. PICK f : Recurs(f, h, n, addr, Nat)
  <2>1. StaysIn(h, n, Nat)
    BY <1>5 DEF StaysIn
  <2>2. QED BY <2>1, Recursion
<1>7. /\ f \in [0..n -> Nat] /\ f[0] = addr
      /\ \A i \in 1..n : f[i] = Up(f[i - 1], Seg(segs[i]).align) + Seg(segs[i]).len
  <2>1. f \in [0..n -> Nat] /\ f[0] = addr /\ \A i \in 1..n : f[i] = h[<<i, f[i - 1]>>]
    BY <1>6 DEF Recurs
  <2>2. ASSUME NEW i \in 1..n PROVE f[i] = Up(f[i - 1], Seg(segs[i]).align) + Seg(segs[i]).len
    <3>1. i - 1 \in 0..n
      OBVIOUS
    <3>2. f[i - 1] \in Nat
      BY <2>1, <3>1
    <3>3. QED BY <1>2, <1>3, <1>5, <2>1, <3>2
  <2>3. QED BY <2>1, <2>2
<1> DEFINE Solves(g) == g = [i \in 0..n |-> IF i = 0 THEN addr ELSE Up(g[i - 1], Seg(segs[i]).align) + Seg(segs[i]).len]
           end == CHOOSE g : Solves(g)
<1>8. Solves(f)
  <2>1. f = [i \in 0..n |-> f[i]]
    BY <1>7
  <2>2. ASSUME NEW i \in 0..n
        PROVE  f[i] = IF i = 0 THEN addr ELSE Up(f[i - 1], Seg(segs[i]).align) + Seg(segs[i]).len
    <3>1. CASE i = 0
      BY <1>7, <3>1
    <3>2. CASE i # 0
      <4>1. i \in 1..n
        BY <3>2
      <4>2. QED BY <1>7, <3>2, <4>1
    <3>3. QED BY <3>1, <3>2
  <2>3. QED BY <2>1, <2>2
<1>9. Solves(end)
  <2> HIDE DEF Solves
  <2>1. QED BY <1>8
<1>10. PICK C : C = CalcAddress(segs, addr)
  OBVIOUS
<1>11. C.at = [i \in DOMAIN segs |-> Up(end[i - 1], Seg(segs[i]).align)] /\ C.end = end[n]
  BY <1>1, <1>10 DEF CalcAddress
<1> HIDE DEF end
<1>12. /\ DOMAIN end = 0..n /\ end[0] = addr /\ end = [i \in 0..n |-> end[i]]
       /\ \A i \in 1..n : end[i] = Up(end[i - 1], Seg(segs[i]).align) + Seg(segs[i]).len
  <2>1. ASSUME NEW i \in 0..n
        PROVE  end[i] = IF i = 0 THEN addr ELSE Up(end[i - 1], Seg(segs[i]).align) + Seg(segs[i]).len
    BY <1>9
  <2>2. 0 \in 0..n /\ \A i \in 1..n : i \in 0..n /\ i # 0
    OBVIOUS
  <2>3. DOMAIN end = 0..n /\ end = [i \in 0..n |-> end[i]]
    BY <1>9
  <2>4. QED BY <2>1, <2>2, <2>3
<1> HIDE DEF Solves
<1>13. PICK E : E = {i \in 0..n : end[i] = f[i]}
  OBVIOUS
<1>14. \A i \in 0..n : i \in E
  <2>1. 0 \in E
    BY <1>7, <1>12, <1>13
  <2>2. ASSUME NEW i \in 1..n, i - 1 \in E PROVE i \in E
    <3>1. end[i - 1] = f[i - 1]
      BY <1>13, <2>2
    <3>2. end[i] = f[i]
      BY <1>7, <1>12, <3>1
    <3>3. QED BY <1>13, <3>2
  <2>3. QED BY <2>1, <2>2, UpTo
<1>15. end \in [0..n -> Nat]
  <2>1. \A i \in 0..n : end[i] \in Nat
    BY <1>7, <1>13, <1>14
  <2>2. QED BY <1>12, <2>1
<1>16. Ends(segs, addr, end)
  BY <1>1, <1>12, <1>15 DEF Ends
<1>17. QED BY <1>1, <1>10, <1>11, <1>16 DEF Laid

\* An end is not before an earlier one.
LEMMA EndsGrow ==
  ASSUME NEW segs, Measured(segs), NEW addr \in Nat, NEW end, Ends(segs, addr, end),
         NEW i \in 0..Len(segs), NEW j \in 0..Len(segs), i <= j
  PROVE  end[i] <= end[j]
<1>1. PICK n \in Nat : n = Len(segs)
  BY DEF Measured
<1>2. end \in [0..n -> Nat]
  BY <1>1 DEF Ends
<1>3. ASSUME NEW k \in 1..n PROVE end[k - 1] <= end[k] /\ k - 1 \in 0..n
  <2>1. k - 1 \in 0..n /\ end[k - 1] \in Nat
    <3>1. k - 1 \in 0..n
      OBVIOUS
    <3>2. QED BY <1>2, <3>1
  <2>2. Seg(segs[k]).align \in Nat \ {0} /\ Seg(segs[k]).len \in Nat
    BY <1>1 DEF Measured
  <2>3. PICK u \in Nat : u = Up(end[k - 1], Seg(segs[k]).align) /\ end[k - 1] <= u
    BY <2>1, <2>2, UpShape
  <2>4. end[k] = u + Seg(segs[k]).len
    BY <1>1, <2>3 DEF Ends
  <2>5. QED BY <2>1, <2>2, <2>3, <2>4
<1>4. PICK G : G = {k \in 0..n : i <= k => end[i] <= end[k]}
  OBVIOUS
<1>5. 0 \in G
  <2>1. i <= 0 => i = 0
    OBVIOUS
  <2>2. end[0] \in Nat /\ 0 \in 0..n
    BY <1>2
  <2>3. QED BY <1>4, <2>1, <2>2
<1>6. ASSUME NEW k \in 1..n, k - 1 \in G PROVE k \in G
  <2>1. k \in 0..n /\ k - 1 \in 0..n /\ i \in 0..n
    BY <1>1
  <2>2. end[k] \in Nat /\ end[k - 1] \in Nat /\ end[i] \in Nat
    BY <1>2, <2>1
  <2>3. i <= k => i = k \/ i <= k - 1
    BY <2>1
  <2>4. i <= k - 1 => end[i] <= end[k - 1]
    BY <1>4, <1>6
  <2>5. end[k - 1] <= end[k]
    BY <1>3
  <2>6. i <= k => end[i] <= end[k]
    BY <2>2, <2>3, <2>4, <2>5
  <2>7. QED BY <1>4, <2>1, <2>6
<1>7. j \in G
  BY <1>1, <1>5, <1>6, UpTo
<1>8. QED BY <1>4, <1>7

\* Segments that are laid out stand one after the other, each aligned.
LEMMA LaidShape ==
  ASSUME NEW segs, Measured(segs), NEW addr \in Nat, NEW at, NEW stop, Laid(segs, addr, at, stop)
  PROVE  /\ stop \in Nat /\ addr <= stop /\ DOMAIN at = DOMAIN segs
         /\ \A i \in DOMAIN segs :
              /\ at[i] \in Nat /\ addr <= at[i] /\ at[i] + Seg(segs[i]).len <= stop
              /\ at[i] % Seg(segs[i]).align = 0
         /\ \A i, j \in DOMAIN segs : i < j => at[i] + Seg(segs[i]).len <= at[j]
<1>1. PICK n \in Nat : n = Len(segs) /\ DOMAIN segs = 1..n
  BY DEF Measured
<1>2. PICK end : /\ Ends(segs, addr, end) /\ stop = end[n]
                 /\ at = [i \in 1..n |-> Up(end[i - 1], Seg(segs[i]).align)]
  BY <1>1 DEF Laid
<1>3. end \in [0..n -> Nat] /\ end[0] = addr
  BY <1>1, <1>2 DEF Ends
<1>4. \A i, j \in 0..n : i <= j => end[i] <= end[j]
  BY <1>1, <1>2, EndsGrow
<1>5. ASSUME NEW i \in 1..n
      PROVE  /\ i - 1 \in 0..n /\ i \in 0..n /\ end[i - 1] \in Nat /\ end[i] \in Nat
             /\ at[i] \in Nat /\ end[i - 1] <= at[i] /\ at[i] % Seg(segs[i]).align = 0
             /\ Seg(segs[i]).len \in Nat /\ end[i] = at[i] + Seg(segs[i]).len
  <2>1. i - 1 \in 0..n /\ i \in 0..n
    OBVIOUS
  <2>2. end[i - 1] \in Nat /\ end[i] \in Nat
    BY <1>3, <2>1
  <2>3. Seg(segs[i]).align \in Nat \ {0} /\ Seg(segs[i]).len \in Nat
    BY <1>1 DEF Measured
  <2>4. at[i] = Up(end[i - 1], Seg(segs[i]).align)
    BY <1>2
  <2>5. at[i] \in Nat /\ end[i - 1] <= at[i] /\ at[i] % Seg(segs[i]).align = 0
    BY <2>2, <2>3, <2>4, UpShape
  <2>6. end[i] = Up(end[i - 1], Seg(segs[i]).align) + Seg(segs[i]).len
    BY <1>1, <1>2 DEF Ends
  <2>7. QED BY <2>1, <2>2, <2>3, <2>4, <2>5, <2>6
<1>6. 0 \in 0..n /\ n \in 0..n
  OBVIOUS
<1>7. stop \in Nat /\ addr <= stop
  BY <1>2, <1>3, <1>4, <1>6
<1>8. ASSUME NEW i \in 1..n PROVE addr <= at[i] /\ at[i] + Seg(segs[i]).len <= stop
  <2>1. end[0] <= end[i - 1]
    BY <1>4, <1>5, <1>6
  <2>2. end[i] <= end[n]
    BY <1>4, <1>5, <1>6
  <2>3. QED BY <1>2, <1>3, <1>5, <2>1, <2>2
<1>9. ASSUME NEW i \in 1..n, NEW j \in 1..n, i < j PROVE at[i] + Seg(segs[i]).len <= at[j]
  <2>1. i <= j - 1
    BY <1>9
  <2>2. end[i] <= end[j - 1]
    BY <1>4, <1>5, <2>1
  <2>3. QED BY <1>5, <2>2
<1>10. DOMAIN at = 1..n
  BY <1>2
<1>11. QED BY <1>1, <1>5, <1>7, <1>8, <1>9, <1>10

\* The layout is the same above an address that has every alignment.
LEMMA LaidAbove ==
  ASSUME NEW segs, Measured(segs), NEW addr \in Nat, NEW at, NEW stop, Laid(segs, addr, at, stop),
         NEW text, NEW last, Laid(segs, 0, text, last),
         \A i \in DOMAIN segs : addr % Seg(segs[i]).align = 0
  PROVE  text = [i \in DOMAIN segs |-> at[i] - addr]
<1>1. PICK n \in Nat : n = Len(segs) /\ DOMAIN segs = 1..n
  BY DEF Measured
<1>2. PICK e : Ends(segs, addr, e) /\ at = [i \in 1..n |-> Up(e[i - 1], Seg(segs[i]).align)]
  BY <1>1 DEF Laid
<1>3. PICK z : Ends(segs, 0, z) /\ text = [i \in 1..n |-> Up(z[i - 1], Seg(segs[i]).align)]
  BY <1>1 DEF Laid
<1>4. /\ e \in [0..n -> Nat] /\ e[0] = addr
      /\ \A i \in 1..n : e[i] = Up(e[i - 1], Seg(segs[i]).align) + Seg(segs[i]).len
  BY <1>1, <1>2 DEF Ends
<1>5. /\ z \in [0..n -> Nat] /\ z[0] = 0
      /\ \A i \in 1..n : z[i] = Up(z[i - 1], Seg(segs[i]).align) + Seg(segs[i]).len
  BY <1>1, <1>3 DEF Ends
<1>6. PICK G : G = {i \in 0..n : e[i] = addr + z[i]}
  OBVIOUS
<1>7. ASSUME NEW i \in 1..n, i - 1 \in G
      PROVE  /\ i \in G
             /\ Up(e[i - 1], Seg(segs[i]).align) = addr + Up(z[i - 1], Seg(segs[i]).align)
             /\ Up(z[i - 1], Seg(segs[i]).align) \in Nat
  <2>1. PICK a \in Nat \ {0} : a = Seg(segs[i]).align
    BY <1>1 DEF Measured
  <2>2. PICK l \in Nat : l = Seg(segs[i]).len
    BY <1>1 DEF Measured
  <2>3. PICK y \in Nat : y = z[i - 1]
    <3>1. i - 1 \in 0..n
      OBVIOUS
    <3>2. QED BY <1>5, <3>1
  <2>4. e[i - 1] = addr + y
    BY <1>6, <1>7, <2>3
  <2>5. addr % a = 0
    BY <1>1, <2>1
  <2>6. Up(addr + y, a) = addr + Up(y, a) /\ Up(y, a) \in Nat
    BY <2>5, UpAbove, UpShape
  <2>7. e[i] = Up(addr + y, a) + l /\ z[i] = Up(y, a) + l
    BY <1>4, <1>5, <2>1, <2>2, <2>3, <2>4
  <2>8. PICK u \in Nat : u = Up(y, a)
    BY <2>6
  <2>9. e[i] = addr + z[i]
    BY <2>6, <2>7, <2>8
  <2>10. i \in 0..n
    OBVIOUS
  <2>11. QED BY <1>6, <2>1, <2>3, <2>4, <2>6, <2>9, <2>10
<1>8. \A i \in 0..n : i \in G
  <2>1. 0 \in G
    BY <1>4, <1>5, <1>6
  <2>2. QED BY <1>7, <2>1, UpTo
<1>9. ASSUME NEW i \in 1..n PROVE text[i] = at[i] - addr
  <2>1. i - 1 \in 0..n
    OBVIOUS
  <2>2. i - 1 \in G
    BY <1>8, <2>1
  <2>3. PICK u \in Nat : u = Up(z[i - 1], Seg(segs[i]).align) /\ Up(e[i - 1], Seg(segs[i]).align) = addr + u
    BY <1>7, <2>2
  <2>4. text[i] = u /\ at[i] = addr + u
    BY <1>2, <1>3, <2>3
  <2>5. QED BY <2>4
<1>10. QED BY <1>1, <1>3, <1>9

-----------------------------------------------------------------------------
(* The tables stay as they are described *)

LEMMA TablesGrow ==
  ASSUME TablesOK, UNCHANGED <<files, imported, names, commons>>,
         \A s \in processed' : s \in processed \/ InFile(s)
  PROVE  TablesOK'
<1>1. \A s : InFile(s)' <=> InFile(s)
  BY InFileSame
<1>2. IsSequence(imported)'
  BY DEF TablesOK, IsSequence
<1>3. \A s : IsBlock(s)' <=> IsBlock(s)
  BY DEF IsBlock
<1>4. commons' \in Seq(Names) /\ \A k \in DOMAIN commons' : names'[commons'[k]] # Null
  BY DEF TablesOK
<1>5. \A s \in processed' : InFile(s)' \/ IsBlock(s)'
  BY <1>1, <1>3 DEF TablesOK
<1>6. QED BY <1>2, <1>4, <1>5 DEF TablesOK

LEMMA TablesFollow ==
  ASSUME BindingOK, TablesOK, UNCHANGED <<files, imported>>, NEW n \in Names, NEW rest, FollowsName(n, rest)
  PROVE  TablesOK'
<1>1. CASE ToDefined(n, rest)
  <2>1. names[n] # Null /\ names[n].seg # Null /\ UNCHANGED <<names, commons>>
    BY <1>1 DEF ToDefined, Defined
  <2>2. \A s \in processed' : s \in processed \/ s = names[n].seg
    BY <1>1 DEF ToDefined, CollectOnce, CollectSegments
  <2>3. InFile(names[n].seg) \/ names[n].seg \in processed
    BY <2>1 DEF BindingOK, NamesOK, NameOK
  <2>4. QED BY <2>1, <2>2, <2>3, TablesGrow
<1>2. CASE ToCommon(n, rest)
  <2>1. Kind(n) = "common" /\ createSegment(n)
    BY <1>2 DEF ToCommon
  <2>2. PICK m \in Nat : m = Len(commons) /\ DOMAIN commons = 1..m
    BY DEF TablesOK
  <2>3. commons \in Seq(Names) /\ commons' = Append(commons, n)
    BY <2>1 DEF TablesOK, createSegment
  <2>4. /\ commons' \in Seq(Names) /\ Len(commons') = m + 1 /\ DOMAIN commons' = 1..m + 1
        /\ commons'[m + 1] = n /\ \A k \in 1..m : commons'[k] = commons[k]
    BY <2>2, <2>3
  <2>5. names' = [names EXCEPT ![n].seg = <<0, m + 1>>] /\ processed' = processed \cup {<<0, m + 1>>}
    BY <2>1, <2>4 DEF createSegment
  <2>6. names \in [Names -> Infos \cup {Null}] /\ names[n] # Null
    BY <2>1 DEF BindingOK, NamesOK, Kind
  <2>7. names[n] \in Infos /\ <<0, m + 1>> \in Nat \X Nat
    BY <2>6
  <2>8. names'[n] = [names[n] EXCEPT !.seg = <<0, m + 1>>] /\ \A x \in Names : x # n => names'[x] = names[x]
    BY <2>5, <2>6
  <2>9. names'[n] \in Infos
    BY <2>7, <2>8 DEF Infos
  <2>10. names'[n] # Null
    BY <2>9, NullAssumption DEF Infos
  <2>11. ASSUME NEW k \in DOMAIN commons' PROVE names'[commons'[k]] # Null
    <3>1. CASE k = m + 1
      BY <2>4, <2>10, <3>1
    <3>2. CASE k # m + 1
      <4>1. k \in 1..m
        BY <2>4, <3>2
      <4>2. commons[k] \in Names /\ names[commons[k]] # Null /\ commons'[k] = commons[k]
        BY <2>2, <2>4, <4>1 DEF TablesOK
      <4>3. QED BY <2>8, <2>10, <4>2
    <3>3. QED BY <3>1, <3>2
  <2>12. ASSUME NEW s \in processed' PROVE InFile(s)' \/ IsBlock(s)'
    <3>1. CASE s = <<0, m + 1>>
      <4>1. m + 1 \in DOMAIN commons'
        BY <2>4
      <4>2. QED BY <3>1, <4>1 DEF IsBlock
    <3>2. CASE s # <<0, m + 1>>
      <4>1. InFile(s) \/ IsBlock(s)
        BY <2>5, <3>2 DEF TablesOK
      <4>2. IsBlock(s) => IsBlock(s)'
        <5>1. \A k \in DOMAIN commons : k \in DOMAIN commons'
          BY <2>2, <2>4
        <5>2. QED BY <5>1 DEF IsBlock
      <4>3. QED BY <4>1, <4>2, InFileSame
    <3>3. QED BY <3>1, <3>2
  <2>13. IsSequence(imported)'
    BY DEF TablesOK, IsSequence
  <2>14. QED BY <2>4, <2>11, <2>12, <2>13 DEF TablesOK
<1>3. CASE UNCHANGED <<names, commons, processed>>
  BY <1>3, TablesGrow
<1>4. QED BY <1>1, <1>2, <1>3 DEF FollowsName, ToImport, ToNothing

\* While files are read nothing is collected.
LEMMA TablesIdle ==
  ASSUME BindingOK', Idle', IsSequence(imported)'
  PROVE  TablesOK'
<1>1. commons' = <<>> /\ processed' = {}
  BY DEF BindingOK, Untouched
<1>2. <<>> \in Seq(Names) /\ DOMAIN <<>> = {}
  OBVIOUS
<1>3. QED BY <1>1, <1>2 DEF TablesOK

LEMMA NewExportImports ==
  ASSUME NEW e, NEW seg, NEW src
  PROVE  NewExport(Reading, e, seg, src).imported = imported
<1>1. Reading.imported = imported
  BY DEF Reading
<1>2. PICK r : r = Reading
  OBVIOUS
<1>3. PICK same : same = {i \in DOMAIN r.exports : r.exports[i].ext = e.ext}
  OBVIOUS
<1>4. QED BY <1>1 DEF NewExport, Reading

LEMMA DeclareImports ==
  ASSUME NEW d \in Declarations, NEW lib, IsSequence(imported)
  PROVE  IsSequence(Declare(Reading, d, lib).imported)
<1>1. PICK r : r = Declare(Reading, d, lib)
  OBVIOUS
<1>2. \A info, may : TwiceDeclared(Reading, info, lib, may).imported = imported
  BY DEF TwiceDeclared, Reading
<1>3. r.imported = imported \/ r.imported = Append(imported, d.name)
  <2>1. CASE d.kind = "public"
    <3>1. r = NewPublicName(Reading, d, lib)
      BY <1>1, <2>1 DEF Declare, Imports
    <3>2. PICK v : v = Bound("public", IF d.arg = 0 THEN Null ELSE <<Len(files), d.arg>>, 0)
      OBVIOUS
    <3>3. r = [Reading EXCEPT !.names[d.name] = v] \/ \E info, may : r = TwiceDeclared(Reading, info, lib, may)
      BY <3>1, <3>2, Zenon DEF NewPublicName
    <3>4. [Reading EXCEPT !.names[d.name] = v].imported = imported
      BY DEF Reading
    <3>5. QED BY <1>2, <3>3, <3>4
  <2>2. CASE d.kind = "common"
    <3>1. r = NewCommonName(Reading, d, lib)
      BY <1>1, <2>2 DEF Declare, Imports
    <3>2. PICK v : v = Bound("common", Null, d.arg)
      OBVIOUS
    <3>3. PICK w : w = [Reading EXCEPT !.names[d.name].arg = IF @ < d.arg THEN d.arg ELSE @]
      OBVIOUS
    <3>4. \/ r = [Reading EXCEPT !.names[d.name] = v]
          \/ r = w
          \/ \E info, may : r = TwiceDeclared(Reading, info, lib, may)
      <4>1. PICK info : info = Reading.names[d.name]
        OBVIOUS
      <4>2. CASE info = Null \/ (info # Null /\ info.kind = "weak")
        BY <3>1, <3>2, <4>1, <4>2 DEF NewCommonName
      <4>3. CASE ~(info = Null \/ info.kind = "weak") /\ info.kind = "common"
        BY <3>1, <3>3, <4>1, <4>3 DEF NewCommonName
      <4>4. CASE ~(info = Null \/ info.kind = "weak") /\ info.kind # "common"
        <5>1. r = TwiceDeclared(Reading, info, lib, lib # Null)
          BY <3>1, <4>1, <4>4 DEF NewCommonName
        <5>2. QED BY <5>1
      <4>5. QED BY <4>2, <4>3, <4>4
    <3>5. [Reading EXCEPT !.names[d.name] = v].imported = imported
      BY DEF Reading
    <3>6. w.imported = imported
      BY <3>3 DEF Reading
    <3>7. QED BY <1>2, <3>4, <3>5, <3>6
  <2>3. CASE d.kind \in Imports
    <3>1. r = NewImportName(Reading, d, lib)
      BY <1>1, <2>3 DEF Declare, Imports
    <3>2. QED BY <1>2, <3>1 DEF NewImportName, Reading
  <2>4. CASE d.kind = "weak"
    BY <1>1, <1>2, <2>4 DEF Declare, NewWeakName, Reading, Imports
  <2>5. QED BY <2>1, <2>2, <2>3, <2>4 DEF Declarations, Kinds
<1>4. PICK m \in Nat : m = Len(imported) /\ DOMAIN imported = 1..m
  BY SequenceShape
<1>5. PICK t : t = Append(imported, d.name)
  OBVIOUS
<1>6. PICK T : T = {imported[i] : i \in DOMAIN imported} \cup {d.name}
  OBVIOUS
<1>7. imported \in Seq(T)
  <2>1. imported \in Seq({imported[i] : i \in DOMAIN imported})
    BY DEF IsSequence
  <2>2. imported = [i \in 1..m |-> imported[i]]
    BY <1>4, <2>1
  <2>3. \A i \in 1..m : imported[i] \in T
    BY <1>4, <1>6
  <2>4. QED BY <2>2, <2>3
<1>8. t \in Seq(T) /\ Len(t) = m + 1 /\ DOMAIN t = 1..m + 1
  BY <1>4, <1>5, <1>6, <1>7
<1>9. t = [i \in 1..m + 1 |-> t[i]]
  BY <1>8
<1>10. IsSequence(t)
  BY <1>8, <1>9, SequenceIf
<1>11. QED BY <1>1, <1>3, <1>5, <1>10

LEMMA ReadingTables ==
  ASSUME BindingOK, BindingOK', TablesOK, Option \/ OpenFile \/ ReadDeclaration \/ ReadExport \/ FileRead
  PROVE  TablesOK'
<1>1. Idle'
  BY DEF Option, OpenFile, ReadDeclaration, ReadExport, FileRead, Idle
<1>2. IsSequence(imported)
  BY DEF TablesOK
<1>3. IsSequence(imported)'
  <2>1. CASE imported' = imported
    BY <1>2, <2>1 DEF IsSequence
  <2>2. CASE Option
    <3>1. PICK e : ReadAs(NewExport(Reading, e, Null, e.src))
      BY <2>2 DEF Option
    <3>2. imported' = imported
      BY <3>1, NewExportImports DEF ReadAs
    <3>3. QED BY <2>1, <3>2
  <2>3. CASE ReadExport
    <3>1. \E e, seg : ReadAs(NewExport(Reading, e, seg, OBJMOD))
      BY <2>3 DEF ReadExport
    <3>2. imported' = imported
      BY <3>1, NewExportImports DEF ReadAs
    <3>3. QED BY <2>1, <3>2
  <2>4. CASE ReadDeclaration
    <3>1. PICK d : d = CurrentFile.decls[item]
      OBVIOUS
    <3>2. PICK r : r = Declare(Reading, d, CurrentFile.lib)
      OBVIOUS
    <3>3. d \in Declarations
      BY <2>4, <3>1, DeclarationFacts
    <3>4. IsSequence(r.imported)
      BY <1>2, <3>2, <3>3, DeclareImports
    <3>5. imported' = r.imported
      BY <2>4, <3>1, <3>2 DEF ReadDeclaration, ReadAs
    <3>6. QED BY <3>4, <3>5 DEF IsSequence
  <2>5. CASE OpenFile \/ FileRead
    BY <2>1, <2>5 DEF OpenFile, FileRead, input
  <2>6. QED BY <2>2, <2>3, <2>4, <2>5
<1>4. QED BY <1>1, <1>3, TablesIdle

LEMMA CollectingTables ==
  ASSUME BindingOK, CollectingOK, TablesOK,
         FixupToName \/ FixupToSegment \/ Descriptor \/ EntryRoot \/ ExportRoot \/ CollectAllSegments
  PROVE  TablesOK'
<1>1. Linking /\ FilesOK /\ StackOK
  BY DEF FixupToName, FixupToSegment, Descriptor, EntryRoot, ExportRoot, CollectAllSegments, Linking,
         BindingOK, CollectingOK
<1>2. UNCHANGED <<files, imported>>
  BY DEF FixupToName, FixupToSegment, Descriptor, EntryRoot, ExportRoot, CollectAllSegments, input
<1>3. ASSUME NEW n \in Names, NEW rest, FollowsName(n, rest) \/ ToNowhere(n)
      PROVE  TablesOK'
  <2>1. CASE FollowsName(n, rest)
    BY <1>2, <2>1, TablesFollow
  <2>2. CASE ToNowhere(n)
    <3>1. UNCHANGED <<names, commons, processed>>
      BY <2>2 DEF ToNowhere
    <3>2. QED BY <1>2, <3>1, TablesGrow
  <2>3. QED BY <1>3, <2>1, <2>2
<1>4. ASSUME UNCHANGED <<names, commons>>, \A s \in processed' : s \in processed \/ InFile(s)
      PROVE  TablesOK'
  BY <1>2, <1>4, TablesGrow
<1>5. CASE FixupToName
  <2>1. AtFixup /\ CurrentFixup.name # Null /\ Resolve(CurrentFixup.name, Onward)
    BY <1>5 DEF FixupToName
  <2>2. CurrentFixup.name \in Names
    BY <1>1, <2>1, CurrentFixupFacts
  <2>3. PICK n \in Names : n = CurrentFixup.name
    BY <2>2
  <2>4. FollowsName(n, Onward) \/ ToNowhere(n)
    BY <2>1, <2>3 DEF Resolve, FollowsName
  <2>5. QED BY <1>3, <2>4
<1>6. CASE FixupToSegment
  <2>1. /\ AtFixup /\ CurrentFixup.name = Null /\ CollectOnce(<<Caller.seg[1], CurrentFixup.own>>, Onward)
        /\ UNCHANGED <<names, commons>>
    BY <1>6 DEF FixupToSegment, input
  <2>2. InFile(<<Caller.seg[1], CurrentFixup.own>>)
    BY <1>1, <2>1, CurrentFixupFacts
  <2>3. PICK t : t = <<Caller.seg[1], CurrentFixup.own>>
    OBVIOUS
  <2>4. \A s \in processed' : s \in processed \/ s = t
    BY <2>1, <2>3 DEF CollectOnce, CollectSegments
  <2>5. QED BY <1>4, <2>1, <2>2, <2>3, <2>4
<1>7. CASE Descriptor
  <2>1. /\ stack # <<>> /\ Seg(Caller.seg).clazz = "IDATA" /\ CollectName(files[Caller.seg[1]].extrnl, stack)
    BY <1>7 DEF Descriptor
  <2>2. Caller \in ToSet(stack)
    BY <1>1, <2>1, StackShape DEF StackOK
  <2>3. InFile(Caller.seg)
    BY <1>1, <2>2 DEF StackOK
  <2>4. files[Caller.seg[1]].extrnl \in Names
    BY <1>1, <2>1, <2>3, SegmentFacts, DescriptorFacts
  <2>5. PICK n \in Names : n = files[Caller.seg[1]].extrnl
    BY <2>4
  <2>6. FollowsName(n, stack)
    BY <2>1, <2>5 DEF CollectName, FollowsName
  <2>7. QED BY <1>3, <2>6
<1>8. CASE EntryRoot
  <2>1. CASE entry = Null
    BY <1>4, <1>8, <2>1 DEF EntryRoot
  <2>2. CASE entry # Null
    <3>1. Resolve(entry, <<>>)
      BY <1>8, <2>2 DEF EntryRoot
    <3>2. PICK n \in Names : n = entry
      BY <2>2, OptionsAssumption DEF BindingOK
    <3>3. FollowsName(n, <<>>) \/ ToNowhere(n)
      BY <3>1, <3>2 DEF Resolve, FollowsName
    <3>4. QED BY <1>3, <3>3
  <2>3. QED BY <2>1, <2>2
<1>9. CASE ExportRoot
  <2>1. PICK e : e = exports[root]
    OBVIOUS
  <2>2. /\ root \in DOMAIN exports
        /\ \/ UNCHANGED <<names, commons, processed>>
           \/ e.seg # Null /\ CollectSegments(e.seg, <<>>) /\ UNCHANGED <<names, commons>>
           \/ CollectName(e.int, <<>>)
    BY <1>9, <2>1 DEF ExportRoot
  <2>3. e.int \in Names /\ (e.seg = Null \/ InFile(e.seg))
    BY <2>1, <2>2 DEF BindingOK, AllExportsOK, ExportOK
  <2>4. CASE UNCHANGED <<names, commons, processed>>
    BY <1>4, <2>4
  <2>5. CASE e.seg # Null /\ CollectSegments(e.seg, <<>>) /\ UNCHANGED <<names, commons>>
    BY <1>4, <2>3, <2>5 DEF CollectSegments
  <2>6. CASE CollectName(e.int, <<>>)
    <3>1. PICK n \in Names : n = e.int
      BY <2>3
    <3>2. FollowsName(n, <<>>)
      BY <2>6, <3>1 DEF CollectName, FollowsName
    <3>3. QED BY <1>3, <3>2
  <2>7. QED BY <2>2, <2>4, <2>5, <2>6
<1>10. CASE CollectAllSegments
  <2>1. PICK i : i = CHOOSE k \in Unlinked(file) : \A j \in Unlinked(file) : k <= j
    OBVIOUS
  <2>2. /\ file \in DOMAIN files /\ UNCHANGED <<names, commons>>
        /\ \/ UNCHANGED processed
           \/ Unlinked(file) # {} /\ CollectSegments(<<file, i>>, <<>>)
    BY <1>10, <2>1 DEF CollectAllSegments, input
  <2>3. CASE UNCHANGED processed
    BY <1>4, <2>2, <2>3
  <2>4. CASE Unlinked(file) # {} /\ CollectSegments(<<file, i>>, <<>>)
    <3>1. Unlinked(file) \in SUBSET Nat
      BY <1>1, <2>2, FileFacts DEF Unlinked
    <3>2. i \in Unlinked(file)
      <4>1. \E j \in Unlinked(file) : \A k \in Unlinked(file) : j <= k
        BY <2>4, <3>1, LeastExists
      <4>2. QED BY <2>1, <4>1
    <3>3. InFile(<<file, i>>)
      BY <2>2, <3>2 DEF Unlinked, InFile
    <3>4. QED BY <1>4, <2>2, <2>4, <3>3 DEF CollectSegments
  <2>5. QED BY <2>2, <2>3, <2>4
<1>11. QED BY <1>5, <1>6, <1>7, <1>8, <1>9, <1>10

LEMMA OtherTables ==
  ASSUME TablesOK,
         Link \/ PrepareExport \/ RootsCollected \/ Return \/ PassFile \/ CollectAllAgain \/ Place \/ CreateImages
           \/ UNCHANGED vars
  PROVE  TablesOK'
<1>1. UNCHANGED <<files, imported, names, commons, processed>>
  BY DEF Link, PrepareExport, RootsCollected, Return, PassFile, CollectAllAgain, Place, CreateImages, vars,
         input, search
<1>2. QED BY <1>1, TablesGrow

\* Imported names are a list, a COMMON block has a name that is bound, and
\* what is marked is a segment of a file or of a COMMON block.
THEOREM TablesInv == Spec => [](BindingOK /\ CollectingOK /\ TablesOK)
<1>1. Init => TablesOK
  <2> SUFFICES ASSUME Init PROVE TablesOK
    OBVIOUS
  <2>1. imported = <<>> /\ commons = <<>> /\ processed = {}
    BY DEF Init
  <2>2. <<>> \in Seq(Names) /\ DOMAIN <<>> = {}
    OBVIOUS
  <2>3. IsSequence(imported)
    BY <2>1 DEF IsSequence
  <2>4. QED BY <2>1, <2>2, <2>3 DEF TablesOK
<1>2. BindingOK /\ CollectingOK /\ BindingOK' /\ TablesOK /\ [Next]_vars => TablesOK'
  <2> SUFFICES ASSUME BindingOK, CollectingOK, BindingOK', TablesOK, [Next]_vars PROVE TablesOK'
    OBVIOUS
  <2>1. CASE Option \/ OpenFile \/ ReadDeclaration \/ ReadExport \/ FileRead
    BY <2>1, ReadingTables
  <2>2. CASE FixupToName \/ FixupToSegment \/ Descriptor \/ EntryRoot \/ ExportRoot \/ CollectAllSegments
    BY <2>2, CollectingTables
  <2>3. CASE Link \/ PrepareExport \/ RootsCollected \/ Return \/ PassFile \/ CollectAllAgain \/ Place
               \/ CreateImages \/ UNCHANGED vars
    BY <2>3, OtherTables
  <2>4. QED BY <2>1, <2>2, <2>3 DEF Next
<1>3. QED
  BY <1>1, <1>2, LinkingInv, PTL DEF Spec

-----------------------------------------------------------------------------
(* The addresses *)

\* The sections follow one another from their bases on, the jumps stand
\* between the code and the data.
Follow(base, stop, jumps, room) ==
  /\ base \in [Classes -> Nat] /\ stop \in [Classes -> Nat]
  /\ stop["CODE"] <= jumps /\ jumps + room <= base["DATA"] /\ stop["DATA"] <= base["BSS"]
  /\ stop["BSS"] <= base["CONST"] /\ stop["CONST"] <= base["IDATA"]

Ordered(l) == \A c \in Classes : /\ l.order[c] \in Seq(Pairs) /\ IsInjective(l.order[c])
                                 /\ ToSet(l.order[c]) = {s \in processed : Section(s) = c}
JumpsFrom(a) == [i \in Jumps |-> a + 6 * Cardinality({j \in Jumps : j < i})]
Standing(l, stop, jumps) ==
  /\ Follow(l.base, stop, jumps, 6 * Cardinality(Jumps))
  /\ \A c \in Classes : Laid(l.order[c], l.base[c], l.at[c], stop[c])
  /\ jumps \in Nat /\ l.jumps = JumpsFrom(jumps)
PlacedAs(l) ==
  /\ l = [order |-> l.order, at |-> l.at, base |-> l.base, jumps |-> l.jumps, text |-> l.text]
  /\ Ordered(l) /\ \E stop, jumps : Standing(l, stop, jumps)

LEMMA ProcessedMeasured ==
  ASSUME BindingOK, TablesOK, NEW segs \in Seq(Pairs), ToSet(segs) \subseteq processed
  PROVE  Measured(segs)
<1>1. ASSUME NEW i \in 1..Len(segs) PROVE Seg(segs[i]).align \in Nat \ {0} /\ Seg(segs[i]).len \in Nat
  <2>1. segs[i] \in processed
    BY ToSetMember
  <2>2. InFile(segs[i]) \/ IsBlock(segs[i])
    BY <2>1 DEF TablesOK
  <2>3. PICK s : s = segs[i]
    OBVIOUS
  <2>4. QED BY <2>2, <2>3, SegmentShape
<1>2. QED BY <1>1 DEF Measured

LEMMA OrderMeasured ==
  ASSUME BindingOK, TablesOK, NEW c
  PROVE  Measured(OrderSegments(c))
<1>1. OrderSegments(c) \in Seq(Pairs) /\ ToSet(OrderSegments(c)) \subseteq processed
  BY OrderShape
<1>2. PICK segs : segs = OrderSegments(c)
  OBVIOUS
<1>3. QED BY <1>1, <1>2, ProcessedMeasured

LEMMA ImportsFinite ==
  ASSUME TablesOK
  PROVE  IsFiniteSet(Jumps) /\ Cardinality(Jumps) \in Nat /\ Jumps \in SUBSET Nat
         /\ Ndlls \in Nat
<1>1. PICK n \in Nat : n = Len(imported) /\ DOMAIN imported = 1..n
  BY SequenceShape DEF TablesOK
<1>2. Jumps \in SUBSET (1..n)
  BY <1>1 DEF Jumps
<1>3. IsFiniteSet(1..n)
  BY FS_Interval
<1>4. IsFiniteSet(Jumps)
  BY <1>2, <1>3, FS_Subset
<1>5. IsFiniteSet(ToSet(imported))
  BY ListFinite DEF TablesOK, IsSequence
<1>6. PICK M : M = {m \in ToSet(imported) : m \in used}
  OBVIOUS
<1>7. IsFiniteSet(M)
  BY <1>5, <1>6, FS_Subset
<1>8. PICK f : f = [m \in M |-> names[m].arg]
  OBVIOUS
<1>9. PICK A : A = {names[m].arg : m \in M}
  OBVIOUS
<1>10. f \in Surjection(M, A)
  <2>1. f \in [M -> A]
    BY <1>8, <1>9
  <2>2. \A a \in A : \E m \in M : f[m] = a
    BY <1>8, <1>9
  <2>3. QED BY <2>1, <2>2 DEF Surjection
<1>11. IsFiniteSet(A)
  BY <1>7, <1>10, FS_Surjection
<1>12. Ndlls = Cardinality(A)
  BY <1>6, <1>9 DEF Ndlls
<1>13. QED BY <1>2, <1>4, <1>11, <1>12, FS_CardinalityType

\* What Place lays out, from the addresses it works out one after the other.
LayoutOf(order, code, jumps, data, dbase, bss, bbase, const, cbase, imports, ibase) ==
  [order |-> order,
   at |-> [c \in Classes |-> CASE c = "CODE" -> code.at [] c = "DATA" -> data.at
               [] c = "BSS" -> bss.at [] c = "CONST" -> const.at [] c = "IDATA" -> imports.at],
   base |-> [c \in Classes |-> CASE c = "CODE" -> Page [] c = "DATA" -> dbase
               [] c = "BSS" -> bbase [] c = "CONST" -> cbase [] c = "IDATA" -> ibase],
   jumps |-> [i \in Jumps |-> jumps + JumpSize * Cardinality({j \in Jumps : j < i})],
   text |-> <<>>]

LEMMA PlaceLayout ==
  ASSUME Place, errors = 0
  PROVE  LET order == [c \in Classes |-> OrderSegments(c)]
             code == CalcAddress(order["CODE"], Page)
             jumps == Up(code.end, 2)
             dbase == Up(jumps + JumpSize * Cardinality(Jumps), Page)
             data == CalcAddress(order["DATA"], dbase)
             bbase == Up(data.end, Page)
             bss == CalcAddress(order["BSS"], bbase)
             cbase == Up(bss.end, Page)
             const == CalcAddress(order["CONST"], cbase)
             ibase == Up(const.end, Page) + Ndlls * 20
             imports == CalcAddress(order["IDATA"], ibase)
         IN  layout' = LayoutOf(order, code, jumps, data, dbase, bss, bbase, const, cbase, imports, ibase)
  BY Zenon DEF Place, LayoutOf

\* Place makes such a layout.
LEMMA PlaceShape ==
  ASSUME BindingOK, TablesOK, Place, phase' = "image"
  PROVE  PlacedAs(layout')
<1>1. PICK order : order = [c \in Classes |-> OrderSegments(c)]
  OBVIOUS
<1>2. \A c \in Classes : order[c] = OrderSegments(c)
  BY <1>1
<1>3. \A c \in Classes : Measured(order[c])
  BY <1>2, OrderMeasured
<1>4. /\ "CODE" \in Classes /\ "DATA" \in Classes /\ "BSS" \in Classes /\ "CONST" \in Classes /\ "IDATA" \in Classes
      /\ \A c \in Classes : c \in {"CODE", "DATA", "BSS", "CONST", "IDATA"}
  BY DEF Classes
<1>5. PICK m \in Nat : m = Cardinality(Jumps)
  BY ImportsFinite
<1>6. Page \in Nat \ {0}
  BY PageAssumption
<1>d. ASSUME NEW c \in Classes, NEW a \in Nat
      PROVE  /\ Laid(order[c], a, CalcAddress(order[c], a).at, CalcAddress(order[c], a).end)
             /\ CalcAddress(order[c], a).end \in Nat
  <2>1. PICK segs : segs = order[c] /\ Measured(segs)
    BY <1>3
  <2>2. Laid(segs, a, CalcAddress(segs, a).at, CalcAddress(segs, a).end)
    BY <2>1, CalcAddressShape
  <2>3. PICK at, stop : at = CalcAddress(segs, a).at /\ stop = CalcAddress(segs, a).end
    OBVIOUS
  <2>4. stop \in Nat
    BY <2>1, <2>2, <2>3, LaidShape
  <2>5. QED BY <2>1, <2>2, <2>3, <2>4
<1>7. PICK code : code = CalcAddress(order["CODE"], Page)
  OBVIOUS
<1>8. Laid(order["CODE"], Page, code.at, code.end) /\ code.end \in Nat
  BY <1>4, <1>6, <1>7, <1>d
<1>9. PICK jumps \in Nat : jumps = Up(code.end, 2) /\ code.end <= jumps
  BY <1>8, UpShape
<1>10. PICK dbase \in Nat : dbase = Up(jumps + 6 * m, Page) /\ jumps + 6 * m <= dbase
  <2>1. jumps + 6 * m \in Nat
    OBVIOUS
  <2>2. QED BY <1>6, <2>1, UpShape
<1>11. PICK data : data = CalcAddress(order["DATA"], dbase)
  OBVIOUS
<1>12. Laid(order["DATA"], dbase, data.at, data.end) /\ data.end \in Nat
  BY <1>4, <1>11, <1>d
<1>13. PICK bbase \in Nat : bbase = Up(data.end, Page) /\ data.end <= bbase
  BY <1>6, <1>12, UpShape
<1>14. PICK bss : bss = CalcAddress(order["BSS"], bbase)
  OBVIOUS
<1>15. Laid(order["BSS"], bbase, bss.at, bss.end) /\ bss.end \in Nat
  BY <1>4, <1>14, <1>d
<1>16. PICK cbase \in Nat : cbase = Up(bss.end, Page) /\ bss.end <= cbase
  BY <1>6, <1>15, UpShape
<1>17. PICK const : const = CalcAddress(order["CONST"], cbase)
  OBVIOUS
<1>18. Laid(order["CONST"], cbase, const.at, const.end) /\ const.end \in Nat
  BY <1>4, <1>17, <1>d
<1>19. PICK directory \in Nat : directory = Up(const.end, Page) /\ const.end <= directory
  BY <1>6, <1>18, UpShape
<1>20. PICK ibase \in Nat : ibase = directory + Ndlls * 20 /\ const.end <= ibase
  <2>1. PICK d \in Nat : d = Ndlls
    BY ImportsFinite
  <2>2. directory + d * 20 \in Nat /\ const.end <= directory + d * 20
    BY <1>18, <1>19
  <2>3. QED BY <2>1, <2>2
<1>21. PICK imports : imports = CalcAddress(order["IDATA"], ibase)
  OBVIOUS
<1>22. Laid(order["IDATA"], ibase, imports.at, imports.end) /\ imports.end \in Nat
  BY <1>4, <1>21, <1>d
<1>23. PICK at : at = [c \in Classes |-> CASE c = "CODE" -> code.at [] c = "DATA" -> data.at
                         [] c = "BSS" -> bss.at [] c = "CONST" -> const.at [] c = "IDATA" -> imports.at]
  OBVIOUS
<1>24. PICK base : base = [c \in Classes |-> CASE c = "CODE" -> Page [] c = "DATA" -> dbase
                             [] c = "BSS" -> bbase [] c = "CONST" -> cbase [] c = "IDATA" -> ibase]
  OBVIOUS
<1>25. PICK stop : stop = [c \in Classes |-> CASE c = "CODE" -> code.end [] c = "DATA" -> data.end
                             [] c = "BSS" -> bss.end [] c = "CONST" -> const.end [] c = "IDATA" -> imports.end]
  OBVIOUS
<1>26. layout' = [order |-> order, at |-> at, base |-> base,
                  jumps |-> [i \in Jumps |-> jumps + 6 * Cardinality({j \in Jumps : j < i})], text |-> <<>>]
  <2>1. errors = 0
    <3>1. errors # 0 => phase' = "failed"
      BY Zenon DEF Place
    <3>2. QED BY <3>1
  <2> DEFINE order0 == [c \in Classes |-> OrderSegments(c)]
             code0 == CalcAddress(order0["CODE"], Page)
             jumps0 == Up(code0.end, 2)
             dbase0 == Up(jumps0 + JumpSize * Cardinality(Jumps), Page)
             data0 == CalcAddress(order0["DATA"], dbase0)
             bbase0 == Up(data0.end, Page)
             bss0 == CalcAddress(order0["BSS"], bbase0)
             cbase0 == Up(bss0.end, Page)
             const0 == CalcAddress(order0["CONST"], cbase0)
             ibase0 == Up(const0.end, Page) + Ndlls * 20
             imports0 == CalcAddress(order0["IDATA"], ibase0)
  <2>2. layout' = LayoutOf(order0, code0, jumps0, data0, dbase0, bss0, bbase0, const0, cbase0, imports0, ibase0)
    BY <2>1, PlaceLayout, Zenon
  <2>3. /\ order0 = order
        /\ code0 = CalcAddress(order0["CODE"], Page) /\ jumps0 = Up(code0.end, 2)
        /\ dbase0 = Up(jumps0 + JumpSize * Cardinality(Jumps), Page)
        /\ data0 = CalcAddress(order0["DATA"], dbase0) /\ bbase0 = Up(data0.end, Page)
        /\ bss0 = CalcAddress(order0["BSS"], bbase0) /\ cbase0 = Up(bss0.end, Page)
        /\ const0 = CalcAddress(order0["CONST"], cbase0)
        /\ ibase0 = Up(const0.end, Page) + Ndlls * 20
        /\ imports0 = CalcAddress(order0["IDATA"], ibase0)
    BY <1>1, Zenon
  <2> HIDE DEF order0, code0, jumps0, dbase0, data0, bbase0, bss0, cbase0, const0, ibase0, imports0
  <2>4. code0 = code /\ jumps0 = jumps
    BY <1>7, <1>9, <2>3, Zenon
  <2>5. dbase0 = dbase
    <3>1. JumpSize * Cardinality(Jumps) = 6 * m
      BY <1>5 DEF JumpSize
    <3>2. QED BY <1>10, <2>3, <2>4, <3>1, Zenon
  <2>6. data0 = data /\ bbase0 = bbase
    BY <1>11, <1>13, <2>3, <2>5, Zenon
  <2>7. bss0 = bss /\ cbase0 = cbase
    BY <1>14, <1>16, <2>3, <2>6, Zenon
  <2>8. const0 = const /\ ibase0 = ibase
    BY <1>17, <1>19, <1>20, <2>3, <2>7, Zenon
  <2>9. imports0 = imports
    BY <1>21, <2>3, <2>8, Zenon
  <2>10. layout' = LayoutOf(order, code, jumps, data, dbase, bss, bbase, const, cbase, imports, ibase)
    BY <2>2, <2>3, <2>4, <2>5, <2>6, <2>7, <2>8, <2>9, Zenon
  <2>11. QED BY <1>23, <1>24, <2>10, Zenon DEF LayoutOf, JumpSize
<1>27. PICK l : l = layout'
  OBVIOUS
<1>28. /\ l.order = order /\ l.at = at /\ l.base = base /\ l.jumps = JumpsFrom(jumps)
       /\ l = [order |-> l.order, at |-> l.at, base |-> l.base, jumps |-> l.jumps, text |-> l.text]
  BY <1>26, <1>27 DEF JumpsFrom
<1>29. Ordered(l)
  <2>1. \A c \in Classes : /\ order[c] \in Seq(Pairs) /\ IsInjective(order[c])
                           /\ ToSet(order[c]) = {s \in processed : Section(s) = c}
    BY <1>2, OrderShape
  <2>2. QED BY <1>28, <2>1 DEF Ordered
<1>30. at["CODE"] = code.at /\ base["CODE"] = Page /\ stop["CODE"] = code.end
  BY <1>4, <1>23, <1>24, <1>25
<1>31. at["DATA"] = data.at /\ base["DATA"] = dbase /\ stop["DATA"] = data.end
  BY <1>4, <1>23, <1>24, <1>25
<1>32. at["BSS"] = bss.at /\ base["BSS"] = bbase /\ stop["BSS"] = bss.end
  BY <1>4, <1>23, <1>24, <1>25
<1>33. at["CONST"] = const.at /\ base["CONST"] = cbase /\ stop["CONST"] = const.end
  BY <1>4, <1>23, <1>24, <1>25
<1>34. at["IDATA"] = imports.at /\ base["IDATA"] = ibase /\ stop["IDATA"] = imports.end
  BY <1>4, <1>23, <1>24, <1>25
<1>35. base \in [Classes -> Nat]
  BY <1>4, <1>6, <1>24
<1>36. stop \in [Classes -> Nat]
  BY <1>4, <1>8, <1>12, <1>15, <1>18, <1>22, <1>25
<1>37. Follow(base, stop, jumps, 6 * m)
  BY <1>9, <1>10, <1>13, <1>16, <1>20, <1>30, <1>31, <1>32, <1>33, <1>34, <1>35, <1>36 DEF Follow
<1>38. \A c \in Classes : Laid(order[c], base[c], at[c], stop[c])
  BY <1>4, <1>8, <1>12, <1>15, <1>18, <1>22, <1>30, <1>31, <1>32, <1>33, <1>34
<1>39. Standing(l, stop, jumps)
  BY <1>5, <1>28, <1>37, <1>38 DEF Standing
<1>40. PlacedAs(l)
  BY <1>28, <1>29, <1>39 DEF PlacedAs
<1>41. QED BY <1>27, <1>40

\* What is laid out stays so while the tables do not change.
LaidOutSame == UNCHANGED <<files, names, commons, processed, imported, used>>

LEMMA SegSame ==
  ASSUME LaidOutSame, NEW s
  PROVE  Seg(s)' = Seg(s) /\ Section(s)' = Section(s)
<1>1. files' = files /\ names' = names /\ commons' = commons
  BY DEF LaidOutSame
<1>2. Seg(s)' = Seg(s)
  BY <1>1 DEF Seg, Common
<1>3. QED BY <1>2 DEF Section, Classes

LEMMA LaidSame ==
  ASSUME LaidOutSame, NEW segs, NEW addr, NEW at, NEW stop, Laid(segs, addr, at, stop)
  PROVE  Laid(segs, addr, at, stop)'
<1>1. PICK end : /\ Ends(segs, addr, end) /\ stop = end[Len(segs)]
                 /\ at = [i \in DOMAIN segs |-> Up(end[i - 1], Seg(segs[i]).align)]
  BY DEF Laid
<1>2. Ends(segs, addr, end)'
  BY <1>1, SegSame DEF Ends, Up
<1>3. at = [i \in DOMAIN segs |-> Up(end[i - 1], Seg(segs[i])'.align)]
  BY <1>1, SegSame
<1>4. QED BY <1>1, <1>2, <1>3 DEF Laid, Up

LEMMA JumpsSame ==
  ASSUME LaidOutSame
  PROVE  Jumps' = Jumps
<1>1. imported' = imported /\ used' = used /\ names' = names
  BY DEF LaidOutSame
<1>2. \A n : Kind(n)' = Kind(n)
  BY <1>1 DEF Kind
<1>3. QED BY <1>1, <1>2 DEF Jumps

LEMMA PlacedSame ==
  ASSUME LaidOutSame, NEW l, PlacedAs(l)
  PROVE  PlacedAs(l)'
<1>1. PICK stop, jumps : Standing(l, stop, jumps)
  BY DEF PlacedAs
<1>2. \A c \in Classes : Laid(l.order[c], l.base[c], l.at[c], stop[c])'
  BY <1>1, LaidSame DEF Standing, Classes
<1>3. Jumps' = Jumps
  BY JumpsSame
<1>4. Standing(l, stop, jumps)'
  BY <1>1, <1>2, <1>3 DEF Standing, JumpsFrom, Follow, Classes
<1>5. Ordered(l)'
  <2>1. ASSUME NEW c \in Classes
        PROVE  {s \in processed' : Section(s)' = c} = {s \in processed : Section(s) = c}
    BY SegSame DEF LaidOutSame
  <2>2. Ordered(l)
    BY DEF PlacedAs
  <2>3. QED BY <2>1, <2>2 DEF Ordered, Classes
<1>6. l = [order |-> l.order, at |-> l.at, base |-> l.base, jumps |-> l.jumps, text |-> l.text]
  BY DEF PlacedAs
<1>7. QED BY <1>4, <1>5, <1>6 DEF PlacedAs

\* The text of each section, laid out from its start on.
Texted(l) == \A c \in Classes \ {"BSS"} : \E last : Laid(l.order[c], 0, l.text[c], last)

LEMMA TextedSame ==
  ASSUME LaidOutSame, NEW l, Texted(l)
  PROVE  Texted(l)'
<1>1. ASSUME NEW c \in Classes \ {"BSS"} PROVE \E last : Laid(l.order[c], 0, l.text[c], last)'
  <2>1. PICK last : Laid(l.order[c], 0, l.text[c], last)
    BY DEF Texted
  <2>2. Laid(l.order[c], 0, l.text[c], last)'
    BY <2>1, LaidSame
  <2>3. QED BY <2>2
<1>2. QED BY <1>1 DEF Texted, Classes

\* The text of a section fits where the section begins as its segments might.
LEMMA FitsAligned ==
  ASSUME BindingOK, TablesOK, PlacedAs(layout), NEW c \in Classes, StartsAligned(c)
  PROVE  ~Overruns(c)
<1>1. PICK segs : segs = layout.order[c]
  OBVIOUS
<1>2. PICK b \in Nat : b = layout.base[c]
  BY DEF PlacedAs, Standing, Follow
<1>3. segs \in Seq(Pairs) /\ ToSet(segs) \subseteq processed
  BY <1>1 DEF PlacedAs, Ordered
<1>4. Measured(segs)
  BY <1>3, ProcessedMeasured
<1>5. PICK at, stop : at = CalcAddress(segs, b).at /\ stop = CalcAddress(segs, b).end
  OBVIOUS
<1>6. PICK text, last : text = CalcAddress(segs, 0).at /\ last = CalcAddress(segs, 0).end
  OBVIOUS
<1>7. Laid(segs, b, at, stop)
  BY <1>4, <1>5, CalcAddressShape
<1>8. Laid(segs, 0, text, last)
  BY <1>4, <1>6, CalcAddressShape
<1>9. \A i \in DOMAIN segs : b % Seg(segs[i]).align = 0
  BY <1>1, <1>2 DEF StartsAligned, ToSet
<1>10. text = [i \in DOMAIN segs |-> at[i] - b]
  BY <1>4, <1>7, <1>8, <1>9, LaidAbove
<1>11. /\ stop \in Nat
       /\ \A i \in DOMAIN segs : at[i] \in Nat /\ Seg(segs[i]).len \in Nat /\ at[i] + Seg(segs[i]).len <= stop
  <2>1. stop \in Nat /\ \A i \in DOMAIN segs : at[i] \in Nat /\ at[i] + Seg(segs[i]).len <= stop
    BY <1>4, <1>7, LaidShape
  <2>2. \A i \in DOMAIN segs : Seg(segs[i]).len \in Nat
    BY <1>3, <1>4 DEF Measured
  <2>3. QED BY <2>1, <2>2
<1>12. PICK len : len = SectionLen(c)
  OBVIOUS
<1>13. len \in Int /\ stop - b <= len
  <2>1. PICK m \in Nat : m = Cardinality(DOMAIN layout.jumps)
    <3>1. PICK stops, jumps : Standing(layout, stops, jumps)
      BY DEF PlacedAs
    <3>2. DOMAIN layout.jumps = Jumps
      BY <3>1 DEF Standing, JumpsFrom
    <3>3. QED BY <3>2, ImportsFinite
  <2>2. PICK r \in Nat : r = Up(stop, 2) /\ stop <= r
    BY <1>11, UpShape
  <2>3. len = (IF c = "CODE" THEN r + 6 * m ELSE stop) - b
    BY <1>1, <1>2, <1>5, <1>12, <2>1, <2>2 DEF SectionLen, JumpSize
  <2>4. r + 6 * m \in Nat /\ stop <= r + 6 * m
    BY <1>11, <2>1, <2>2
  <2>5. QED BY <1>2, <1>11, <2>3, <2>4
<1>14. ASSUME NEW i \in DOMAIN segs PROVE ~(text[i] + Seg(segs[i]).len > len)
  <2>1. PICK a \in Nat, l \in Nat : a = at[i] /\ l = Seg(segs[i]).len /\ a + l <= stop
    BY <1>11
  <2>2. text[i] = a - b
    BY <1>10, <2>1
  <2>3. QED BY <1>2, <1>11, <1>13, <2>1, <2>2
<1>15. QED BY <1>1, <1>6, <1>12, <1>14 DEF Overruns, CreateCollectionImage

PlacedOK ==
  /\ phase \in {"image", "done", "overrun", "miscounted"} => PlacedAs(layout)
  /\ phase = "done" => Texted(layout)
  /\ TextFitsAligned

LEMMA CreateImagesPlaces ==
  ASSUME BindingOK, TablesOK, PlacedOK, CreateImages
  PROVE  PlacedOK'
<1>1. PICK l : l = layout
  OBVIOUS
<1>2. PICK r : r = layout'
  OBVIOUS
<1>3. PICK text : text = [c \in Classes \ {"BSS"} |-> CalcAddress(l.order[c], 0).at]
  OBVIOUS
<1>4. PlacedAs(l) /\ LaidOutSame
  BY <1>1 DEF CreateImages, PlacedOK, LaidOutSame, input, search
<1>5. r = [l EXCEPT !.text = text]
  BY <1>1, <1>2, <1>3 DEF CreateImages, CreateCollectionImage
<1>6. /\ r.order = l.order /\ r.at = l.at /\ r.base = l.base /\ r.jumps = l.jumps /\ r.text = text
      /\ r = [order |-> r.order, at |-> r.at, base |-> r.base, jumps |-> r.jumps, text |-> r.text]
  <2>1. l = [order |-> l.order, at |-> l.at, base |-> l.base, jumps |-> l.jumps, text |-> l.text]
    BY <1>4 DEF PlacedAs
  <2>2. PICK a, b, c, d, e : l = [order |-> a, at |-> b, base |-> c, jumps |-> d, text |-> e]
    BY <2>1
  <2>3. r = [order |-> a, at |-> b, base |-> c, jumps |-> d, text |-> text]
    BY <1>5, <2>2
  <2>4. QED BY <2>2, <2>3
<1>7. PlacedAs(r)
  BY <1>4, <1>6 DEF PlacedAs, Ordered, Standing
<1>8. Texted(r)
  <2>1. ASSUME NEW c \in Classes \ {"BSS"} PROVE \E last : Laid(r.order[c], 0, r.text[c], last)
    <3>1. PICK segs : segs = l.order[c]
      OBVIOUS
    <3>2. segs \in Seq(Pairs) /\ ToSet(segs) \subseteq processed
      BY <1>4, <3>1 DEF PlacedAs, Ordered
    <3>3. Measured(segs)
      BY <3>2, ProcessedMeasured
    <3>4. Laid(segs, 0, CalcAddress(segs, 0).at, CalcAddress(segs, 0).end)
      BY <3>3, CalcAddressShape
    <3>5. r.order[c] = segs /\ r.text[c] = CalcAddress(segs, 0).at
      BY <1>3, <1>6, <3>1
    <3>6. QED BY <3>4, <3>5
  <2>2. QED BY <2>1 DEF Texted
<1>9. PlacedAs(r)' /\ Texted(r)'
  BY <1>4, <1>7, <1>8, PlacedSame, TextedSame
<1>10. PlacedAs(layout)' /\ Texted(layout)'
  <2>1. layout' = r
    BY <1>2
  <2>2. PlacedAs(layout)'
    BY <1>9, <2>1 DEF PlacedAs, Ordered, Standing, Follow
  <2>3. Texted(layout)'
    BY <1>9, <2>1 DEF Texted
  <2>4. QED BY <2>2, <2>3
<1>11. TextFitsAligned'
  <2>1. ASSUME phase' = "overrun" PROVE \E c \in Classes \ {"BSS"} : ~StartsAligned(c)'
    <3>1. PICK c \in Classes \ {"BSS"} : Overruns(c)
      BY <2>1 DEF CreateImages
    <3>2. ~StartsAligned(c)
      BY <1>1, <1>4, <3>1, FitsAligned
    <3>3. StartsAligned(c)' <=> StartsAligned(c)
      BY <1>1, <1>2, <1>4, <1>6, SegSame DEF StartsAligned
    <3>4. QED BY <3>2, <3>3
  <2>2. Classes' = Classes
    BY DEF Classes
  <2>3. QED BY <2>1, <2>2 DEF TextFitsAligned, TextFits
<1>12. QED BY <1>10, <1>11 DEF PlacedOK

LEMMA PlacePlaces ==
  ASSUME BindingOK, TablesOK, Place
  PROVE  PlacedOK'
<1>1. phase' \in {"failed", "image"}
  BY DEF Place
<1>2. CASE phase' = "image"
  <2>1. PICK r : r = layout'
    OBVIOUS
  <2>2. LaidOutSame
    BY DEF Place, LaidOutSame, input
  <2>3. PlacedAs(r)
    BY <1>2, <2>1, PlaceShape
  <2>4. PlacedAs(r)'
    BY <2>2, <2>3, PlacedSame
  <2>5. PlacedAs(layout)'
    BY <2>1, <2>4 DEF PlacedAs, Ordered, Standing, Follow
  <2>6. QED BY <1>2, <2>5 DEF PlacedOK, TextFitsAligned, TextFits
<1>3. QED BY <1>1, <1>2 DEF PlacedOK, TextFitsAligned, TextFits

LEMMA StutterPlaces ==
  ASSUME PlacedOK, UNCHANGED vars
  PROVE  PlacedOK'
<1>1. LaidOutSame /\ phase' = phase /\ layout' = layout
  BY DEF vars, input, search, LaidOutSame
<1>2. PICK l : l = layout
  OBVIOUS
<1>3. PlacedAs(l) => PlacedAs(layout)'
  <2>1. PlacedAs(l) => PlacedAs(l)'
    BY <1>1, PlacedSame
  <2>2. QED BY <1>1, <1>2, <2>1 DEF PlacedAs, Ordered, Standing, Follow
<1>4. Texted(l) => Texted(layout)'
  <2>1. Texted(l) => Texted(l)'
    BY <1>1, TextedSame
  <2>2. QED BY <1>1, <1>2, <2>1 DEF Texted
<1>5. TextFitsAligned => TextFitsAligned'
  <2>1. \A c \in Classes : StartsAligned(c)' <=> StartsAligned(c)
    BY <1>1, SegSame DEF StartsAligned
  <2>2. Classes' = Classes
    BY DEF Classes
  <2>3. QED BY <1>1, <2>1, <2>2 DEF TextFitsAligned, TextFits
<1>6. QED BY <1>1, <1>2, <1>3, <1>4, <1>5 DEF PlacedOK

LEMMA ResolvePhase ==
  ASSUME NEW n, NEW rest, Resolve(n, rest) \/ CollectName(n, rest)
  PROVE  phase' \in {phase, "asserted", "hung"}
BY DEF Resolve, CollectName, ToDefined, ToCommon, ToImport, ToNothing, ToNowhere

LEMMA NotYetPlaced ==
  ASSUME Option \/ OpenFile \/ ReadDeclaration \/ ReadExport \/ FileRead \/ Link
           \/ PrepareExport \/ EntryRoot \/ ExportRoot \/ RootsCollected
           \/ FixupToName \/ FixupToSegment \/ Descriptor \/ Return
           \/ CollectAllSegments \/ PassFile \/ CollectAllAgain
  PROVE  phase' \in {"options", "file", "read", "prepare", "failed", "roots", "all", "order", "asserted", "hung"}
<1>1. CASE Option \/ OpenFile \/ ReadDeclaration \/ ReadExport \/ FileRead \/ Link \/ PrepareExport
  BY <1>1 DEF Option, OpenFile, ReadDeclaration, ReadExport, FileRead, Link, PrepareExport
<1>2. CASE EntryRoot
  <2>1. phase = "roots" /\ (phase' = phase \/ Resolve(entry, <<>>))
    BY <1>2 DEF EntryRoot
  <2>2. QED BY <2>1, ResolvePhase
<1>3. CASE ExportRoot
  <2>1. phase = "roots" /\ (phase' = phase \/ \E n : CollectName(n, <<>>))
    BY <1>3 DEF ExportRoot
  <2>2. QED BY <2>1, ResolvePhase
<1>4. CASE FixupToName
  <2>1. phase \in {"roots", "all"} /\ Resolve(CurrentFixup.name, Onward)
    BY <1>4 DEF FixupToName, Linking
  <2>2. QED BY <2>1, ResolvePhase
<1>5. CASE Descriptor
  <2>1. phase \in {"roots", "all"} /\ CollectName(files[Caller.seg[1]].extrnl, stack)
    BY <1>5 DEF Descriptor, Linking
  <2>2. QED BY <2>1, ResolvePhase
<1>6. CASE RootsCollected \/ FixupToSegment \/ Return \/ CollectAllSegments \/ PassFile \/ CollectAllAgain
  BY <1>6 DEF RootsCollected, FixupToSegment, Return, CollectAllSegments, PassFile, CollectAllAgain, Linking
<1>7. QED BY <1>1, <1>2, <1>3, <1>4, <1>5, <1>6

\* From the place where the image is laid out on, the layout is the one that
\* PlacedAs describes, and the text of each section is laid out like it.
THEOREM PlacedInv == Spec => [](BindingOK /\ TablesOK /\ PlacedOK)
<1>1. Init => PlacedOK
  BY DEF Init, PlacedOK, TextFitsAligned, TextFits
<1>2. BindingOK /\ TablesOK /\ PlacedOK /\ [Next]_vars => PlacedOK'
  <2> SUFFICES ASSUME BindingOK, TablesOK, PlacedOK, [Next]_vars PROVE PlacedOK'
    OBVIOUS
  <2>1. CASE Place \/ CreateImages \/ UNCHANGED vars
    BY <2>1, PlacePlaces, CreateImagesPlaces, StutterPlaces
  <2>2. CASE ~(Place \/ CreateImages \/ UNCHANGED vars)
    BY <2>2, NotYetPlaced DEF Next, PlacedOK, TextFitsAligned, TextFits
  <2>3. QED BY <2>1, <2>2
<1>3. QED
  BY <1>1, <1>2, TablesInv, PTL DEF Spec

-----------------------------------------------------------------------------
(* Extents *)

Apart(x, y) == x[2] <= y[1] \/ y[2] <= x[1]
Stands(s, x) == \E c \in Classes : \E i \in DOMAIN layout.order[c] :
  layout.order[c][i] = s /\ x = <<layout.at[c][i], layout.at[c][i] + Seg(s).len>>

LEMMA JumpRank ==
  ASSUME TablesOK, NEW i \in Jumps
  PROVE  /\ Cardinality({j \in Jumps : j < i}) \in Nat
         /\ Cardinality({j \in Jumps : j < i}) + 1 <= Cardinality(Jumps)
         /\ \A k \in Jumps : i < k => Cardinality({j \in Jumps : j < i}) + 1 <= Cardinality({j \in Jumps : j < k})
<1>1. IsFiniteSet(Jumps) /\ Jumps \in SUBSET Nat
  BY ImportsFinite
<1>2. PICK A : A = {j \in Jumps : j < i}
  OBVIOUS
<1>3. IsFiniteSet(A) /\ i \notin A
  BY <1>1, <1>2, FS_Subset
<1>4. Cardinality(A) \in Nat /\ IsFiniteSet(A \cup {i}) /\ Cardinality(A \cup {i}) = Cardinality(A) + 1
  BY <1>3, FS_AddElement, FS_CardinalityType
<1>5. Cardinality(A \cup {i}) <= Cardinality(Jumps)
  <2>1. A \cup {i} \in SUBSET Jumps
    BY <1>2
  <2>2. QED BY <1>1, <2>1, FS_Subset
<1>6. ASSUME NEW k \in Jumps, i < k PROVE Cardinality(A) + 1 <= Cardinality({j \in Jumps : j < k})
  <2>1. PICK B : B = {j \in Jumps : j < k}
    OBVIOUS
  <2>2. IsFiniteSet(B)
    BY <1>1, <2>1, FS_Subset
  <2>3. \A j \in Jumps : j < i => j < k
    <3>1. PICK u \in Nat, v \in Nat : u = i /\ v = k /\ u < v
      BY <1>1, <1>6
    <3>2. ASSUME NEW w \in Nat, w < u PROVE w < v
      BY <3>1, <3>2
    <3>3. QED BY <1>1, <3>1, <3>2
  <2>3a. A \cup {i} \in SUBSET B
    BY <1>2, <1>6, <2>1, <2>3
  <2>4. Cardinality(A \cup {i}) <= Cardinality(B)
    BY <2>2, <2>3a, FS_Subset
  <2>5. QED BY <1>4, <2>1, <2>4
<1>7. QED BY <1>2, <1>4, <1>5, <1>6

\* Sections do not overlap.
LEMMA FollowApart ==
  ASSUME NEW base, NEW stop, NEW jumps \in Nat, NEW room \in Nat, Follow(base, stop, jumps, room),
         \A c \in Classes : base[c] <= stop[c],
         NEW c \in Classes, NEW d \in Classes
  PROVE  /\ c # d => stop[c] <= base[d] \/ stop[d] <= base[c]
         /\ stop[c] <= jumps \/ jumps + room <= base[c]
<1>1. /\ "CODE" \in Classes /\ "DATA" \in Classes /\ "BSS" \in Classes /\ "CONST" \in Classes /\ "IDATA" \in Classes
      /\ c \in {"CODE", "DATA", "BSS", "CONST", "IDATA"} /\ d \in {"CODE", "DATA", "BSS", "CONST", "IDATA"}
  BY DEF Classes
<1>2. PICK b1 \in Nat, s1 \in Nat : b1 = base["CODE"] /\ s1 = stop["CODE"] /\ b1 <= s1
  BY <1>1 DEF Follow
<1>3. PICK b2 \in Nat, s2 \in Nat : b2 = base["DATA"] /\ s2 = stop["DATA"] /\ b2 <= s2
  BY <1>1 DEF Follow
<1>4. PICK b3 \in Nat, s3 \in Nat : b3 = base["BSS"] /\ s3 = stop["BSS"] /\ b3 <= s3
  BY <1>1 DEF Follow
<1>5. PICK b4 \in Nat, s4 \in Nat : b4 = base["CONST"] /\ s4 = stop["CONST"] /\ b4 <= s4
  BY <1>1 DEF Follow
<1>6. PICK b5 \in Nat, s5 \in Nat : b5 = base["IDATA"] /\ s5 = stop["IDATA"] /\ b5 <= s5
  BY <1>1 DEF Follow
<1>7. s1 <= jumps /\ jumps + room <= b2 /\ s2 <= b3 /\ s3 <= b4 /\ s4 <= b5
  BY <1>2, <1>3, <1>4, <1>5, <1>6 DEF Follow
<1>8. s1 <= b2 /\ s1 <= b3 /\ s1 <= b4 /\ s1 <= b5 /\ s2 <= b4 /\ s2 <= b5 /\ s3 <= b5
      /\ jumps + room <= b3 /\ jumps + room <= b4 /\ jumps + room <= b5
  BY <1>2, <1>3, <1>4, <1>5, <1>6, <1>7
<1>9. stop[c] <= jumps \/ jumps + room <= base[c]
  BY <1>1, <1>2, <1>3, <1>4, <1>5, <1>6, <1>7, <1>8
<1>10. ASSUME c # d PROVE stop[c] <= base[d] \/ stop[d] <= base[c]
  <2>1. CASE c = "CODE"
    BY <1>1, <1>2, <1>3, <1>4, <1>5, <1>6, <1>8, <1>10, <2>1
  <2>2. CASE c = "DATA"
    BY <1>1, <1>2, <1>3, <1>4, <1>5, <1>6, <1>7, <1>8, <1>10, <2>2
  <2>3. CASE c = "BSS"
    BY <1>1, <1>2, <1>3, <1>4, <1>5, <1>6, <1>7, <1>8, <1>10, <2>3
  <2>4. CASE c = "CONST"
    BY <1>1, <1>2, <1>3, <1>4, <1>5, <1>6, <1>7, <1>8, <1>10, <2>4
  <2>5. CASE c = "IDATA"
    BY <1>1, <1>2, <1>3, <1>4, <1>5, <1>6, <1>7, <1>8, <1>10, <2>5
  <2>6. QED BY <1>1, <2>1, <2>2, <2>3, <2>4, <2>5
<1>11. QED BY <1>9, <1>10

\* Each section holds its segments between its base and its end.
LEMMA SectionLaid ==
  ASSUME BindingOK, TablesOK, NEW stop, NEW jumps, Ordered(layout), Standing(layout, stop, jumps),
         NEW c \in Classes
  PROVE  LET segs == layout.order[c]
             at == layout.at[c]
         IN  /\ Measured(segs) /\ layout.base[c] \in Nat /\ stop[c] \in Nat /\ layout.base[c] <= stop[c]
             /\ \A i \in DOMAIN segs :
                  /\ segs[i] \in processed /\ Section(segs[i]) = c
                  /\ Seg(segs[i]).len \in Nat /\ at[i] \in Nat
                  /\ layout.base[c] <= at[i] /\ at[i] + Seg(segs[i]).len <= stop[c]
                  /\ at[i] % Seg(segs[i]).align = 0
             /\ \A i, j \in DOMAIN segs : segs[i] = segs[j] => i = j
             /\ \A i, j \in DOMAIN segs : i < j => at[i] + Seg(segs[i]).len <= at[j]
<1>1. PICK segs : segs = layout.order[c]
  OBVIOUS
<1>2. PICK at : at = layout.at[c]
  OBVIOUS
<1>3. PICK b \in Nat : b = layout.base[c]
  BY DEF Standing, Follow
<1>4. PICK e \in Nat : e = stop[c]
  BY DEF Standing, Follow
<1>5. segs \in Seq(Pairs) /\ IsInjective(segs) /\ ToSet(segs) = {s \in processed : Section(s) = c}
  BY <1>1 DEF Ordered
<1>6. Measured(segs)
  <2>1. ToSet(segs) \subseteq processed
    BY <1>5
  <2>2. QED BY <1>5, <2>1, ProcessedMeasured
<1>7. Laid(segs, b, at, e)
  BY <1>1, <1>2, <1>3, <1>4 DEF Standing
<1>8. /\ b <= e
      /\ \A i \in DOMAIN segs : /\ at[i] \in Nat /\ b <= at[i] /\ at[i] + Seg(segs[i]).len <= e
                                /\ at[i] % Seg(segs[i]).align = 0
      /\ \A i, j \in DOMAIN segs : i < j => at[i] + Seg(segs[i]).len <= at[j]
  BY <1>6, <1>7, LaidShape
<1>9. PICK n \in Nat : n = Len(segs) /\ DOMAIN segs = 1..n
  BY <1>5
<1>10. \A i \in DOMAIN segs : segs[i] \in processed /\ Section(segs[i]) = c /\ Seg(segs[i]).len \in Nat
  <2>1. \A i \in DOMAIN segs : segs[i] \in ToSet(segs)
    BY <1>5, <1>9, ToSetMember
  <2>2. QED BY <1>5, <1>6, <1>9, <2>1 DEF Measured
<1>11. \A i, j \in DOMAIN segs : segs[i] = segs[j] => i = j
  BY <1>5, <1>9, InjectiveSeq
<1>12. QED BY <1>1, <1>2, <1>3, <1>4, <1>6, <1>8, <1>10, <1>11

LEMMA StandsShape ==
  ASSUME BindingOK, TablesOK, PlacedAs(layout)
  PROVE  /\ \A s \in processed : \E x : Stands(s, x)
         /\ \A s, x : Stands(s, x) => /\ s \in processed /\ x[1] \in Nat /\ x[2] \in Nat /\ Seg(s).len \in Nat
                                      /\ x[2] = x[1] + Seg(s).len
         /\ \A s, t, x, y : Stands(s, x) /\ Stands(t, y) => IF s = t THEN x = y ELSE Apart(x, y)
<1>1. PICK stop, jumps : Ordered(layout) /\ Standing(layout, stop, jumps)
  BY DEF PlacedAs
<1>2. ASSUME NEW s \in processed PROVE \E x : Stands(s, x)
  <2>1. PICK c \in Classes : c = Section(s)
    BY SectionShape
  <2>2. PICK segs : segs = layout.order[c]
    OBVIOUS
  <2>3. segs \in Seq(Pairs) /\ s \in ToSet(segs)
    BY <1>1, <2>1, <2>2 DEF Ordered
  <2>4. PICK i \in DOMAIN segs : segs[i] = s
    BY <2>3, ToSetMember
  <2>5. PICK x : x = <<layout.at[c][i], layout.at[c][i] + Seg(s).len>>
    OBVIOUS
  <2>6. Stands(s, x)
    BY <2>2, <2>4, <2>5 DEF Stands
  <2>7. QED BY <2>6
<1>3. ASSUME NEW s, NEW x, Stands(s, x)
      PROVE  s \in processed /\ x[1] \in Nat /\ x[2] \in Nat /\ Seg(s).len \in Nat /\ x[2] = x[1] + Seg(s).len
  <2>1. PICK c \in Classes : \E i \in DOMAIN layout.order[c] :
            layout.order[c][i] = s /\ x = <<layout.at[c][i], layout.at[c][i] + Seg(s).len>>
    BY <1>3 DEF Stands
  <2>2. PICK i \in DOMAIN layout.order[c] :
            layout.order[c][i] = s /\ x = <<layout.at[c][i], layout.at[c][i] + Seg(s).len>>
    BY <2>1
  <2>3. s \in processed /\ Seg(s).len \in Nat /\ layout.at[c][i] \in Nat
    BY <1>1, <2>2, SectionLaid
  <2>4. QED BY <2>2, <2>3
<1>4. ASSUME NEW s, NEW t, NEW x, NEW y, Stands(s, x), Stands(t, y)
      PROVE  IF s = t THEN x = y ELSE Apart(x, y)
  <2>1. PICK c \in Classes : \E i \in DOMAIN layout.order[c] :
            layout.order[c][i] = s /\ x = <<layout.at[c][i], layout.at[c][i] + Seg(s).len>>
    BY <1>4 DEF Stands
  <2>2. PICK i \in DOMAIN layout.order[c] :
            layout.order[c][i] = s /\ x = <<layout.at[c][i], layout.at[c][i] + Seg(s).len>>
    BY <2>1
  <2>3. PICK d \in Classes : \E j \in DOMAIN layout.order[d] :
            layout.order[d][j] = t /\ y = <<layout.at[d][j], layout.at[d][j] + Seg(t).len>>
    BY <1>4 DEF Stands
  <2>4. PICK j \in DOMAIN layout.order[d] :
            layout.order[d][j] = t /\ y = <<layout.at[d][j], layout.at[d][j] + Seg(t).len>>
    BY <2>3
  <2>5. PICK a \in Nat, m \in Nat : a = layout.at[c][i] /\ m = Seg(s).len
    BY <1>1, <2>2, SectionLaid
  <2>6. PICK b \in Nat, n \in Nat : b = layout.at[d][j] /\ n = Seg(t).len
    BY <1>1, <2>4, SectionLaid
  <2>7. x = <<a, a + m>> /\ y = <<b, b + n>>
    BY <2>2, <2>4, <2>5, <2>6
  <2>8. Section(s) = c /\ Section(t) = d
    BY <1>1, <2>2, <2>4, SectionLaid
  <2>9. CASE s = t
    <3>1. c = d
      BY <2>8, <2>9
    <3>2. layout.order[c][i] = layout.order[c][j] /\ j \in DOMAIN layout.order[c]
      BY <2>2, <2>4, <2>9, <3>1
    <3>3. i = j
      BY <1>1, <3>2, SectionLaid
    <3>4. QED BY <2>2, <2>4, <2>9, <3>1, <3>3
  <2>10. CASE s # t /\ c = d
    <3>1. j \in DOMAIN layout.order[c] /\ i # j
      BY <2>2, <2>4, <2>10
    <3>2. i \in Nat /\ j \in Nat
      BY <1>1, <3>1, SectionLaid DEF Measured
    <3>3. i < j => a + m <= b
      BY <1>1, <2>2, <2>5, <2>6, <2>10, <3>1, SectionLaid
    <3>4. j < i => b + n <= a
      BY <1>1, <2>4, <2>5, <2>6, <2>10, <3>1, SectionLaid
    <3>5. a + m <= b \/ b + n <= a
      BY <3>1, <3>2, <3>3, <3>4
    <3>6. Apart(x, y)
      BY <2>7, <3>5 DEF Apart
    <3>7. QED BY <2>10, <3>6
  <2>11. CASE s # t /\ c # d
    <3>1. PICK base : base = layout.base
      OBVIOUS
    <3>2. \A k \in Classes : base[k] \in Nat /\ stop[k] \in Nat /\ base[k] <= stop[k]
      BY <1>1, <3>1, SectionLaid
    <3>3. PICK room \in Nat : room = 6 * Cardinality(Jumps)
      <4>1. PICK r \in Nat : r = Cardinality(Jumps)
        BY ImportsFinite
      <4>2. 6 * r \in Nat
        OBVIOUS
      <4>3. QED BY <4>1, <4>2
    <3>4. Follow(base, stop, jumps, room) /\ jumps \in Nat
      BY <1>1, <3>1, <3>3 DEF Standing
    <3>5. stop[c] <= base[d] \/ stop[d] <= base[c]
      BY <2>11, <3>2, <3>4, FollowApart
    <3>6. base[c] <= a /\ a + m <= stop[c]
      BY <1>1, <2>2, <2>5, <3>1, SectionLaid
    <3>7. base[d] <= b /\ b + n <= stop[d]
      BY <1>1, <2>4, <2>6, <3>1, SectionLaid
    <3>8. a + m <= b \/ b + n <= a
      BY <3>2, <3>5, <3>6, <3>7
    <3>9. Apart(x, y)
      BY <2>7, <3>8 DEF Apart
    <3>10. QED BY <2>11, <3>9
  <2>12. QED BY <2>9, <2>10, <2>11
<1>5. QED BY <1>2, <1>3, <1>4

LEMMA JumpsApart ==
  ASSUME BindingOK, TablesOK, PlacedAs(layout)
  PROVE  /\ DOMAIN layout.jumps = Jumps
         /\ \A i \in Jumps : layout.jumps[i] \in Nat
         /\ \A i, j \in Jumps : i # j => layout.jumps[i] + 6 <= layout.jumps[j] \/ layout.jumps[j] + 6 <= layout.jumps[i]
         /\ \A i \in Jumps : \A s, x : Stands(s, x) => Apart(x, <<layout.jumps[i], layout.jumps[i] + 6>>)
<1>1. PICK stop, jumps : Ordered(layout) /\ Standing(layout, stop, jumps)
  BY DEF PlacedAs
<1>2. jumps \in Nat /\ layout.jumps = JumpsFrom(jumps) /\ Jumps \in SUBSET Nat
  BY <1>1, ImportsFinite DEF Standing
<1>3. PICK g : g = layout.jumps
  OBVIOUS
<1>4. PICK rank : rank = [i \in Jumps |-> Cardinality({j \in Jumps : j < i})]
  OBVIOUS
<1>5. DOMAIN g = Jumps /\ \A i \in Jumps : g[i] = jumps + 6 * rank[i]
  BY <1>2, <1>3, <1>4 DEF JumpsFrom
<1>6. PICK m \in Nat : m = Cardinality(Jumps)
  BY ImportsFinite
<1>7. /\ \A i \in Jumps : rank[i] \in Nat /\ rank[i] + 1 <= m
      /\ \A i, k \in Jumps : i < k => rank[i] + 1 <= rank[k]
  BY <1>4, <1>6, JumpRank
<1>8. ASSUME NEW i \in Jumps PROVE g[i] \in Nat /\ jumps <= g[i] /\ g[i] + 6 <= jumps + 6 * m
  <2>1. PICK r \in Nat : r = rank[i] /\ r + 1 <= m
    BY <1>7
  <2>2. g[i] = jumps + 6 * r
    BY <1>5, <2>1
  <2>3. QED BY <1>2, <2>1, <2>2
<1>9. ASSUME NEW i \in Jumps, NEW j \in Jumps, i < j PROVE g[i] + 6 <= g[j]
  <2>1. PICK p \in Nat : p = rank[i]
    BY <1>7
  <2>2. PICK q \in Nat : q = rank[j]
    BY <1>7
  <2>3. p + 1 <= q
    BY <1>7, <1>9, <2>1, <2>2
  <2>4. g[i] = jumps + 6 * p /\ g[j] = jumps + 6 * q
    BY <1>5, <2>1, <2>2
  <2>5. QED BY <1>2, <2>3, <2>4
<1>10. ASSUME NEW i \in Jumps, NEW j \in Jumps, i # j PROVE g[i] + 6 <= g[j] \/ g[j] + 6 <= g[i]
  <2>1. i < j \/ j < i
    BY <1>2, <1>10
  <2>2. QED BY <1>9, <2>1
<1>11. ASSUME NEW i \in Jumps, NEW s, NEW x, Stands(s, x) PROVE Apart(x, <<g[i], g[i] + 6>>)
  <2>1. PICK c \in Classes : \E k \in DOMAIN layout.order[c] :
            layout.order[c][k] = s /\ x = <<layout.at[c][k], layout.at[c][k] + Seg(s).len>>
    BY <1>11 DEF Stands
  <2>2. PICK k \in DOMAIN layout.order[c] :
            layout.order[c][k] = s /\ x = <<layout.at[c][k], layout.at[c][k] + Seg(s).len>>
    BY <2>1
  <2>3. PICK a \in Nat, n \in Nat : a = layout.at[c][k] /\ n = Seg(s).len
    BY <1>1, <2>2, SectionLaid
  <2>4. x = <<a, a + n>>
    BY <2>2, <2>3
  <2>5. PICK base : base = layout.base
    OBVIOUS
  <2>6. \A d \in Classes : base[d] \in Nat /\ stop[d] \in Nat /\ base[d] <= stop[d]
    BY <1>1, <2>5, SectionLaid
  <2>7. PICK room \in Nat : room = 6 * m
    <3>1. 6 * m \in Nat
      OBVIOUS
    <3>2. QED BY <3>1
  <2>8. Follow(base, stop, jumps, room)
    BY <1>1, <1>6, <2>5, <2>7 DEF Standing
  <2>9. stop[c] <= jumps \/ jumps + room <= base[c]
    BY <1>2, <2>6, <2>8, FollowApart
  <2>10. base[c] <= a /\ a + n <= stop[c]
    BY <1>1, <2>2, <2>3, <2>5, SectionLaid
  <2>11. PICK b \in Nat : b = g[i] /\ jumps <= b /\ b + 6 <= jumps + room
    BY <1>8, <2>7
  <2>12. a + n <= b \/ b + 6 <= a
    BY <1>2, <2>6, <2>9, <2>10, <2>11
  <2>13. QED BY <2>4, <2>11, <2>12 DEF Apart
<1>12. QED BY <1>3, <1>5, <1>8, <1>10, <1>11

\* An extent is the place of a segment that is not empty, or of a jump.
Long == {s \in processed : Seg(s).len > 0}

LEMMA ExtentsShape ==
  ASSUME BindingOK, TablesOK, PlacedAs(layout)
  PROVE  \A x : x \in Extents <=> \/ \E s \in Long : Stands(s, x)
                                  \/ \E i \in Jumps : x = <<layout.jumps[i], layout.jumps[i] + 6>>
<1>1. PICK stop, jumps : Ordered(layout) /\ Standing(layout, stop, jumps)
  BY DEF PlacedAs
<1>2. PICK X : X = UNION {{<<layout.at[c][i], layout.at[c][i] + Seg(layout.order[c][i]).len>> :
                           i \in {j \in DOMAIN layout.order[c] : Seg(layout.order[c][j]).len > 0}} : c \in Classes}
  OBVIOUS
<1>3. PICK Y : Y = {<<a, a + JumpSize>> : a \in ToSet(layout.jumps)}
  OBVIOUS
<1>4. Extents = X \cup Y
  BY <1>2, <1>3 DEF Extents
<1>5. ASSUME NEW x PROVE x \in X <=> \E s \in Long : Stands(s, x)
  <2>1. ASSUME x \in X PROVE \E s \in Long : Stands(s, x)
    <3>1. PICK c \in Classes : \E i \in DOMAIN layout.order[c] :
              /\ Seg(layout.order[c][i]).len > 0
              /\ x = <<layout.at[c][i], layout.at[c][i] + Seg(layout.order[c][i]).len>>
      BY <1>2, <2>1
    <3>2. PICK i \in DOMAIN layout.order[c] :
              /\ Seg(layout.order[c][i]).len > 0
              /\ x = <<layout.at[c][i], layout.at[c][i] + Seg(layout.order[c][i]).len>>
      BY <3>1
    <3>3. PICK s : s = layout.order[c][i]
      OBVIOUS
    <3>4. s \in Long
      BY <1>1, <3>2, <3>3, SectionLaid DEF Long
    <3>5. Stands(s, x)
      BY <3>2, <3>3 DEF Stands
    <3>6. QED BY <3>4, <3>5
  <2>2. ASSUME NEW s \in Long, Stands(s, x) PROVE x \in X
    <3>1. PICK c \in Classes : \E i \in DOMAIN layout.order[c] :
              layout.order[c][i] = s /\ x = <<layout.at[c][i], layout.at[c][i] + Seg(s).len>>
      BY <2>2 DEF Stands
    <3>2. PICK i \in DOMAIN layout.order[c] :
              layout.order[c][i] = s /\ x = <<layout.at[c][i], layout.at[c][i] + Seg(s).len>>
      BY <3>1
    <3>3. Seg(layout.order[c][i]).len > 0
      BY <3>2 DEF Long
    <3>4. QED BY <1>2, <3>2, <3>3
  <2>3. QED BY <2>1, <2>2
<1>6. ASSUME NEW x PROVE x \in Y <=> \E i \in Jumps : x = <<layout.jumps[i], layout.jumps[i] + 6>>
  <2>1. PICK g : g = layout.jumps
    OBVIOUS
  <2>2. DOMAIN g = Jumps
    BY <2>1, JumpsApart
  <2>3. ToSet(g) = {g[i] : i \in Jumps}
    BY <2>2 DEF ToSet
  <2>4. QED BY <1>3, <2>1, <2>3 DEF JumpSize
<1>7. QED BY <1>4, <1>5, <1>6

\* As many as the segments that are not empty and the jumps.
LEMMA ExtentsCounted ==
  ASSUME BindingOK, TablesOK, PlacedAs(layout)
  PROVE  Cardinality(Extents) = Cardinality(Long) + Cardinality(Jumps)
<1>1. PICK X : X = {x \in Extents : \E s \in Long : Stands(s, x)}
  OBVIOUS
<1>2. PICK Y : Y = {x \in Extents : \E i \in Jumps : x = <<layout.jumps[i], layout.jumps[i] + 6>>}
  OBVIOUS
<1>3. Extents = X \cup Y
  BY <1>1, <1>2, ExtentsShape
<1>4. IsFiniteSet(Long)
  <2>1. PICK all \in Seq(Pairs) : all = AllSegments
    BY AllSegmentsShape DEF BindingOK
  <2>2. IsFiniteSet(ToSet(all))
    BY ListFinite
  <2>3. Long \in SUBSET ToSet(all)
    BY <2>1, AllSegmentsShape DEF Long, TablesOK, BindingOK
  <2>4. QED BY <2>2, <2>3, FS_Subset
<1>5. IsFiniteSet(X) /\ Cardinality(X) = Cardinality(Long)
  <2>1. PICK f : f = [s \in Long |-> CHOOSE x : Stands(s, x)]
    OBVIOUS
  <2>2. \A s \in Long : Stands(s, f[s])
    <3>1. \A s \in Long : \E x : Stands(s, x)
      BY StandsShape DEF Long
    <3>2. QED BY <2>1, <3>1
  <2>3. \A s \in Long : \A x : Stands(s, x) => x = f[s]
    BY <2>2, StandsShape
  <2>4. f \in [Long -> X]
    <3>1. \A s \in Long : f[s] \in X
      BY <1>1, <2>2, ExtentsShape
    <3>2. QED BY <2>1, <3>1
  <2>5. \A x \in X : \E s \in Long : f[s] = x
    BY <1>1, <2>3
  <2>6. ASSUME NEW s \in Long, NEW t \in Long, f[s] = f[t] PROVE s = t
    <3>1. PICK x : x = f[s]
      OBVIOUS
    <3>2. Stands(s, x) /\ Stands(t, x)
      BY <2>2, <2>6, <3>1
    <3>3. x[1] \in Nat /\ x[2] \in Nat /\ x[1] < x[2]
      <4>1. Seg(s).len > 0
        BY DEF Long
      <4>2. QED BY <3>2, <4>1, StandsShape
    <3>4. ~Apart(x, x)
      BY <3>3 DEF Apart
    <3>5. QED BY <3>2, <3>4, StandsShape
  <2>7. QED BY <1>4, <2>4, <2>5, <2>6, ImageCount
<1>6. IsFiniteSet(Y) /\ Cardinality(Y) = Cardinality(Jumps)
  <2>1. PICK g : g = layout.jumps
    OBVIOUS
  <2>2. PICK f : f = [i \in Jumps |-> <<g[i], g[i] + 6>>]
    OBVIOUS
  <2>3. f \in [Jumps -> Y]
    <3>1. \A i \in Jumps : f[i] \in Y
      BY <1>2, <2>1, <2>2, ExtentsShape
    <3>2. QED BY <2>2, <3>1
  <2>4. \A x \in Y : \E i \in Jumps : f[i] = x
    BY <1>2, <2>1, <2>2
  <2>5. ASSUME NEW i \in Jumps, NEW j \in Jumps, f[i] = f[j] PROVE i = j
    <3>1. g[i] = g[j]
      BY <2>2, <2>5
    <3>2. PICK a \in Nat : a = g[i]
      BY <2>1, JumpsApart
    <3>3. ~(a + 6 <= a)
      OBVIOUS
    <3>4. QED BY <2>1, <3>1, <3>2, <3>3, JumpsApart
  <2>6. QED BY <2>3, <2>4, <2>5, ImportsFinite, ImageCount
<1>7. X \cap Y = {}
  <2>1. ASSUME NEW x, x \in X, x \in Y PROVE FALSE
    <3>1. PICK s \in Long : Stands(s, x)
      BY <1>1, <2>1
    <3>2. PICK i \in Jumps : x = <<layout.jumps[i], layout.jumps[i] + 6>>
      BY <1>2, <2>1
    <3>3. Apart(x, x)
      BY <3>1, <3>2, JumpsApart
    <3>4. PICK a \in Nat : a = layout.jumps[i]
      BY JumpsApart
    <3>5. x[1] = a /\ x[2] = a + 6
      BY <3>2, <3>4
    <3>6. QED BY <3>3, <3>5 DEF Apart
  <2>2. QED BY <2>1
<1>8. Cardinality(Extents) = Cardinality(X) + Cardinality(Y) - Cardinality({})
  BY <1>3, <1>5, <1>6, <1>7, FS_Union
<1>9. QED
  <2>1. Cardinality(X) \in Nat /\ Cardinality(Y) \in Nat /\ Cardinality({}) = 0
    BY <1>5, <1>6, FS_CardinalityType, FS_EmptySet
  <2>2. QED BY <1>5, <1>6, <1>8, <2>1

LEMMA PlacedText ==
  ASSUME BindingOK, TablesOK, PlacedOK
  PROVE  TextIsPlaced
<1> SUFFICES ASSUME phase = "done" PROVE TextIsPlaced
  BY DEF TextIsPlaced, PlacedOK
<1>0. PlacedAs(layout) /\ Texted(layout)
  BY DEF PlacedOK
<1>1. PICK stop, jumps : Ordered(layout) /\ Standing(layout, stop, jumps)
  BY <1>0 DEF PlacedAs
<1>2. ASSUME NEW x \in Extents, NEW y \in Extents, x # y PROVE x[2] <= y[1] \/ y[2] <= x[1]
  <2>1. CASE \E s \in Long : Stands(s, x)
    <3>1. PICK s \in Long : Stands(s, x)
      BY <2>1
    <3>2. CASE \E t \in Long : Stands(t, y)
      BY <1>0, <1>2, <3>1, <3>2, StandsShape DEF Apart
    <3>3. CASE \E i \in Jumps : y = <<layout.jumps[i], layout.jumps[i] + 6>>
      BY <1>0, <3>1, <3>3, JumpsApart DEF Apart
    <3>4. QED BY <1>0, <3>2, <3>3, ExtentsShape
  <2>2. CASE \E i \in Jumps : x = <<layout.jumps[i], layout.jumps[i] + 6>>
    <3>1. PICK i \in Jumps : x = <<layout.jumps[i], layout.jumps[i] + 6>>
      BY <2>2
    <3>2. CASE \E t \in Long : Stands(t, y)
      <4>1. Apart(y, x)
        BY <1>0, <3>1, <3>2, JumpsApart
      <4>2. QED BY <4>1 DEF Apart
    <3>3. CASE \E j \in Jumps : y = <<layout.jumps[j], layout.jumps[j] + 6>>
      <4>1. PICK j \in Jumps : y = <<layout.jumps[j], layout.jumps[j] + 6>>
        BY <3>3
      <4>2. i # j
        BY <1>2, <3>1, <4>1
      <4>3. layout.jumps[i] + 6 <= layout.jumps[j] \/ layout.jumps[j] + 6 <= layout.jumps[i]
        BY <1>0, <4>2, JumpsApart
      <4>4. QED BY <3>1, <4>1, <4>3
    <3>4. QED BY <1>0, <3>2, <3>3, ExtentsShape
  <2>3. QED BY <1>0, <2>1, <2>2, ExtentsShape
<1>3. ASSUME NEW s \in processed PROVE Cardinality({c \in Classes : s \in ToSet(layout.order[c])}) = 1
  <2>1. \A c \in Classes : s \in ToSet(layout.order[c]) <=> Section(s) = c
    BY <1>1 DEF Ordered
  <2>2. {c \in Classes : s \in ToSet(layout.order[c])} = {Section(s)}
    BY <2>1, SectionShape
  <2>3. QED BY <2>2, FS_Singleton
<1>4. Cardinality(Extents) = Cardinality({s \in processed : Seg(s).len > 0}) + Cardinality(Jumps)
  BY <1>0, ExtentsCounted DEF Long
<1>5. ASSUME NEW c \in Classes, NEW i \in DOMAIN layout.order[c]
      PROVE  layout.at[c][i] % Seg(layout.order[c][i]).align = 0
  BY <1>1, SectionLaid
<1>6. ASSUME NEW c \in Classes \ {"BSS"}, StartsAligned(c)
      PROVE  layout.text[c] = [i \in DOMAIN layout.order[c] |-> layout.at[c][i] - layout.base[c]]
  <2>1. PICK segs : segs = layout.order[c] /\ Measured(segs)
    BY <1>1, SectionLaid
  <2>2. PICK b \in Nat : b = layout.base[c]
    BY <1>1, SectionLaid
  <2>3. Laid(segs, b, layout.at[c], stop[c])
    BY <1>1, <2>1, <2>2 DEF Standing
  <2>4. PICK last : Laid(segs, 0, layout.text[c], last)
    BY <1>0, <2>1 DEF Texted
  <2>5. \A i \in DOMAIN segs : b % Seg(segs[i]).align = 0
    BY <1>6, <2>1, <2>2 DEF StartsAligned, ToSet
  <2>6. PICK at, text, e : at = layout.at[c] /\ text = layout.text[c] /\ e = stop[c]
    OBVIOUS
  <2>7. text = [i \in DOMAIN segs |-> at[i] - b]
    BY <2>1, <2>3, <2>4, <2>5, <2>6, LaidAbove
  <2>8. QED BY <2>1, <2>2, <2>6, <2>7
<1>7. TextFitsAligned
  BY DEF PlacedOK
<1>8. QED BY <1>2, <1>3, <1>4, <1>5, <1>6, <1>7 DEF TextIsPlaced

\* Segments and jumps do not overlap, each segment that is linked stands once
\* and aligned, and its text fits into the image and stands where its address
\* says in a section that begins where each of its segments might
\* (struct.cpp:1367-1501, CalcAddress and its callers, and struct.cpp:1745-1834,
\* CreateImages with the assertion of 1765).
THEOREM Placed == Spec => []TextIsPlaced
<1>1. BindingOK /\ TablesOK /\ PlacedOK => TextIsPlaced
  BY PlacedText
<1>2. QED BY <1>1, PlacedInv, PTL

-----------------------------------------------------------------------------
(* The count of the fixups *)

Distinct(st) == \A i, j \in DOMAIN st : st[i].seg = st[j].seg => i = j
Waits(st, s, j) == \E c \in ToSet(st) : c.seg = s /\ c.at <= j
Addressed(s, j) ==
  /\ j \in DOMAIN files[s[1]].segs[s[2]].fixups
  /\ files[s[1]].segs[s[2]].fixups[j].address

\* The fixups that are counted and that no call of st has before it.
PassedBy(st) == {p \in Pairs \X Nat : /\ p[1] \in FromFiles(processed) /\ Addressed(p[1], p[2])
                                      /\ ~Waits(st, p[1], p[2])}
Passed == PassedBy(stack)
CountedOK == Distinct(stack) /\ IsFiniteSet(Passed) /\ nfixups = Cardinality(Passed)

ByName == (\A i \in DOMAIN exports : exports[i].seg = Null) /\ NoFixupWithoutText
CountOK ==
  /\ Idle => nfixups = 0
  /\ Linking \/ phase = "order" => errors \in Nat /\ (errors = 0 => undefs = {})
  /\ ByName /\ errors = 0 /\ (Linking \/ phase = "order") => CountedOK
  /\ phase \in {"order", "image"} => stack = <<>>
  /\ ByName /\ phase = "image" => /\ IsFiniteSet(Passed)
                                  /\ nfixups = Cardinality(Passed) + Cardinality(Jumps)
  /\ ByName => phase # "miscounted"

LEMMA TailDistinct ==
  ASSUME stack \in Seq(Calls), stack # <<>>, Distinct(stack)
  PROVE  Distinct(Tail(stack)) /\ \A c \in ToSet(Tail(stack)) : c.seg # Caller.seg
<1>1. PICK n \in Nat : n = Len(stack) /\ n # 0 /\ DOMAIN stack = 1..n
  BY EmptySeq
<1>2. PICK t \in Seq(Calls) : t = Tail(stack) /\ Len(t) = n - 1 /\ \A i \in 1..n - 1 : t[i] = stack[i + 1]
  <2>1. /\ Tail(stack) \in Seq(Calls) /\ Len(Tail(stack)) = Len(stack) - 1
        /\ \A i \in 1..Len(stack) - 1 : Tail(stack)[i] = stack[i + 1]
    BY EmptySeq, HeadTailProperties
  <2>2. QED BY <1>1, <2>1
<1>3. DOMAIN t = 1..n - 1
  BY <1>2
<1>4. \A i \in 1..n - 1 : i + 1 \in 1..n /\ i + 1 # 1
  BY <1>1
<1>5. 1 \in 1..n /\ Caller = stack[1]
  BY <1>1 DEF Caller
<1>6. ASSUME NEW i \in 1..n - 1, NEW j \in 1..n - 1, t[i].seg = t[j].seg PROVE i = j
  <2>1. i + 1 = j + 1
    BY <1>1, <1>2, <1>4, <1>6 DEF Distinct
  <2>2. QED BY <2>1
<1>7. ASSUME NEW c \in ToSet(t) PROVE c.seg # Caller.seg
  <2>1. PICK i \in 1..n - 1 : t[i] = c
    BY <1>3 DEF ToSet
  <2>2. QED BY <1>1, <1>2, <1>4, <1>5, <2>1 DEF Distinct
<1>8. QED BY <1>2, <1>3, <1>6, <1>7 DEF Distinct

LEMMA ConsDistinct ==
  ASSUME NEW c \in Calls, NEW rest \in Seq(Calls), Distinct(rest), \A b \in ToSet(rest) : b.seg # c.seg
  PROVE  Distinct(<<c>> \o rest)
<1>1. PICK n \in Nat : n = Len(rest) /\ DOMAIN rest = 1..n
  OBVIOUS
<1>2. PICK t : t = <<c>> \o rest
  OBVIOUS
<1>3. DOMAIN t = 1..n + 1 /\ \A i \in 1..n + 1 : t[i] = IF i = 1 THEN c ELSE rest[i - 1]
  BY <1>1, <1>2
<1>4. \A i \in 1..n + 1 : i # 1 => i - 1 \in 1..n
  BY <1>1
<1>5. \A i \in 1..n : rest[i] \in ToSet(rest)
  BY <1>1 DEF ToSet
<1>6. ASSUME NEW i \in 1..n + 1, NEW j \in 1..n + 1, t[i].seg = t[j].seg PROVE i = j
  <2>1. CASE i = 1 /\ j # 1
    BY <1>3, <1>4, <1>5, <1>6, <2>1
  <2>2. CASE i # 1 /\ j = 1
    BY <1>3, <1>4, <1>5, <1>6, <2>2
  <2>3. CASE i # 1 /\ j # 1
    <3>1. i - 1 \in DOMAIN rest /\ j - 1 \in DOMAIN rest /\ rest[i - 1].seg = rest[j - 1].seg
      BY <1>1, <1>3, <1>4, <1>6, <2>3
    <3>2. i - 1 = j - 1
      BY <3>1 DEF Distinct
    <3>3. QED BY <3>2
  <2>4. QED BY <2>1, <2>2, <2>3
<1>7. QED BY <1>2, <1>3, <1>6 DEF Distinct

LEMMA OnwardDistinct ==
  ASSUME stack \in Seq(Calls), stack # <<>>, Distinct(stack)
  PROVE  Distinct(Onward)
<1>1. Caller \in Calls /\ Tail(stack) \in Seq(Calls)
  BY StackShape
<1>2. PICK c : c = [Caller EXCEPT !.at = @ + 1]
  OBVIOUS
<1>3. c \in Calls /\ c.seg = Caller.seg
  <2>1. PICK u \in Nat \X Nat, v \in Nat \ {0} : Caller = [seg |-> u, at |-> v]
    BY <1>1 DEF Calls
  <2>2. c = [seg |-> u, at |-> v + 1]
    BY <1>2, <2>1
  <2>3. QED BY <2>1, <2>2 DEF Calls
<1>4. Distinct(Tail(stack)) /\ \A b \in ToSet(Tail(stack)) : b.seg # c.seg
  BY <1>3, TailDistinct
<1>5. PICK rest \in Seq(Calls) : rest = Tail(stack)
  BY <1>1
<1>6. Distinct(<<c>> \o rest)
  BY <1>3, <1>4, <1>5, ConsDistinct
<1>7. Onward = <<c>> \o rest
  BY <1>2, <1>5 DEF Onward
<1>8. QED BY <1>6, <1>7

\* A step that may begin one call, for a segment that is marked with it.
Opens(rest) ==
  \/ stack' = rest /\ FromFiles(processed)' = FromFiles(processed)
  \/ \E t : InFile(t) /\ t \notin processed /\ stack' = Call(t, rest) /\ processed' = processed \cup {t}

LEMMA OpensPassed ==
  ASSUME FilesOK, StackOK, files' = files, NEW rest \in Seq(Calls), Opens(rest), Distinct(rest),
         \A c \in ToSet(rest) : c.seg \in processed
  PROVE  Passed' = PassedBy(rest) /\ Distinct(stack')
<1>1. PICK st : st = stack'
  OBVIOUS
<1>2. \A s, j : Addressed(s, j)' <=> Addressed(s, j)
  BY DEF Addressed
<1>3. Passed' = {p \in Pairs \X Nat : /\ p[1] \in FromFiles(processed)' /\ Addressed(p[1], p[2])
                                      /\ ~Waits(st, p[1], p[2])}
  BY <1>1, <1>2 DEF Passed, PassedBy, Waits, Pairs
<1>4. CASE stack' = rest /\ FromFiles(processed)' = FromFiles(processed)
  BY <1>1, <1>3, <1>4 DEF PassedBy
<1>5. ASSUME NEW t, InFile(t), t \notin processed, stack' = Call(t, rest), processed' = processed \cup {t}
      PROVE  Passed' = PassedBy(rest) /\ Distinct(stack')
  <2>1. t \in Nat \X Nat /\ t[1] # 0
    BY <1>5, SegmentFacts
  <2>2. PICK c : c = [seg |-> t, at |-> 1]
    OBVIOUS
  <2>3. c \in Calls /\ c.seg = t /\ c.at = 1 /\ st = <<c>> \o rest
    BY <1>1, <1>5, <2>1, <2>2 DEF Calls, Call
  <2>4. ToSet(st) = {c} \cup ToSet(rest)
    BY <2>3, ConsMembers
  <2>5. Distinct(st)
    <3>1. \A b \in ToSet(rest) : b.seg # c.seg
      BY <1>5, <2>3
    <3>2. QED BY <2>3, <3>1, ConsDistinct
  <2>6. FromFiles(processed)' = FromFiles(processed) \cup {t}
    BY <1>5, <2>1 DEF FromFiles
  <2>7. \A s : s \in FromFiles(processed) => s # t
    BY <1>5 DEF FromFiles
  <2>8. ASSUME NEW j, Addressed(t, j) PROVE Waits(st, t, j)
    <3>1. j \in Nat \ {0}
      BY <1>5, <2>8, FixupFacts DEF Addressed
    <3>2. 1 <= j
      BY <3>1
    <3>3. QED BY <2>3, <2>4, <3>2 DEF Waits
  <2>9. \A s, j : s # t => (Waits(st, s, j) <=> Waits(rest, s, j))
    BY <2>3, <2>4 DEF Waits
  <2>10. \A s, j : s \in FromFiles(processed)' /\ Addressed(s, j) /\ ~Waits(st, s, j)
                   <=> s \in FromFiles(processed) /\ Addressed(s, j) /\ ~Waits(rest, s, j)
    BY <2>6, <2>7, <2>8, <2>9
  <2>11. Passed' = PassedBy(rest)
    BY <1>3, <2>10 DEF PassedBy
  <2>12. QED BY <1>1, <2>5, <2>11
<1>6. QED BY <1>4, <1>5 DEF Opens

\* Going on behind a fixup passes that one and no other.
LEMMA OnwardPassed ==
  ASSUME FilesOK, StackOK, AtFixup, Distinct(stack)
  PROVE  LET p == <<Caller.seg, Caller.at>>
         IN  /\ p \notin Passed
             /\ PassedBy(Onward) = IF CurrentFixup.address THEN Passed \cup {p} ELSE Passed
<1>1. stack \in Seq(Calls) /\ stack # <<>>
  BY DEF AtFixup, StackOK
<1>2. PICK u \in Pairs, v \in Nat \ {0} : Caller = [seg |-> u, at |-> v]
  BY <1>1, StackShape DEF Calls, Pairs
<1>3. Caller.seg = u /\ Caller.at = v
  BY <1>2
<1>4. ToSet(stack) = {Caller} \cup ToSet(Tail(stack))
  BY <1>1, StackShape
<1>5. PICK c : c = [seg |-> u, at |-> v + 1]
  OBVIOUS
<1>6. ToSet(Onward) = {c} \cup ToSet(Tail(stack)) /\ c.seg = u /\ c.at = v + 1
  BY <1>1, <1>3, <1>5, OnwardShape
<1>7. \A b \in ToSet(Tail(stack)) : b.seg # u
  BY <1>1, <1>3, TailDistinct
<1>8. InFile(u) /\ u \in FromFiles(processed) /\ Seg(u) = files[u[1]].segs[u[2]]
  <2>1. InFile(u) /\ u \in processed
    BY <1>3, <1>4 DEF StackOK
  <2>2. QED BY <2>1, SegmentFacts DEF FromFiles
<1>9. CurrentFixup = files[u[1]].segs[u[2]].fixups[v] /\ v \in DOMAIN files[u[1]].segs[u[2]].fixups
  <2>1. PICK fixups \in Seq(Fixups) : fixups = files[u[1]].segs[u[2]].fixups
    BY <1>8, SegmentFacts
  <2>2. Seg(u).fixups = fixups
    BY <1>8, <2>1
  <2>3. v <= Len(fixups) /\ CurrentFixup = fixups[v]
    BY <1>3, <2>2 DEF AtFixup, CurrentFixup
  <2>4. v \in DOMAIN fixups
    BY <2>3
  <2>5. QED BY <2>1, <2>3, <2>4
<1>10. Addressed(u, v) <=> CurrentFixup.address
  BY <1>9 DEF Addressed
<1>11. \A s, j : s # u => (Waits(stack, s, j) <=> Waits(Onward, s, j))
  BY <1>3, <1>4, <1>6 DEF Waits
<1>12. \A j : (Waits(stack, u, j) <=> v <= j) /\ (Waits(Onward, u, j) <=> v + 1 <= j)
  BY <1>3, <1>4, <1>6, <1>7 DEF Waits
<1>13. \A j \in Nat : (~(v + 1 <= j) <=> ~(v <= j) \/ j = v) /\ ~(~(v <= v))
  OBVIOUS
<1>14. <<u, v>> \notin Passed
  BY <1>12, <1>13 DEF Passed, PassedBy
<1>15. ASSUME NEW s, NEW j \in Nat
       PROVE  s \in FromFiles(processed) /\ Addressed(s, j) /\ ~Waits(Onward, s, j)
              <=> \/ s \in FromFiles(processed) /\ Addressed(s, j) /\ ~Waits(stack, s, j)
                  \/ CurrentFixup.address /\ s = u /\ j = v
  <2>1. CASE s = u
    BY <1>8, <1>10, <1>12, <1>13, <2>1
  <2>2. CASE s # u
    BY <1>11, <2>2
  <2>3. QED BY <2>1, <2>2
<1>16. PassedBy(Onward) = IF CurrentFixup.address THEN Passed \cup {<<u, v>>} ELSE Passed
  <2>1. ASSUME NEW p \in Pairs \X Nat
        PROVE  p \in PassedBy(Onward) <=> p \in Passed \/ (CurrentFixup.address /\ p = <<u, v>>)
    <3>1. p = <<p[1], p[2]>> /\ p[2] \in Nat
      OBVIOUS
    <3>2. p = <<u, v>> <=> p[1] = u /\ p[2] = v
      BY <3>1
    <3>3. QED BY <1>15, <3>1, <3>2 DEF Passed, PassedBy
  <2>2. <<u, v>> \in Pairs \X Nat
    OBVIOUS
  <2>3. PassedBy(Onward) \subseteq Pairs \X Nat /\ Passed \subseteq Pairs \X Nat
    BY DEF Passed, PassedBy
  <2>4. QED BY <2>1, <2>2, <2>3
<1>17. QED BY <1>3, <1>14, <1>16

LEMMA ByNameSame ==
  ASSUME UNCHANGED <<files, exports>>
  PROVE  ByName' <=> ByName
BY DEF ByName, NoFixupWithoutText

LEMMA FollowOpens ==
  ASSUME BindingOK, StackOK, files' = files, NEW n \in Names, NEW rest, FollowsName(n, rest)
  PROVE  Opens(rest)
<1>1. CASE ToDefined(n, rest)
  <2>1. Defined(n) /\ CollectOnce(names[n].seg, rest)
    BY <1>1 DEF ToDefined
  <2>2. InFile(names[n].seg) \/ names[n].seg \in processed
    BY <2>1 DEF BindingOK, NamesOK, NameOK, Defined
  <2>3. PICK t : t = names[n].seg
    OBVIOUS
  <2>4. CASE t \in processed
    BY <2>1, <2>3, <2>4 DEF CollectOnce, Opens
  <2>5. CASE t \notin processed
    BY <2>1, <2>2, <2>3, <2>5 DEF CollectOnce, CollectSegments, Opens
  <2>6. QED BY <2>4, <2>5
<1>2. CASE ToCommon(n, rest)
  <2>1. stack' = rest /\ processed' = processed \cup {<<0, Len(commons')>>}
    BY <1>2 DEF ToCommon, createSegment
  <2>2. FromFiles(processed)' = FromFiles(processed)
    BY <2>1 DEF FromFiles
  <2>3. QED BY <2>1, <2>2 DEF Opens
<1>3. CASE stack' = rest /\ processed' = processed
  BY <1>3 DEF Opens, FromFiles
<1>4. QED BY <1>1, <1>2, <1>3 DEF FollowsName, ToImport, ToNothing

\* A name that is not bound is an error.
LEMMA ErrorsFollow ==
  ASSUME errors \in Nat, errors = 0 => undefs = {}, NEW n, NEW rest, Resolve(n, rest) \/ CollectName(n, rest)
  PROVE  /\ errors' \in Nat /\ (errors' = 0 => errors = 0 /\ undefs' = {})
         /\ errors' = 0 => ~ToNothing(n, rest)
<1>1. CASE ToNothing(n, rest)
  <2>1. undefs' = undefs \cup {n} /\ errors' = IF n \in undefs THEN errors ELSE errors + 1
    BY <1>1 DEF ToNothing, Undefined
  <2>2. errors' \in Nat /\ errors' # 0
    BY <2>1
  <2>3. QED BY <2>2
<1>2. CASE UNCHANGED <<errors, undefs>> /\ ~ToNothing(n, rest)
  BY <1>2
<1>3. QED BY <1>1, <1>2 DEF Resolve, CollectName, ToDefined, ToCommon, ToImport, ToNowhere

LEMMA CountGoesOn ==
  ASSUME CountOK, Linking, phase' \in {"roots", "all"}, UNCHANGED <<files, exports>>,
         errors' \in Nat, errors' = 0 => errors = 0 /\ undefs' = {},
         ByName /\ errors' = 0 /\ CountedOK => CountedOK'
  PROVE  CountOK'
<1>1. ByName' => ByName
  BY ByNameSame
<1>2. ByName' /\ errors' = 0 => CountedOK'
  BY <1>1 DEF CountOK
<1>3. QED BY <1>2 DEF CountOK, Idle, Linking

LEMMA CountFails ==
  ASSUME CountOK, phase' \in {"asserted", "hung", "failed"}
  PROVE  CountOK'
BY DEF CountOK, Idle, Linking

LEMMA OpensCounted ==
  ASSUME FilesOK, StackOK, CountedOK, files' = files, NEW rest \in Seq(Calls), Opens(rest), Distinct(rest),
         \A c \in ToSet(rest) : c.seg \in processed, nfixups' = nfixups, PassedBy(rest) = Passed
  PROVE  CountedOK'
<1>1. Passed' = Passed /\ Distinct(stack')
  BY OpensPassed
<1>2. QED BY <1>1 DEF CountedOK, Distinct

\* A step that begins from nothing, or leaves the calls there are.
LEMMA AgainCounted ==
  ASSUME FilesOK, StackOK, CountedOK, files' = files, Opens(stack), nfixups' = nfixups
  PROVE  CountedOK'
<1>1. PICK rest \in Seq(Calls) : rest = stack
  BY DEF StackOK
<1>2. Opens(rest) /\ Distinct(rest) /\ PassedBy(rest) = Passed /\ \A c \in ToSet(rest) : c.seg \in processed
  BY <1>1 DEF CountedOK, Passed, StackOK
<1>3. QED BY <1>2, OpensCounted

LEMMA FixupCounted ==
  ASSUME FilesOK, StackOK, CountedOK, files' = files, AtFixup, Opens(Onward),
         nfixups' = IF CurrentFixup.address THEN nfixups + 1 ELSE nfixups
  PROVE  CountedOK'
<1>1. stack \in Seq(Calls) /\ stack # <<>> /\ Distinct(stack)
  BY DEF AtFixup, StackOK, CountedOK
<1>2. PICK rest \in Seq(Calls) : rest = Onward
  BY <1>1, OnwardShape
<1>3. Distinct(rest) /\ Opens(rest)
  BY <1>1, <1>2, OnwardDistinct
<1>4. \A c \in ToSet(rest) : c.seg \in processed
  <2>1. /\ ToSet(stack) = {Caller} \cup ToSet(Tail(stack))
        /\ ToSet(rest) = {[seg |-> Caller.seg, at |-> Caller.at + 1]} \cup ToSet(Tail(stack))
    BY <1>1, <1>2, StackShape, OnwardShape
  <2>2. QED BY <2>1 DEF StackOK
<1>5. Passed' = PassedBy(rest) /\ Distinct(stack')
  BY <1>3, <1>4, OpensPassed
<1>6. PICK p : p = <<Caller.seg, Caller.at>>
  OBVIOUS
<1>7. p \notin Passed /\ PassedBy(rest) = IF CurrentFixup.address THEN Passed \cup {p} ELSE Passed
  BY <1>1, <1>2, <1>6, OnwardPassed
<1>8. PICK P : P = Passed
  OBVIOUS
<1>9. IsFiniteSet(P) /\ nfixups = Cardinality(P) /\ IsFiniteSet(P \cup {p}) /\ Cardinality(P \cup {p}) = Cardinality(P) + 1
  BY <1>7, <1>8, FS_AddElement DEF CountedOK
<1>10. IsFiniteSet(Passed') /\ nfixups' = Cardinality(Passed')
  BY <1>5, <1>7, <1>8, <1>9
<1>11. QED BY <1>5, <1>10 DEF CountedOK, Distinct

LEMMA FixupToNameCounts ==
  ASSUME BindingOK, CollectingOK, CountOK, FixupToName
  PROVE  CountOK'
<1>1. /\ Linking /\ AtFixup /\ CurrentFixup.name # Null /\ Resolve(CurrentFixup.name, Onward)
      /\ UNCHANGED <<files, exports>>
      /\ nfixups' = IF CurrentFixup.address
                         /\ (Defined(CurrentFixup.name) \/ Kind(CurrentFixup.name) \in Imports \cup {"common"})
                    THEN nfixups + 1 ELSE nfixups
  BY DEF FixupToName
<1>2. FilesOK /\ StackOK
  BY <1>1 DEF BindingOK, CollectingOK
<1>3. PICK n \in Names : n = CurrentFixup.name
  BY <1>1, <1>2, CurrentFixupFacts
<1>4. Resolve(n, Onward)
  BY <1>1, <1>3
<1>5. errors \in Nat /\ (errors = 0 => undefs = {})
  BY <1>1 DEF CountOK
<1>6. errors' \in Nat /\ (errors' = 0 => errors = 0 /\ undefs' = {}) /\ (errors' = 0 => ~ToNothing(n, Onward))
  BY <1>4, <1>5, ErrorsFollow
<1>7. CASE ToNowhere(n)
  BY <1>7, CountFails DEF ToNowhere
<1>8. CASE ~ToNowhere(n)
  <2>1. FollowsName(n, Onward) /\ phase' = phase
    BY <1>4, <1>8 DEF Resolve, FollowsName, ToDefined, ToCommon, ToImport, ToNothing
  <2>2. Opens(Onward)
    BY <1>1, <1>2, <2>1, FollowOpens
  <2>3. ASSUME errors' = 0 PROVE Defined(n) \/ Kind(n) \in Imports \cup {"common"}
    BY <1>4, <1>6, <1>8, <2>3 DEF Resolve, ToDefined, ToCommon, ToImport
  <2>4. ASSUME errors' = 0, CountedOK PROVE CountedOK'
    <3>1. nfixups' = IF CurrentFixup.address THEN nfixups + 1 ELSE nfixups
      BY <1>1, <1>3, <2>3, <2>4
    <3>2. QED BY <1>1, <1>2, <2>2, <2>4, <3>1, FixupCounted
  <2>5. QED BY <1>1, <1>6, <2>1, <2>4, CountGoesOn DEF Linking
<1>9. QED BY <1>7, <1>8

LEMMA FixupToSegmentCounts ==
  ASSUME BindingOK, CollectingOK, CountOK, FixupToSegment
  PROVE  CountOK'
<1>1. /\ Linking /\ AtFixup /\ CurrentFixup.name = Null
      /\ CollectOnce(<<Caller.seg[1], CurrentFixup.own>>, Onward)
      /\ UNCHANGED <<files, exports, errors, undefs, phase>>
      /\ nfixups' = IF CurrentFixup.address THEN nfixups + 1 ELSE nfixups
  BY DEF FixupToSegment, input
<1>2. FilesOK /\ StackOK
  BY <1>1 DEF BindingOK, CollectingOK
<1>3. PICK t : t = <<Caller.seg[1], CurrentFixup.own>>
  OBVIOUS
<1>4. InFile(t)
  BY <1>1, <1>2, <1>3, CurrentFixupFacts
<1>5. Opens(Onward)
  BY <1>1, <1>3, <1>4 DEF CollectOnce, CollectSegments, Opens, FromFiles
<1>6. CountedOK => CountedOK'
  BY <1>1, <1>2, <1>5, FixupCounted
<1>7. errors' \in Nat /\ (errors' = 0 => errors = 0 /\ undefs' = {})
  BY <1>1 DEF CountOK
<1>8. QED BY <1>1, <1>6, <1>7, CountGoesOn DEF Linking

LEMMA DescriptorCounts ==
  ASSUME BindingOK, CollectingOK, CountOK, Descriptor
  PROVE  CountOK'
<1>1. /\ Linking /\ stack # <<>> /\ Seg(Caller.seg).clazz = "IDATA"
      /\ CollectName(files[Caller.seg[1]].extrnl, stack)
      /\ UNCHANGED <<files, exports, nfixups>>
  BY DEF Descriptor
<1>2. FilesOK /\ StackOK
  BY <1>1 DEF BindingOK, CollectingOK
<1>3. InFile(Caller.seg)
  BY <1>1, <1>2, StackShape DEF StackOK
<1>4. files[Caller.seg[1]].extrnl \in Names
  BY <1>1, <1>2, <1>3, SegmentFacts, DescriptorFacts
<1>5. PICK n \in Names : n = files[Caller.seg[1]].extrnl
  BY <1>4
<1>6. CollectName(n, stack) /\ FollowsName(n, stack) /\ phase' = phase
  BY <1>1, <1>5 DEF CollectName, FollowsName, ToDefined, ToCommon, ToNothing
<1>7. Opens(stack)
  BY <1>1, <1>2, <1>6, FollowOpens
<1>8. CountedOK => CountedOK'
  BY <1>1, <1>2, <1>7, AgainCounted
<1>9. errors \in Nat /\ (errors = 0 => undefs = {})
  BY <1>1 DEF CountOK
<1>10. errors' \in Nat /\ (errors' = 0 => errors = 0 /\ undefs' = {})
  BY <1>6, <1>9, ErrorsFollow
<1>11. QED BY <1>1, <1>6, <1>8, <1>10, CountGoesOn DEF Linking

\* A call that returns has no fixup before it.
LEMMA ReturnCounts ==
  ASSUME BindingOK, CollectingOK, CountOK, Return
  PROVE  CountOK'
<1>1. /\ Linking /\ stack # <<>> /\ ~AtFixup /\ stack' = Tail(stack)
      /\ UNCHANGED <<files, exports, errors, undefs, phase, processed, nfixups>>
  BY DEF Return, input
<1>2. FilesOK /\ StackOK /\ stack \in Seq(Calls)
  BY <1>1 DEF BindingOK, CollectingOK, StackOK
<1>3. Caller \in Calls /\ Tail(stack) \in Seq(Calls) /\ ToSet(stack) = {Caller} \cup ToSet(Tail(stack))
  BY <1>1, <1>2, StackShape
<1>4. InFile(Caller.seg) /\ Caller.at \in Nat
  BY <1>2, <1>3 DEF StackOK, Calls
<1>5. ASSUME NEW j \in Nat, Addressed(Caller.seg, j) PROVE ~(Caller.at <= j)
  <2>1. PICK fixups \in Seq(Fixups) : fixups = files[Caller.seg[1]].segs[Caller.seg[2]].fixups
    BY <1>2, <1>4, SegmentFacts
  <2>2. Seg(Caller.seg).fixups = fixups
    BY <1>2, <1>4, <2>1, SegmentFacts
  <2>3. ~(Caller.at <= Len(fixups))
    <3>1. stack # <<>> /\ ~AtFixup
      BY <1>1, Zenon
    <3>2. ~(Caller.at <= Len(Seg(Caller.seg).fixups))
      BY <3>1, Zenon DEF AtFixup
    <3>3. QED BY <2>2, <3>2, Zenon
  <2>4. j \in 1..Len(fixups)
    <3>1. j \in DOMAIN fixups
      BY <1>5, <2>1, Zenon DEF Addressed
    <3>2. QED BY <3>1
  <2>5. QED BY <1>4, <2>3, <2>4
<1>6. PICK rest \in Seq(Calls) : rest = Tail(stack)
  BY <1>3
<1>7. ASSUME CountedOK PROVE CountedOK'
  <2>1. Opens(rest)
    BY <1>1, <1>6 DEF Opens, FromFiles
  <2>2. Distinct(rest)
    BY <1>1, <1>2, <1>6, <1>7, TailDistinct DEF CountedOK
  <2>3. \A c \in ToSet(rest) : c.seg \in processed
    BY <1>2, <1>3, <1>6 DEF StackOK
  <2>4. \A s : \A j \in Nat : Addressed(s, j) => (Waits(stack, s, j) <=> Waits(rest, s, j))
    BY <1>3, <1>5, <1>6 DEF Waits
  <2>5. PassedBy(rest) = Passed
    <3>1. ASSUME NEW p \in Pairs \X Nat
          PROVE  Addressed(p[1], p[2]) => (Waits(stack, p[1], p[2]) <=> Waits(rest, p[1], p[2]))
      BY <2>4
    <3>2. QED BY <3>1 DEF Passed, PassedBy
  <2>6. QED BY <1>1, <1>2, <1>7, <2>1, <2>2, <2>3, <2>5, OpensCounted
<1>8. errors' \in Nat /\ (errors' = 0 => errors = 0 /\ undefs' = {})
  BY <1>1 DEF CountOK
<1>9. QED BY <1>1, <1>7, <1>8, CountGoesOn DEF Linking

LEMMA EntryRootCounts ==
  ASSUME BindingOK, CollectingOK, CountOK, EntryRoot
  PROVE  CountOK'
<1>1. /\ phase = "roots" /\ root = 0 /\ UNCHANGED <<files, exports, nfixups>>
      /\ IF entry # Null THEN Resolve(entry, <<>>)
         ELSE UNCHANGED <<names, commons, stack, processed, used, undefs, errors, phase>>
  BY DEF EntryRoot
<1>2. Linking /\ FilesOK /\ StackOK /\ stack = <<>>
  BY <1>1 DEF BindingOK, CollectingOK, Linking, Rooted
<1>3. errors \in Nat /\ (errors = 0 => undefs = {})
  BY <1>2 DEF CountOK
<1>4. CASE entry = Null
  <2>1. Opens(stack)
    BY <1>1, <1>4 DEF Opens, FromFiles
  <2>2. CountedOK => CountedOK'
    BY <1>1, <1>2, <2>1, AgainCounted
  <2>3. QED BY <1>1, <1>2, <1>3, <1>4, <2>2, CountGoesOn
<1>5. CASE entry # Null
  <2>1. PICK n \in Names : n = entry
    BY <1>5, OptionsAssumption DEF BindingOK
  <2>2. Resolve(n, stack)
    BY <1>1, <1>2, <1>5, <2>1
  <2>3. errors' \in Nat /\ (errors' = 0 => errors = 0 /\ undefs' = {})
    BY <1>3, <2>2, ErrorsFollow
  <2>4. CASE ToNowhere(n)
    BY <2>4, CountFails DEF ToNowhere
  <2>5. CASE ~ToNowhere(n)
    <3>1. FollowsName(n, stack) /\ phase' = phase
      BY <2>2, <2>5 DEF Resolve, FollowsName, ToDefined, ToCommon, ToImport, ToNothing
    <3>2. Opens(stack)
      BY <1>1, <1>2, <3>1, FollowOpens
    <3>3. CountedOK => CountedOK'
      BY <1>1, <1>2, <3>2, AgainCounted
    <3>4. QED BY <1>1, <1>2, <2>3, <3>1, <3>3, CountGoesOn
  <2>6. QED BY <2>4, <2>5
<1>6. QED BY <1>4, <1>5

LEMMA ExportRootCounts ==
  ASSUME BindingOK, CollectingOK, CountOK, ExportRoot
  PROVE  CountOK'
<1>1. PICK e : e = exports[root]
  OBVIOUS
<1>2. /\ phase = "roots" /\ root \in DOMAIN exports /\ stack = <<>> /\ UNCHANGED <<files, exports, nfixups>>
      /\ \/ UNCHANGED <<names, commons, stack, processed, used, undefs, errors, phase>>
         \/ e.seg # Null /\ CollectSegments(e.seg, <<>>) /\ UNCHANGED <<names, commons, used, undefs, errors, phase>>
         \/ CollectName(e.int, <<>>)
  BY <1>1 DEF ExportRoot
<1>3. Linking /\ FilesOK /\ StackOK
  BY <1>2 DEF BindingOK, CollectingOK, Linking
<1>4. errors \in Nat /\ (errors = 0 => undefs = {})
  BY <1>3 DEF CountOK
<1>5. CASE UNCHANGED <<names, commons, stack, processed, used, undefs, errors, phase>>
  <2>1. Opens(stack)
    BY <1>5 DEF Opens, FromFiles
  <2>2. CountedOK => CountedOK'
    BY <1>2, <1>3, <2>1, AgainCounted
  <2>3. QED BY <1>2, <1>3, <1>4, <1>5, <2>2, CountGoesOn
<1>6. CASE e.seg # Null /\ UNCHANGED <<undefs, errors, phase>>
  <2>1. ~ByName
    BY <1>1, <1>2, <1>6 DEF ByName
  <2>2. QED BY <1>2, <1>3, <1>4, <1>6, <2>1, CountGoesOn
<1>7. CASE CollectName(e.int, <<>>)
  <2>1. PICK n \in Names : n = e.int
    BY <1>1, <1>2 DEF BindingOK, AllExportsOK, ExportOK
  <2>2. CollectName(n, stack) /\ FollowsName(n, stack) /\ phase' = phase
    BY <1>2, <1>7, <2>1 DEF CollectName, FollowsName, ToDefined, ToCommon, ToNothing
  <2>3. Opens(stack)
    BY <1>2, <1>3, <2>2, FollowOpens
  <2>4. CountedOK => CountedOK'
    BY <1>2, <1>3, <2>3, AgainCounted
  <2>5. errors' \in Nat /\ (errors' = 0 => errors = 0 /\ undefs' = {})
    BY <1>4, <2>2, ErrorsFollow
  <2>6. QED BY <1>2, <1>3, <2>2, <2>4, <2>5, CountGoesOn
<1>8. QED BY <1>2, <1>5, <1>6, <1>7

LEMMA CollectAllSegmentsCounts ==
  ASSUME BindingOK, CollectingOK, CountOK, CollectAllSegments
  PROVE  CountOK'
<1>1. PICK i : i = CHOOSE k \in Unlinked(file) : \A j \in Unlinked(file) : k <= j
  OBVIOUS
<1>2. /\ phase = "all" /\ stack = <<>> /\ file \in DOMAIN files
      /\ UNCHANGED <<files, exports, errors, undefs, phase, nfixups>>
      /\ \/ UNCHANGED <<stack, processed>>
         \/ Unlinked(file) # {} /\ CollectSegments(<<file, i>>, <<>>)
  BY <1>1 DEF CollectAllSegments, input
<1>3. Linking /\ FilesOK /\ StackOK
  BY <1>2 DEF BindingOK, CollectingOK, Linking
<1>4. Opens(stack)
  <2>1. CASE UNCHANGED <<stack, processed>>
    BY <2>1 DEF Opens, FromFiles
  <2>2. CASE Unlinked(file) # {} /\ CollectSegments(<<file, i>>, <<>>)
    <3>1. Unlinked(file) \in SUBSET Nat
      BY <1>2, <1>3, FileFacts DEF Unlinked
    <3>2. \E j \in Unlinked(file) : \A k \in Unlinked(file) : j <= k
      BY <2>2, <3>1, LeastExists
    <3>3. i \in Unlinked(file)
      BY <1>1, <3>2
    <3>4. PICK t : t = <<file, i>>
      OBVIOUS
    <3>5. InFile(t) /\ t \notin processed
      BY <1>2, <3>3, <3>4 DEF Unlinked, InFile
    <3>6. QED BY <1>2, <2>2, <3>4, <3>5 DEF CollectSegments, Opens
  <2>3. QED BY <1>2, <2>1, <2>2
<1>5. CountedOK => CountedOK'
  BY <1>2, <1>3, <1>4, AgainCounted
<1>6. errors' \in Nat /\ (errors' = 0 => errors = 0 /\ undefs' = {})
  BY <1>2, <1>3 DEF CountOK
<1>7. QED BY <1>2, <1>3, <1>5, <1>6, CountGoesOn

LEMMA PauseCounts ==
  ASSUME BindingOK, CollectingOK, CountOK, RootsCollected \/ PassFile \/ CollectAllAgain
  PROVE  CountOK'
<1>1. /\ Linking /\ stack = <<>> /\ phase' \in {"roots", "all", "order"}
      /\ UNCHANGED <<files, exports, errors, undefs, nfixups, stack, processed>>
  BY DEF RootsCollected, PassFile, CollectAllAgain, Linking, input, search
<1>2. FilesOK /\ StackOK
  BY <1>1 DEF BindingOK, CollectingOK
<1>3. Opens(stack)
  BY <1>1 DEF Opens, FromFiles
<1>4. CountedOK => CountedOK'
  BY <1>1, <1>2, <1>3, AgainCounted
<1>5. ByName' => ByName
  BY <1>1, ByNameSame
<1>6. errors' \in Nat /\ (errors' = 0 => undefs' = {})
  BY <1>1 DEF CountOK
<1>7. ByName' /\ errors' = 0 => CountedOK'
  BY <1>1, <1>4, <1>5 DEF CountOK
<1>8. stack' = <<>>
  BY <1>1
<1>9. QED BY <1>1, <1>6, <1>7, <1>8 DEF CountOK, Idle, Linking

LEMMA PrepareExportCounts ==
  ASSUME BindingOK, CountOK, PrepareExport
  PROVE  CountOK'
<1>1. PICK missing : missing = {exports[i].int : i \in {j \in DOMAIN exports : exports[j].seg = Null
                                                                               /\ names[exports[j].int] = Null}}
  OBVIOUS
<1>2. PICK inuse : inuse = {i \in DOMAIN exports : Exported(exports[i])}
  OBVIOUS
<1>3. PICK unset : unset = {i \in inuse : exports[i].ord = 0}
  OBVIOUS
<1>4. PICK twice : twice = {i \in inuse \ unset : \E j \in inuse \ unset : i < j /\ exports[i].ord = exports[j].ord}
  OBVIOUS
<1>5. /\ phase = "prepare" /\ phase' = "roots" /\ undefs' = missing
      /\ IF missing = {} THEN errors' = Cardinality(twice) ELSE errors' = Cardinality(missing)
      /\ UNCHANGED search
  BY <1>1, <1>2, <1>3, <1>4, Zenon DEF PrepareExport
<1>6. PICK n \in Nat : n = Len(exports) /\ DOMAIN exports = 1..n
  BY SequenceShape DEF BindingOK, AllExportsOK
<1>7. IsFiniteSet(DOMAIN exports)
  BY <1>6, FS_Interval
<1>8. IsFiniteSet(twice)
  <2>1. twice \in SUBSET DOMAIN exports
    BY <1>2, <1>4
  <2>2. QED BY <1>7, <2>1, FS_Subset
<1>9. IsFiniteSet(missing)
  <2>1. PICK D : D = {j \in DOMAIN exports : exports[j].seg = Null /\ names[exports[j].int] = Null}
    OBVIOUS
  <2>2. IsFiniteSet(D)
    BY <1>7, <2>1, FS_Subset
  <2>3. PICK f : f = [i \in D |-> exports[i].int]
    OBVIOUS
  <2>4. f \in [D -> missing] /\ \A x \in missing : \E i \in D : f[i] = x
    BY <1>1, <2>1, <2>3
  <2>5. f \in Surjection(D, missing)
    BY <2>4 DEF Surjection
  <2>6. QED BY <2>2, <2>5, FS_Surjection
<1>10. errors' \in Nat /\ (errors' = 0 => undefs' = {})
  <2>1. Cardinality(twice) \in Nat /\ Cardinality(missing) \in Nat /\ (Cardinality(missing) = 0 => missing = {})
    BY <1>8, <1>9, FS_CardinalityType, FS_EmptySet
  <2>2. QED BY <1>5, <2>1
<1>11. stack' = <<>> /\ processed' = {} /\ nfixups' = 0
  BY <1>5 DEF BindingOK, CountOK, Idle, Untouched, search
<1>12. CountedOK'
  <2>1. Passed' = {}
    BY <1>11 DEF Passed, PassedBy, FromFiles
  <2>2. Distinct(stack)'
    BY <1>11 DEF Distinct
  <2>3. IsFiniteSet(Passed)' /\ Cardinality(Passed)' = 0
    BY <2>1, FS_EmptySet
  <2>4. QED BY <1>11, <2>2, <2>3 DEF CountedOK
<1>13. QED BY <1>5, <1>10, <1>12 DEF CountOK, Idle, Linking

LEMMA PlaceCounts ==
  ASSUME BindingOK, TablesOK, CountOK, Place
  PROVE  CountOK'
<1>1. /\ phase = "order" /\ UNCHANGED <<files, names, imported, exports, stack, processed, used, commons>>
      /\ IF errors # 0 THEN phase' = "failed"
         ELSE phase' = "image" /\ nfixups' = nfixups + Cardinality(Jumps)
  BY DEF Place, input
<1>2. CASE errors # 0
  BY <1>1, <1>2, CountFails
<1>3. CASE errors = 0
  <2>1. ByName' => ByName
    BY <1>1, ByNameSame
  <2>2. Jumps' = Jumps
    BY <1>1, JumpsSame DEF LaidOutSame
  <2>3. Passed' = Passed
    BY <1>1 DEF Passed, PassedBy, FromFiles, Addressed, Waits
  <2>4. ByName' => IsFiniteSet(Passed)' /\ nfixups' = Cardinality(Passed)' + Cardinality(Jumps)'
    BY <1>1, <1>3, <2>1, <2>2, <2>3 DEF CountOK, CountedOK
  <2>5. stack' = <<>>
    BY <1>1 DEF CountOK
  <2>6. QED BY <1>1, <1>3, <2>4, <2>5 DEF CountOK, Idle, Linking
<1>4. QED BY <1>2, <1>3

\* What is written are the fixups that have been passed.
LEMMA WrittenPassed ==
  ASSUME BindingOK, TablesOK, PlacedAs(layout), NoFixupWithoutText, stack = <<>>
  PROVE  UNION {FixupsOf(s) : s \in UNION {ToSet(layout.order[c]) : c \in Classes \ {"BSS"}}} = Passed
<1>1. PICK texts : texts = UNION {ToSet(layout.order[c]) : c \in Classes \ {"BSS"}}
  OBVIOUS
<1>2. \A s : s \in texts <=> s \in processed /\ Section(s) # "BSS"
  <2>1. \A c \in Classes : ToSet(layout.order[c]) = {s \in processed : Section(s) = c}
    BY DEF PlacedAs, Ordered
  <2>2. QED BY <1>1, <2>1, SectionShape
<1>3. FilesOK /\ \A s, j : ~Waits(stack, s, j)
  BY DEF BindingOK, Waits, ToSet
<1>4. ASSUME NEW p, p \in UNION {FixupsOf(s) : s \in texts} PROVE p \in Passed
  <2>1. PICK s \in texts : p \in FixupsOf(s)
    BY <1>4
  <2>2. PICK j \in DOMAIN Seg(s).fixups : Seg(s).fixups[j].address /\ p = <<s, j>>
    BY <2>1 DEF FixupsOf
  <2>3. s \in processed /\ (InFile(s) \/ IsBlock(s))
    BY <1>2 DEF TablesOK
  <2>4. ~IsBlock(s)
    <3>1. ASSUME NEW k, s = <<0, k>> PROVE Seg(s).fixups = <<>>
      BY <3>1 DEF Seg, Common
    <3>2. IsBlock(s) => Seg(s).fixups = <<>>
      BY <3>1 DEF IsBlock
    <3>3. DOMAIN Seg(s).fixups # {} /\ DOMAIN <<>> = {}
      BY <2>2
    <3>4. QED BY <3>2, <3>3
  <2>5. s \in Pairs /\ s[1] # 0 /\ Seg(s) = files[s[1]].segs[s[2]]
    BY <1>3, <2>3, <2>4, SegmentFacts DEF Pairs
  <2>6. j \in Nat
    <3>1. Seg(s).fixups \in Seq(Fixups)
      BY <2>3, SegmentShape
    <3>2. QED BY <2>2, <3>1
  <2>7. Addressed(s, j) /\ s \in FromFiles(processed)
    BY <2>2, <2>3, <2>5 DEF Addressed, FromFiles
  <2>8. QED BY <1>3, <2>2, <2>5, <2>6, <2>7 DEF Passed, PassedBy
<1>5. ASSUME NEW p \in Passed PROVE p \in UNION {FixupsOf(s) : s \in texts}
  <2>1. PICK s \in Pairs, j \in Nat : p = <<s, j>>
    BY DEF Passed, PassedBy
  <2>2. s \in processed /\ s[1] # 0 /\ Addressed(s, j)
    BY <2>1 DEF Passed, PassedBy, FromFiles
  <2>3. InFile(s)
    BY <2>2 DEF TablesOK, IsBlock
  <2>4. Seg(s) = files[s[1]].segs[s[2]] /\ s[1] \in DOMAIN files /\ s[2] \in DOMAIN files[s[1]].segs
        /\ Seg(s).fixups \in Seq(Fixups)
    BY <1>3, <2>3, SegmentFacts
  <2>5. j \in DOMAIN Seg(s).fixups /\ Seg(s).fixups[j].address
    BY <2>2, <2>4 DEF Addressed
  <2>6. Seg(s).clazz # "BSS"
    <3>1. Seg(s).fixups[j] \in ToSet(Seg(s).fixups)
      BY <2>5 DEF ToSet
    <3>2. QED BY <2>4, <2>5, <3>1 DEF NoFixupWithoutText
  <2>7. s \in texts
    BY <1>2, <2>2, <2>6 DEF Section
  <2>8. p \in FixupsOf(s)
    BY <2>1, <2>5 DEF FixupsOf
  <2>9. QED BY <2>7, <2>8
<1>6. QED BY <1>1, <1>4, <1>5

LEMMA CreateImagesCounts ==
  ASSUME BindingOK, TablesOK, PlacedOK, CountOK, CreateImages
  PROVE  CountOK'
<1>1. PICK W : W = UNION {FixupsOf(s) : s \in UNION {ToSet(layout.order[c]) : c \in Classes \ {"BSS"}}}
  OBVIOUS
<1>2. PICK J : J = DOMAIN layout.jumps
  OBVIOUS
<1>3. /\ phase = "image" /\ UNCHANGED <<files, exports>>
      /\ \/ phase' = "overrun"
         \/ phase' = IF Cardinality(W) + Cardinality(J) = nfixups THEN "done" ELSE "miscounted"
  BY <1>1, <1>2 DEF CreateImages, input
<1>4. ByName' => ByName
  BY <1>3, ByNameSame
<1>5. ASSUME ByName PROVE phase' \in {"overrun", "done"}
  <2>1. PlacedAs(layout) /\ stack = <<>> /\ nfixups = Cardinality(Passed) + Cardinality(Jumps)
    BY <1>3, <1>5 DEF PlacedOK, CountOK
  <2>2. J = Jumps
    BY <1>2, <2>1, JumpsApart
  <2>3. W = Passed
    BY <1>1, <1>5, <2>1, WrittenPassed DEF ByName
  <2>4. QED BY <1>3, <2>1, <2>2, <2>3
<1>6. QED BY <1>3, <1>4, <1>5 DEF CountOK, Idle, Linking

LEMMA ReadingCounts ==
  ASSUME CountOK, Option \/ OpenFile \/ ReadDeclaration \/ ReadExport \/ FileRead \/ Link
  PROVE  CountOK'
<1>1. phase \in {"options", "file", "read"} /\ phase' \in {"options", "file", "read", "prepare", "failed"}
      /\ nfixups' = nfixups
  BY DEF Option, OpenFile, ReadDeclaration, ReadExport, FileRead, Link, search
<1>2. QED BY <1>1 DEF CountOK, Idle, Linking

LEMMA StutterCounts ==
  ASSUME CountOK, UNCHANGED vars
  PROVE  CountOK'
<1>1. UNCHANGED <<files, exports, errors, undefs, phase, nfixups, stack, processed, imported, used, names, commons>>
  BY DEF vars, input, search
<1>2. ByName' => ByName
  BY <1>1, ByNameSame
<1>3. Jumps' = Jumps
  BY <1>1, JumpsSame DEF LaidOutSame
<1>4. Passed' = Passed
  BY <1>1 DEF Passed, PassedBy, FromFiles, Addressed, Waits
<1>5. CountedOK => CountedOK'
  BY <1>1, <1>4 DEF CountedOK, Distinct
<1>6. QED BY <1>1, <1>2, <1>3, <1>4, <1>5 DEF CountOK, Idle, Linking

\* A fixup is counted when a call passes it, and every segment has one call
\* at most, so that what is counted are the fixups behind the calls.
THEOREM CountInv == Spec => [](BindingOK /\ CollectingOK /\ TablesOK /\ PlacedOK /\ CountOK)
<1>1. Init => CountOK
  BY DEF Init, CountOK, Idle, Linking
<1>2. BindingOK /\ CollectingOK /\ TablesOK /\ PlacedOK /\ CountOK /\ [Next]_vars => CountOK'
  <2> SUFFICES ASSUME BindingOK, CollectingOK, TablesOK, PlacedOK, CountOK, [Next]_vars PROVE CountOK'
    OBVIOUS
  <2>1. CASE Option \/ OpenFile \/ ReadDeclaration \/ ReadExport \/ FileRead \/ Link
    BY <2>1, ReadingCounts
  <2>2. CASE PrepareExport \/ EntryRoot \/ ExportRoot
    BY <2>2, PrepareExportCounts, EntryRootCounts, ExportRootCounts
  <2>3. CASE FixupToName \/ FixupToSegment \/ Descriptor \/ Return
    BY <2>3, FixupToNameCounts, FixupToSegmentCounts, DescriptorCounts, ReturnCounts
  <2>4. CASE CollectAllSegments \/ RootsCollected \/ PassFile \/ CollectAllAgain
    BY <2>4, CollectAllSegmentsCounts, PauseCounts
  <2>5. CASE Place \/ CreateImages \/ UNCHANGED vars
    BY <2>5, PlaceCounts, CreateImagesCounts, StutterCounts
  <2>6. QED BY <2>1, <2>2, <2>3, <2>4, <2>5 DEF Next
<1>3. QED
  BY <1>1, <1>2, TablesInv, PlacedInv, PTL DEF Spec

\* Where exports are made by name, the linker writes as many fixups as it has
\* counted (struct.cpp:1097-1140, CollectFixup, and the assertion of
\* struct.cpp:1875 in CreateImages).
THEOREM FixupsOfNames == Spec => []FixupsCountedByName
<1>1. CountOK => FixupsCountedByName
  BY DEF CountOK, ByName, FixupsCountedByName, FixupsCounted
<1>2. QED BY <1>1, CountInv, PTL


-----------------------------------------------------------------------------
(* The numbers of exports *)

\* Until they are prepared, exports have the numbers the user gave, or none.
NumbersOK == Idle => \A i \in DOMAIN exports : exports[i].ord \in Nat

LEMMA NewExportNumbers ==
  ASSUME AllExportsOK(exports), \A i \in DOMAIN exports : exports[i].ord \in Nat,
         NEW e, e.ord \in Nat, NEW seg, NEW src
  PROVE  LET r == NewExport(Reading, e, seg, src).exports IN \A i \in DOMAIN r : r[i].ord \in Nat
<1> DEFINE same == {i \in DOMAIN exports : exports[i].ext = e.ext}
           i == CHOOSE j \in same : TRUE
           old == exports[i]
           over == [old EXCEPT !.int = e.int, !.seg = IF seg # Null THEN seg ELSE @,
                               !.ord = IF e.ord # 0 THEN e.ord ELSE @]
           new == [ext |-> e.ext, int |-> e.int, ord |-> e.ord, seg |-> seg, flag |-> {src}]
           q == NewExport(Reading, e, seg, src)
<1>1. /\ Reading.exports = exports /\ Reading.names = names
      /\ Reading = [names |-> names, imported |-> imported, exports |-> exports, errors |-> errors]
  BY DEF Reading
<1>2. IsSequence(exports) /\ \A j \in DOMAIN exports : ExportOK(exports[j])
  BY DEF AllExportsOK
<1>3. CASE same = {}
  <2>1. q.names = names /\ q.exports = <<new>> \o exports
    BY <1>1, <1>3 DEF NewExport
  <2>2. new.ord \in Nat
    OBVIOUS
  <2> HIDE DEF new
  <2>3. \A j \in DOMAIN (<<new>> \o exports) : (<<new>> \o exports)[j].ord \in Nat
    BY <1>2, <2>2, ConsShape
  <2> HIDE DEF q
  <2>4. \A j \in DOMAIN q.exports : q.exports[j].ord \in Nat
    BY <2>1, <2>3
  <2>5. QED BY <2>4 DEF q
<1>4. CASE same # {}
  <2>1. i \in DOMAIN exports /\ ExportOK(old) /\ old.ord \in Nat
    BY <1>2, <1>4
  <2>2. \/ q.names = names /\ q.exports = exports
        \/ q.names = names /\ q.exports = [exports EXCEPT ![i] = over]
        \/ q.names = names /\ q.exports = [exports EXCEPT ![i] = [old EXCEPT !.flag = @ \cup {src}]]
    BY <1>1, <1>4, <2>1 DEF NewExport
  <2> DEFINE g == IF seg # Null THEN seg ELSE old.seg
             o == IF e.ord # 0 THEN e.ord ELSE old.ord
  <2> HIDE DEF q
  <2> HIDE DEF i, old
  <2>3. PICK a, b, c, d, x : old = [ext |-> a, int |-> b, ord |-> c, seg |-> d, flag |-> x]
    BY <2>1 DEF ExportOK
  <2>4. [old EXCEPT !.flag = @ \cup {src}].ord \in Nat
    BY <2>1, <2>3
  <2>5. o \in Nat
    BY <2>1
  <2>5a. over = [old EXCEPT !.int = e.int, !.seg = g, !.ord = o]
    OBVIOUS
  <2> HIDE DEF g, o, over
  <2>6. over.ord \in Nat
    <3>1. PICK p : p = [old EXCEPT !.int = e.int]
      OBVIOUS
    <3>2. PICK z : z = [p EXCEPT !.seg = g]
      OBVIOUS
    <3>3. p = [ext |-> a, int |-> e.int, ord |-> c, seg |-> d, flag |-> x]
      BY <2>3, <3>1
    <3>4. z = [ext |-> a, int |-> e.int, ord |-> c, seg |-> g, flag |-> x]
      BY <3>2, <3>3
    <3>5. [z EXCEPT !.ord = o].ord \in Nat
      BY <2>5, <3>4
    <3>6. over = [z EXCEPT !.ord = o]
      BY ONLY <2>5a, <3>1, <3>2
    <3>7. QED BY <3>5, <3>6
  <2>7. ASSUME NEW y, y.ord \in Nat, q.exports = [exports EXCEPT ![i] = y]
        PROVE  \A j \in DOMAIN q.exports : q.exports[j].ord \in Nat
    BY <1>2, <2>7, ExceptShape
  <2>8. \A j \in DOMAIN q.exports : q.exports[j].ord \in Nat
    BY <2>2, <2>4, <2>6, <2>7
  <2>9. QED BY <2>8 DEF q
<1>5. QED BY <1>3, <1>4

LEMMA NumbersSame ==
  ASSUME NumbersOK, Idle, UNCHANGED exports
  PROVE  NumbersOK'
BY DEF NumbersOK

LEMMA OptionNumbers ==
  ASSUME BindingOK, NumbersOK, Option
  PROVE  NumbersOK'
<1>1. PICK e \in Options : ReadAs(NewExport(Reading, e, Null, e.src))
  BY DEF Option
<1>2. phase \in {"options", "read"}
  BY DEF Option
<1>3. Idle /\ AllExportsOK(exports) /\ \A i \in DOMAIN exports : exports[i].ord \in Nat
  BY <1>2 DEF Idle, BindingOK, NumbersOK
<1>4. e.ord \in Nat
  BY OptionsAssumption
<1>5. exports' = NewExport(Reading, e, Null, e.src).exports
  BY <1>1 DEF ReadAs
<1>6. \A i \in DOMAIN exports' : exports'[i].ord \in Nat
  BY <1>3, <1>4, <1>5, NewExportNumbers
<1>7. QED BY <1>6 DEF NumbersOK

LEMMA ReadExportNumbers ==
  ASSUME BindingOK, NumbersOK, ReadExport
  PROVE  NumbersOK'
<1>1. PICK e : e = CurrentFile.exports[item - Len(CurrentFile.decls)]
  OBVIOUS
<1>2. PICK seg : seg = IF e.seg = 0 THEN Null ELSE <<Len(files), e.seg>>
  OBVIOUS
<1>3. /\ phase = "file" /\ item - Len(CurrentFile.decls) \in DOMAIN CurrentFile.exports
      /\ exports' = NewExport(Reading, e, seg, OBJMOD).exports
  BY <1>1, <1>2 DEF ReadExport, ReadAs
<1>4. Idle /\ AllExportsOK(exports) /\ FilesOK /\ files # <<>> /\ \A i \in DOMAIN exports : exports[i].ord \in Nat
  BY <1>3 DEF Idle, BindingOK, FilesOK, NumbersOK
<1>5. CurrentFile \in Objects
  BY <1>4, CurrentFileFacts
<1>6. CurrentFile.exports \in Seq(OwnExports)
  BY <1>5, ObjectsAssumption
<1>7. e \in OwnExports
  BY <1>1, <1>3, <1>6
<1>8. e.ord \in Nat
  BY <1>7 DEF OwnExports
<1>9. \A i \in DOMAIN exports' : exports'[i].ord \in Nat
  BY <1>3, <1>4, <1>8, NewExportNumbers
<1>10. QED BY <1>9 DEF NumbersOK

LEMMA OtherNumbers ==
  ASSUME BindingOK, NumbersOK,
         OpenFile \/ ReadDeclaration \/ FileRead \/ Link \/ ~Idle' \/ UNCHANGED vars
  PROVE  NumbersOK'
<1>1. CASE OpenFile
  BY <1>1, NumbersSame DEF OpenFile, Idle
<1>2. CASE ReadDeclaration
  <2>1. phase = "file" /\ exports' = exports
    BY <1>2, DeclarationFacts DEF ReadDeclaration
  <2>2. QED BY <2>1, NumbersSame DEF Idle
<1>3. CASE FileRead
  BY <1>3, NumbersSame DEF FileRead, Idle, input
<1>4. CASE Link
  BY <1>4, NumbersSame DEF Link, Idle, input
<1>5. CASE ~Idle'
  BY <1>5 DEF NumbersOK
<1>6. CASE UNCHANGED vars
  BY <1>6 DEF NumbersOK, vars, input, Idle
<1>7. QED BY <1>1, <1>2, <1>3, <1>4, <1>5, <1>6

LEMMA LinkingIsLater ==
  ASSUME \/ PrepareExport \/ EntryRoot \/ ExportRoot \/ RootsCollected
         \/ FixupToName \/ FixupToSegment \/ Descriptor \/ Return
         \/ CollectAllSegments \/ PassFile \/ CollectAllAgain \/ Place \/ CreateImages
  PROVE  ~Idle'
<1>1. CASE EntryRoot
  <2>1. phase = "roots" /\ (phase' = phase \/ Resolve(entry, <<>>))
    BY <1>1 DEF EntryRoot
  <2>2. QED BY <2>1, ResolvePhase DEF Idle
<1>2. CASE ExportRoot
  <2>1. phase = "roots" /\ (phase' = phase \/ \E n : CollectName(n, <<>>))
    BY <1>2 DEF ExportRoot
  <2>2. QED BY <2>1, ResolvePhase DEF Idle
<1>3. CASE FixupToName
  <2>1. phase \in {"roots", "all"} /\ Resolve(CurrentFixup.name, Onward)
    BY <1>3 DEF FixupToName, Linking
  <2>2. QED BY <2>1, ResolvePhase DEF Idle
<1>4. CASE Descriptor
  <2>1. phase \in {"roots", "all"} /\ CollectName(files[Caller.seg[1]].extrnl, stack)
    BY <1>4 DEF Descriptor, Linking
  <2>2. QED BY <2>1, ResolvePhase DEF Idle
<1>5. CASE PrepareExport \/ RootsCollected \/ FixupToSegment \/ Return
  BY <1>5 DEF PrepareExport, RootsCollected, FixupToSegment, Return, Linking, Idle
<1>6. CASE CollectAllSegments \/ PassFile \/ CollectAllAgain
  BY <1>6 DEF CollectAllSegments, PassFile, CollectAllAgain, Idle
<1>7. CASE Place \/ CreateImages
  BY <1>7 DEF Place, CreateImages, Idle
<1>8. QED BY <1>1, <1>2, <1>3, <1>4, <1>5, <1>6, <1>7

THEOREM NumbersInv == Spec => []NumbersOK
<1>1. Init => NumbersOK
  BY DEF Init, NumbersOK
<1>2. BindingOK /\ NumbersOK /\ [Next]_vars => NumbersOK'
  <2> SUFFICES ASSUME BindingOK, NumbersOK, [Next]_vars PROVE NumbersOK'
    OBVIOUS
  <2>1. CASE Option \/ ReadExport
    BY <2>1, OptionNumbers, ReadExportNumbers
  <2>2. CASE OpenFile \/ ReadDeclaration \/ FileRead \/ Link \/ UNCHANGED vars
    BY <2>2, OtherNumbers
  <2>3. CASE PrepareExport \/ EntryRoot \/ ExportRoot \/ RootsCollected
    BY <2>3, LinkingIsLater, OtherNumbers
  <2>4. CASE FixupToName \/ FixupToSegment \/ Descriptor \/ Return
    BY <2>4, LinkingIsLater, OtherNumbers
  <2>5. CASE CollectAllSegments \/ PassFile \/ CollectAllAgain
    BY <2>5, LinkingIsLater, OtherNumbers
  <2>6. CASE Place \/ CreateImages
    BY <2>6, LinkingIsLater, OtherNumbers
  <2>7. QED BY <2>1, <2>2, <2>3, <2>4, <2>5, <2>6 DEF Next
<1>3. QED BY <1>1, <1>2, LinkingInv, PTL DEF Spec


\* Among more numbers than are taken, one is free; the first free one follows
\* taken ones only.
AtMost(taken, n) == IsFiniteSet(taken) /\ Cardinality(taken) <= n
HasFree(taken, n, c) == \E x \in c..c + n : x \notin taken /\ \A m \in c..x - 1 : m \in taken
LEMMA FreeNumber ==
  ASSUME NEW taken, NEW n \in Nat, AtMost(taken, n), NEW c \in Nat
  PROVE  HasFree(taken, n, c)
<1>1. PICK R : R = c..c + n
  OBVIOUS
<1>2. IsFiniteSet(R) /\ Cardinality(R) = n + 1
  BY <1>1, FS_Interval
<1>3. PICK X : X = R \ taken
  OBVIOUS
<1>4. X # {}
  <2>1. CASE X = {}
    <3>1. R \in SUBSET taken
      BY <1>3, <2>1
    <3>2. IsFiniteSet(taken) /\ Cardinality(taken) <= n
      BY DEF AtMost
    <3>3. Cardinality(R) <= Cardinality(taken) /\ Cardinality(taken) \in Nat
      BY <3>1, <3>2, FS_Subset, FS_CardinalityType
    <3>4. QED BY <1>2, <3>2, <3>3
  <2>2. QED BY <2>1
<1>5. X \in SUBSET Nat
  BY <1>1, <1>3
<1>6. PICK x : x \in X /\ \A y \in X : x <= y
  BY <1>4, <1>5, LeastExists
<1>7. x \in c..c + n /\ x \notin taken
  BY <1>1, <1>3, <1>6
<1>8. ASSUME NEW m \in c..x - 1 PROVE m \in taken
  <2>1. m \in c..c + n /\ ~(x <= m)
    BY <1>7
  <2>2. QED BY <1>1, <1>3, <1>6, <2>1
<1>9. QED BY <1>7, <1>8 DEF HasFree

\* k numbers, each the first one behind the last that is not taken.
Gaps(given, k, taken) ==
  /\ given \in [0..k -> Nat] /\ given[0] = 0
  /\ \A i \in 1..k : /\ given[i - 1] < given[i] /\ given[i] \notin taken
                     /\ \A m \in given[i - 1] + 1..given[i] - 1 : m \in taken

\* They grow.
LEMMA GapsGrow ==
  ASSUME NEW given, NEW k \in Nat, NEW taken, Gaps(given, k, taken), NEW i \in 0..k, NEW j \in 0..k, i < j
  PROVE  given[i] < given[j]
<1>1. given \in [0..k -> Nat] /\ \A m \in 1..k : given[m - 1] < given[m]
  BY DEF Gaps
<1>2. PICK G : G = {m \in 0..k : i < m => given[i] < given[m]}
  OBVIOUS
<1>3. 0 \in G
  BY <1>2
<1>4. ASSUME NEW m \in 1..k, m - 1 \in G PROVE m \in G
  <2>1. m - 1 \in 0..k /\ m \in 0..k /\ given[m - 1] \in Nat /\ given[m] \in Nat /\ given[i] \in Nat
    <3>1. m - 1 \in 0..k /\ m \in 0..k
      OBVIOUS
    <3>2. QED BY <1>1, <3>1
  <2>2. given[m - 1] < given[m] /\ (i < m - 1 => given[i] < given[m - 1])
    BY <1>1, <1>2, <1>4
  <2>3. i < m => i = m - 1 \/ i < m - 1
    OBVIOUS
  <2>4. i < m => given[i] < given[m]
    BY <2>1, <2>2, <2>3
  <2>5. QED BY <1>2, <2>1, <2>4
<1>5. \A m \in 0..k : m \in G
  BY <1>3, <1>4, UpTo
<1>6. QED BY <1>2, <1>5

\* With what is taken they leave nothing out.
LEMMA GapsFill ==
  ASSUME NEW given, NEW k \in Nat, NEW taken, Gaps(given, k, taken), NEW i \in 0..k, NEW v \in Nat \ {0}, v < given[i]
  PROVE  v \in taken \/ \E j \in 1..k : given[j] = v
<1>1. /\ given \in [0..k -> Nat] /\ given[0] = 0
      /\ \A m \in 1..k : \A x \in given[m - 1] + 1..given[m] - 1 : x \in taken
  BY DEF Gaps
<1>2. PICK G : G = {m \in 0..k : v < given[m] => v \in taken \/ \E j \in 1..k : given[j] = v}
  OBVIOUS
<1>3. 0 \in G
  BY <1>1, <1>2
<1>4. ASSUME NEW m \in 1..k, m - 1 \in G PROVE m \in G
  <2>1. m - 1 \in 0..k /\ m \in 0..k
    OBVIOUS
  <2>2. PICK a \in Nat, b \in Nat : a = given[m - 1] /\ b = given[m]
    BY <1>1, <2>1
  <2>3. CASE v < a
    BY <1>2, <1>4, <2>1, <2>2, <2>3
  <2>4. CASE v = a
    <3>1. m - 1 # 0
      BY <1>1, <2>2, <2>4
    <3>2. m - 1 \in 1..k
      BY <3>1
    <3>3. QED BY <1>2, <2>1, <2>2, <2>4, <3>2
  <2>5. CASE a < v
    <3>1. v < b => v \in a + 1..b - 1
      BY <2>5
    <3>2. v < b => v \in taken
      BY <1>1, <2>2, <3>1
    <3>3. QED BY <1>2, <2>1, <2>2, <3>2
  <2>6. QED BY <2>2, <2>3, <2>4, <2>5
<1>5. \A m \in 0..k : m \in G
  BY <1>3, <1>4, UpTo
<1>6. QED BY <1>2, <1>5

TakenOrds == {exports[i].ord : i \in {j \in DOMAIN exports : Exported(exports[j])}}

\* Ordinals gives an order of exports such numbers.
Gives(order, given) ==
  Ordinals(order) = [i \in DOMAIN exports |->
    IF i \in ToSet(order) THEN given[CHOOSE j \in DOMAIN order : order[j] = i] ELSE exports[i].ord]

LEMMA OrdinalsShape ==
  ASSUME AllExportsOK(exports), NEW order, NEW k \in Nat, k = Len(order)
  PROVE  \E given : Gaps(given, k, TakenOrds) /\ Gives(order, given)
<1>1. PICK n \in Nat : n = Len(exports) /\ DOMAIN exports = 1..n
  BY SequenceShape DEF AllExportsOK
<1>2. PICK taken : taken = TakenOrds
  OBVIOUS
<1>3. AtMost(taken, n)
  <2>1. PICK D : D = {j \in DOMAIN exports : Exported(exports[j])}
    OBVIOUS
  <2>2. IsFiniteSet(DOMAIN exports) /\ Cardinality(DOMAIN exports) = n
    <3>1. IsFiniteSet(1..n) /\ Cardinality(1..n) = n
      <4>1. 1 \in Int /\ n \in Int
        OBVIOUS
      <4>2. IsFiniteSet(1..n) /\ Cardinality(1..n) = IF 1 > n THEN 0 ELSE n - 1 + 1
        BY <4>1, FS_Interval
      <4>3. QED BY <4>2
    <3>2. QED BY <1>1, <3>1
  <2>3. IsFiniteSet(D) /\ Cardinality(D) <= n
    BY <2>1, <2>2, FS_Subset
  <2>4. PICK f : f = [i \in D |-> exports[i].ord]
    OBVIOUS
  <2>5. f \in [D -> taken] /\ \A x \in taken : \E i \in D : f[i] = x
    BY <1>2, <2>1, <2>4 DEF TakenOrds
  <2>6. f \in Surjection(D, taken)
    BY <2>5 DEF Surjection
  <2>7. IsFiniteSet(taken) /\ Cardinality(taken) <= Cardinality(D)
    BY <2>3, <2>6, FS_Surjection
  <2>8. Cardinality(taken) \in Nat /\ Cardinality(D) \in Nat
    BY <2>3, <2>7, FS_CardinalityType
  <2>9. QED BY <2>3, <2>7, <2>8 DEF AtMost
<1> DEFINE free(c) == CHOOSE x \in c..c + Len(exports) : x \notin taken /\ \A m \in c..x - 1 : m \in taken
<1>4. ASSUME NEW c \in Nat
      PROVE  /\ free(c) \in Nat /\ c <= free(c) /\ free(c) \notin taken
             /\ \A m \in c..free(c) - 1 : m \in taken
  <2>1. \E x \in c..c + n : x \notin taken /\ \A m \in c..x - 1 : m \in taken
    <3>1. HasFree(taken, n, c)
      BY <1>3, FreeNumber
    <3>2. QED BY <3>1, Zenon DEF HasFree
  <2>2. /\ free(c) \in c..c + n /\ free(c) \notin taken
        /\ \A m \in c..free(c) - 1 : m \in taken
    BY <1>1, <2>1
  <2> HIDE DEF free
  <2>3. QED BY <2>2
<1> DEFINE Solves(g) == g = [i \in 0..Len(order) |-> IF i = 0 THEN 0 ELSE free(g[i - 1] + 1)]
           given == CHOOSE g : Solves(g)
<1>5. Ordinals(order) = [i \in DOMAIN exports |->
         IF i \in ToSet(order) THEN given[CHOOSE j \in DOMAIN order : order[j] = i] ELSE exports[i].ord]
  BY <1>2 DEF Ordinals, TakenOrds
<1> HIDE DEF free
<1>6. PICK h : h = [p \in (1..k) \X Nat |-> free(p[2] + 1)]
  OBVIOUS
<1>7. ASSUME NEW i \in 1..k, NEW x \in Nat PROVE h[<<i, x>>] = free(x + 1) /\ h[<<i, x>>] \in Nat
  <2>1. <<i, x>> \in (1..k) \X Nat /\ <<i, x>>[2] = x
    OBVIOUS
  <2>2. h[<<i, x>>] = free(x + 1)
    BY <1>6, <2>1
  <2>3. x + 1 \in Nat
    OBVIOUS
  <2>4. QED BY <1>4, <2>2, <2>3
<1>8. PICK f : Recurs(f, h, k, 0, Nat)
  <2>1. StaysIn(h, k, Nat)
    BY <1>7 DEF StaysIn
  <2>2. 0 \in Nat
    OBVIOUS
  <2>3. QED BY <2>1, <2>2, Recursion
<1>9. Solves(f)
  <2>1. f \in [0..k -> Nat] /\ f[0] = 0 /\ \A i \in 1..k : f[i] = h[<<i, f[i - 1]>>]
    BY <1>8 DEF Recurs
  <2>2. ASSUME NEW i \in 0..k PROVE f[i] = IF i = 0 THEN 0 ELSE free(f[i - 1] + 1)
    <3>1. CASE i = 0
      BY <2>1, <3>1
    <3>2. CASE i # 0
      <4>1. i \in 1..k /\ i - 1 \in 0..k
        BY <3>2
      <4>2. PICK x \in Nat : x = f[i - 1]
        BY <2>1, <4>1
      <4>3. f[i] = h[<<i, x>>] /\ h[<<i, x>>] = free(x + 1)
        BY <1>7, <2>1, <4>1, <4>2
      <4>4. QED BY <3>2, <4>2, <4>3
    <3>3. QED BY <3>1, <3>2
  <2>3. f = [i \in 0..k |-> f[i]]
    BY <2>1
  <2>4. QED BY <2>2, <2>3
<1>10. Solves(given)
  <2> HIDE DEF Solves
  <2>1. QED BY <1>9
<1> HIDE DEF given
<1>11. /\ DOMAIN given = 0..k /\ given = [i \in 0..k |-> given[i]] /\ given[0] = 0
       /\ \A i \in 1..k : given[i] = free(given[i - 1] + 1)
  <2>1. ASSUME NEW i \in 0..k PROVE given[i] = IF i = 0 THEN 0 ELSE free(given[i - 1] + 1)
    BY <1>10
  <2>2. 0 \in 0..k /\ \A i \in 1..k : i \in 0..k /\ i # 0
    OBVIOUS
  <2>3. DOMAIN given = 0..k /\ given = [i \in 0..k |-> given[i]]
    BY <1>10
  <2>4. QED BY <2>1, <2>2, <2>3
<1> HIDE DEF Solves
<1>12. \A i \in 0..k : given[i] \in Nat
  <2>1. PICK G : G = {i \in 0..k : given[i] \in Nat}
    OBVIOUS
  <2>2. 0 \in G
    BY <1>11, <2>1
  <2>3. ASSUME NEW i \in 1..k, i - 1 \in G PROVE i \in G
    <3>1. given[i - 1] + 1 \in Nat
      BY <2>1, <2>3
    <3>2. given[i] \in Nat
      BY <1>4, <1>11, <3>1
    <3>3. QED BY <2>1, <3>2
  <2>4. \A i \in 0..k : i \in G
    BY <2>2, <2>3, UpTo
  <2>5. QED BY <2>1, <2>4
<1>13. given \in [0..k -> Nat]
  BY <1>11, <1>12
<1>14. ASSUME NEW i \in 1..k
       PROVE  /\ given[i - 1] < given[i] /\ given[i] \notin taken
              /\ \A m \in given[i - 1] + 1..given[i] - 1 : m \in taken
  <2>1. i - 1 \in 0..k /\ i \in 0..k
    OBVIOUS
  <2>2. PICK a \in Nat, b \in Nat : a = given[i - 1] /\ b = given[i]
    BY <1>12, <2>1
  <2>3. b = free(a + 1) /\ a + 1 \in Nat
    BY <1>11, <2>2
  <2>4. a + 1 <= b /\ b \notin taken /\ \A m \in a + 1..b - 1 : m \in taken
    BY <1>4, <2>3
  <2>5. QED BY <2>2, <2>4
<1>15. Gaps(given, k, TakenOrds)
  BY <1>2, <1>11, <1>13, <1>14 DEF Gaps
<1>16. Gives(order, given)
  BY <1>5, Zenon DEF Gives
<1>17. QED BY <1>15, <1>16

\* A list of a finite set holds every member once.
LEMMA ListedOnce ==
  ASSUME NEW S, IsFiniteSet(S), NEW s \in SetToSeqs(S)
  PROVE  \E k \in Nat : /\ s \in [1..k -> S] /\ k = Len(s) /\ DOMAIN s = 1..k
                        /\ \A i, j \in 1..k : s[i] = s[j] => i = j
                        /\ \A x \in S : \E i \in 1..k : s[i] = x
<1>1. PICK k \in Nat : k = Cardinality(S)
  BY FS_CardinalityType
<1>2. s \in [1..k -> S] /\ \A i, j \in 1..k : i # j => s[i] # s[j]
  BY <1>1, Zenon DEF SetToSeqs
<1>3. k = Len(s) /\ DOMAIN s = 1..k
  <2>1. s \in Seq(S)
    BY <1>2
  <2>2. QED BY <1>2, <2>1
<1>4. PICK D : D = 1..k
  OBVIOUS
<1>5. IsFiniteSet(D) /\ Cardinality(D) = k
  <2>1. 1 \in Int /\ k \in Int
    OBVIOUS
  <2>2. IsFiniteSet(1..k) /\ Cardinality(1..k) = IF 1 > k THEN 0 ELSE k - 1 + 1
    BY <2>1, FS_Interval
  <2>3. QED BY <1>4, <2>2
<1>6. s \in Injection(D, S)
  BY <1>2, <1>4 DEF Injection, IsInjective
<1>7. s \in Surjection(D, S)
  BY <1>1, <1>5, <1>6, FS_Injection
<1>8. \A x \in S : \E i \in 1..k : s[i] = x
  BY <1>4, <1>7 DEF Surjection
<1>9. QED BY <1>2, <1>3, <1>8

\* What the step that prepares the exports does without an error.
LEMMA Prepared ==
  ASSUME BindingOK, PrepareExport, errors' = 0
  PROVE  LET inuse == {i \in DOMAIN exports : Exported(exports[i])}
             unset == {i \in inuse : exports[i].ord = 0}
         IN  /\ phase = "prepare"
             /\ \A i, j \in inuse \ unset : exports[i].ord = exports[j].ord => i = j
             /\ \E order \in SetToSeqs(unset) : exports' = Numbered(Ordinals(order))
<1>1. PICK missing : missing = {exports[i].int : i \in {j \in DOMAIN exports : exports[j].seg = Null
                                                                               /\ names[exports[j].int] = Null}}
  OBVIOUS
<1>2. PICK inuse : inuse = {i \in DOMAIN exports : Exported(exports[i])}
  OBVIOUS
<1>3. PICK unset : unset = {i \in inuse : exports[i].ord = 0}
  OBVIOUS
<1>4. PICK twice : twice = {i \in inuse \ unset : \E j \in inuse \ unset : i < j /\ exports[i].ord = exports[j].ord}
  OBVIOUS
<1>5. /\ phase = "prepare"
      /\ IF missing = {}
         THEN /\ errors' = Cardinality(twice)
              /\ IF twice = {} THEN \E order \in SetToSeqs(unset) : exports' = Numbered(Ordinals(order))
                               ELSE UNCHANGED exports
         ELSE errors' = Cardinality(missing) /\ UNCHANGED exports
  BY <1>1, <1>2, <1>3, <1>4, Zenon DEF PrepareExport
<1>6. PICK n \in Nat : n = Len(exports) /\ DOMAIN exports = 1..n
  BY SequenceShape DEF BindingOK, AllExportsOK
<1>7. IsFiniteSet(DOMAIN exports)
  BY <1>6, FS_Interval
<1>8. IsFiniteSet(twice)
  <2>1. twice \in SUBSET DOMAIN exports
    BY <1>2, <1>4
  <2>2. QED BY <1>7, <2>1, FS_Subset
<1>9. IsFiniteSet(missing)
  <2>1. PICK D : D = {j \in DOMAIN exports : exports[j].seg = Null /\ names[exports[j].int] = Null}
    OBVIOUS
  <2>2. IsFiniteSet(D)
    BY <1>7, <2>1, FS_Subset
  <2>3. PICK f : f = [i \in D |-> exports[i].int]
    OBVIOUS
  <2>4. f \in [D -> missing] /\ \A x \in missing : \E i \in D : f[i] = x
    BY <1>1, <2>1, <2>3
  <2>5. f \in Surjection(D, missing)
    BY <2>4 DEF Surjection
  <2>6. QED BY <2>2, <2>5, FS_Surjection
<1>10. (Cardinality(twice) = 0 => twice = {}) /\ (Cardinality(missing) = 0 => missing = {})
  BY <1>8, <1>9, FS_EmptySet
<1>11. missing = {} /\ twice = {} /\ \E order \in SetToSeqs(unset) : exports' = Numbered(Ordinals(order))
  BY <1>5, <1>10
<1>12. ASSUME NEW i \in inuse \ unset, NEW j \in inuse \ unset, exports[i].ord = exports[j].ord PROVE i = j
  <2>1. i \in Nat /\ j \in Nat
    BY <1>2, <1>6
  <2>2. ~(i < j) /\ ~(j < i)
    BY <1>4, <1>11, <1>12
  <2>3. QED BY <2>1, <2>2
<1>13. QED BY <1>2, <1>3, <1>5, <1>11, <1>12, Zenon

\* The numbers it gives.
Assigned ==
  LET out == {i \in DOMAIN exports : Exported(exports[i])}
  IN  /\ \A i, j \in out : exports'[i].ord = exports'[j].ord => i = j
      /\ \A i \in out : exports[i].ord # 0 => exports'[i].ord = exports[i].ord
      /\ \A i \in out : exports[i].ord = 0 =>
           \A k \in 1..exports'[i].ord - 1 : \E j \in out : exports'[j].ord = k

LEMMA PrepareExportAssigns ==
  ASSUME BindingOK, NumbersOK, PrepareExport, errors' = 0
  PROVE  Assigned
<1>1. PICK out : out = {i \in DOMAIN exports : Exported(exports[i])}
  OBVIOUS
<1>2. PICK unset : unset = {i \in out : exports[i].ord = 0}
  OBVIOUS
<1>3. /\ phase = "prepare"
      /\ \A i, j \in out \ unset : exports[i].ord = exports[j].ord => i = j
      /\ \E order \in SetToSeqs(unset) : exports' = Numbered(Ordinals(order))
  BY <1>1, <1>2, Prepared, Zenon
<1>4. PICK order \in SetToSeqs(unset) : exports' = Numbered(Ordinals(order))
  BY <1>3
<1>5. AllExportsOK(exports) /\ \A i \in DOMAIN exports : exports[i].ord \in Nat
  BY <1>3 DEF BindingOK, NumbersOK, Idle
<1>6. PICK n \in Nat : n = Len(exports) /\ DOMAIN exports = 1..n
  BY <1>5, SequenceShape DEF AllExportsOK
<1>7. IsFiniteSet(unset)
  <2>1. IsFiniteSet(DOMAIN exports)
    BY <1>6, FS_Interval
  <2>2. unset \in SUBSET DOMAIN exports
    BY <1>1, <1>2
  <2>3. QED BY <2>1, <2>2, FS_Subset
<1>8. PICK k \in Nat : /\ order \in [1..k -> unset] /\ k = Len(order) /\ DOMAIN order = 1..k
                       /\ \A i, j \in 1..k : order[i] = order[j] => i = j
                       /\ \A x \in unset : \E i \in 1..k : order[i] = x
  BY <1>7, ListedOnce
<1>9. PICK taken : taken = TakenOrds
  OBVIOUS
<1>10. PICK given : /\ Gaps(given, k, taken)
                    /\ Ordinals(order) = [i \in DOMAIN exports |->
                         IF i \in ToSet(order) THEN given[CHOOSE j \in DOMAIN order : order[j] = i]
                                               ELSE exports[i].ord]
  <2>1. PICK given : Gaps(given, k, taken) /\ Gives(order, given)
    BY <1>5, <1>8, <1>9, OrdinalsShape
  <2>2. QED BY <2>1, Zenon DEF Gives
<1>11. \A i \in DOMAIN exports : exports'[i].ord = Ordinals(order)[i]
  <2>1. ASSUME NEW i \in DOMAIN exports PROVE exports'[i].ord = Ordinals(order)[i]
    <3>1. PICK o : o = Ordinals(order)[i]
      OBVIOUS
    <3>2. exports'[i] = [exports[i] EXCEPT !.ord = o]
      BY <1>4, <3>1 DEF Numbered
    <3>3. PICK a, b, c, d, x : exports[i] = [ext |-> a, int |-> b, ord |-> c, seg |-> d, flag |-> x]
      BY <1>5 DEF AllExportsOK, ExportOK
    <3>4. QED BY <3>1, <3>2, <3>3
  <2>2. QED BY <2>1
<1>12. ToSet(order) = unset
  BY <1>8 DEF ToSet
<1>13. ASSUME NEW i \in out \ unset
       PROVE  exports'[i].ord = exports[i].ord /\ exports[i].ord \in taken
  BY <1>1, <1>9, <1>10, <1>11, <1>12 DEF TakenOrds
<1>14. ASSUME NEW j \in 1..k PROVE order[j] \in unset /\ exports'[order[j]].ord = given[j]
  <2>1. order[j] \in unset /\ order[j] \in DOMAIN exports
    BY <1>1, <1>2, <1>8
  <2>2. (CHOOSE m \in DOMAIN order : order[m] = order[j]) = j
    BY <1>8
  <2>3. QED BY <1>10, <1>11, <1>12, <2>1, <2>2
<1>15. given \in [0..k -> Nat] /\ \A j \in 1..k : given[j] \notin taken /\ given[j] \in Nat
  BY <1>10 DEF Gaps
<1>16. ASSUME NEW i \in out, NEW j \in out, exports'[i].ord = exports'[j].ord PROVE i = j
  <2>1. CASE i \notin unset /\ j \notin unset
    BY <1>3, <1>13, <1>16, <2>1
  <2>2. CASE i \in unset /\ j \notin unset
    <3>1. PICK u \in 1..k : order[u] = i
      BY <1>8, <2>2
    <3>2. QED BY <1>13, <1>14, <1>15, <1>16, <2>2, <3>1
  <2>3. CASE i \notin unset /\ j \in unset
    <3>1. PICK u \in 1..k : order[u] = j
      BY <1>8, <2>3
    <3>2. QED BY <1>13, <1>14, <1>15, <1>16, <2>3, <3>1
  <2>4. CASE i \in unset /\ j \in unset
    <3>1. PICK u \in 1..k : order[u] = i
      BY <1>8, <2>4
    <3>2. PICK v \in 1..k : order[v] = j
      BY <1>8, <2>4
    <3>3. given[u] = given[v]
      BY <1>14, <1>16, <3>1, <3>2
    <3>4. u \in 0..k /\ v \in 0..k /\ given[u] \in Nat /\ given[v] \in Nat
      BY <1>15
    <3>5. ~(u < v) /\ ~(v < u)
      <4>1. CASE u < v
        BY <1>10, <3>3, <3>4, <4>1, GapsGrow
      <4>2. CASE v < u
        BY <1>10, <3>3, <3>4, <4>2, GapsGrow
      <4>3. QED BY <4>1, <4>2
    <3>6. QED BY <3>1, <3>2, <3>5
  <2>5. QED BY <2>1, <2>2, <2>3, <2>4
<1>17. ASSUME NEW i \in out, exports[i].ord = 0, NEW v \in 1..exports'[i].ord - 1
       PROVE  \E j \in out : exports'[j].ord = v
  <2>1. i \in unset
    BY <1>2, <1>17
  <2>2. PICK u \in 1..k : order[u] = i
    BY <1>8, <2>1
  <2>3. exports'[i].ord = given[u] /\ given[u] \in Nat /\ u \in 0..k
    BY <1>14, <1>15, <2>2
  <2>4. v \in Nat \ {0} /\ v < given[u]
    BY <2>3
  <2>5. v \in taken \/ \E j \in 1..k : given[j] = v
    BY <1>10, <2>3, <2>4, GapsFill
  <2>6. CASE v \in taken
    <3>1. PICK j \in out : exports[j].ord = v
      BY <1>1, <1>9, <2>6 DEF TakenOrds
    <3>2. j \notin unset
      BY <1>2, <2>4, <3>1
    <3>3. QED BY <1>13, <3>1, <3>2
  <2>7. CASE \E j \in 1..k : given[j] = v
    <3>1. PICK j \in 1..k : given[j] = v
      BY <2>7
    <3>2. order[j] \in out /\ exports'[order[j]].ord = v
      BY <1>2, <1>14, <3>1
    <3>3. QED BY <3>2
  <2>8. QED BY <2>5, <2>6, <2>7
<1>18. ASSUME NEW i \in out, exports[i].ord # 0 PROVE exports'[i].ord = exports[i].ord
  BY <1>2, <1>13, <1>18
<1>19. QED BY <1>1, <1>16, <1>17, <1>18 DEF Assigned

\* The exports of an image have numbers of their own: the user's are kept, and
\* the linker fills the gaps they leave from 1 on (struct.cpp:910-997,
\* PrepareExport).
THEOREM OrdinalsOf == Spec => OrdinalsAssigned
<1>1. BindingOK /\ NumbersOK /\ [Next]_vars
        => [phase = "prepare" /\ phase' = "roots" /\ errors' = 0 => Assigned]_vars
  <2> SUFFICES ASSUME BindingOK, NumbersOK, Next, phase = "prepare", phase' = "roots", errors' = 0
               PROVE  Assigned
    OBVIOUS
  <2>1. PrepareExport
    BY DEF Next, Option, OpenFile, ReadDeclaration, ReadExport, FileRead, Link, EntryRoot, ExportRoot,
           RootsCollected, FixupToName, FixupToSegment, Descriptor, Return, CollectAllSegments, PassFile,
           CollectAllAgain, Place, CreateImages, Linking
  <2>2. QED BY <2>1, PrepareExportAssigns
<1>2. QED BY <1>1, LinkingInv, NumbersInv, PTL DEF Spec, OrdinalsAssigned, Assigned

=============================================================================
