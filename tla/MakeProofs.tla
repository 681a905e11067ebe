------------------------------ MODULE MakeProofs ------------------------------
(***************************************************************************)
(* The make facility for any program, any order that Regulate computes,    *)
(* any history of edits, removals, kills and failures, and any options, as *)
(* long as dates tell events apart (Ties = FALSE).                         *)
(***************************************************************************)
EXTENDS Make, SequenceFacts

-----------------------------------------------------------------------------
(* The invariant *)

Passed == {plan[i] : i \in 1..pos - 1}
SymPassed == IF step = "code" THEN Passed \cup {cur} ELSE Passed

TypeInv ==
  /\ options \in [changesym : BOOLEAN, m2cmpsym : BOOLEAN]
  /\ src \in [Unit -> [time : Nat, body : Nat, iface : Nat]]
  /\ DOMAIN sym = Defs /\ \A u \in Defs : sym[u] # None => sym[u] \in SymFile(u)
  /\ DOMAIN code = Imps /\ \A u \in Imps : code[u] # None => code[u] \in CodeFile(u)
  /\ sym = [u \in Defs |-> sym[u]] /\ code = [u \in Imps |-> code[u]]
  /\ clock \in Nat /\ vers \in Nat
  /\ job \in {"idle", "make", "batch", "compile", "run"}
  /\ plan \in Seq(Unit) /\ pos \in 1..Len(plan) + 1
  /\ step \in {"decide", "compile", "sym", "code"}
  /\ failed \subseteq Unit /\ errs \in Nat
  /\ batch # None => batch \in Seq(Unit)

\* Nothing comes twice in p or before what it imports.
ImportsPrecede(p) ==
  \A i, j \in 1..Len(p) : i < j => p[i] # p[j] /\ p[j] \notin Imports[p[i]]

JobInv ==
  /\ Idle => plan = <<>> /\ pos = 1 /\ step = "decide"
  /\ job \in {"make", "batch"} => plan = Order
  /\ job \in {"compile", "run"} => step # "decide"
  /\ job = "batch" => step = "decide" /\ batch # None
  /\ step \in {"sym", "code"} \/ (job = "make" /\ step # "decide") => pos <= Len(plan)
  /\ ImportsPrecede(plan)
  /\ batch # None => ImportsPrecede(batch)
  /\ job = "batch" => ToSet(batch) \subseteq Passed
  /\ clean # "none" => Idle

\* The dates of files.  What the present job has not written yet is older than
\* whatever it will write.
DatesInv ==
  /\ \A u \in Unit : src[u].time <= clock
  /\ \A u \in Defs : sym[u] # None =>
       sym[u].time <= clock /\ (~Idle /\ u \notin SymPassed => sym[u].time < clock)
  /\ \A u \in Imps : code[u] # None =>
       code[u].time <= clock /\ (~Idle /\ u \notin Passed => code[u].time < clock)

\* Interfaces that others have seen are not newer than the present ones.
InterfaceInv ==
  \A u \in Defs : sym[u] # None =>
    /\ sym[u].iface <= src[u].iface
    /\ \A m \in Uses[u] :
         /\ sym[u].uses[m].iface <= src[m].iface
         /\ sym[m] # None => sym[u].uses[m].iface <= sym[m].iface

\* The symbol file of u says of its import q, and of what q shows, what that of q
\* does, or that of q is out of date itself.
Agrees(u, q) ==
  /\ q \in Uses[u] => sym[u].uses[q] = Stamp(sym[q])
  /\ \A m \in Uses[u] \cap Uses[q] :
       \/ sym[u].uses[m] = sym[q].uses[m]
       \/ sym[q].uses[m].iface < sym[u].uses[m].iface
AgreesSince(u, t) ==
  /\ src[u].time <= t => sym[u].iface = src[u].iface
  /\ \A q \in Imports[u] : sym[q] # None /\ sym[q].time <= t => Agrees(u, q)

\* What dates say: an output that is not older than an input was made from it.
SymMade(u)  == AgreesSince(u, sym[u].time)
CodeMade(u) ==
  LET t == code[u].time
  IN  /\ src[u].time <= t => code[u].body = src[u].body /\ code[u].iface = src[u].iface
      /\ \A q \in Imports[u] :
           sym[q] # None /\ sym[q].time <= t => code[u].seen[q] = Stamp(sym[q])
      /\ u \in Defs /\ sym[u] # None => AgreesSince(u, t)
MadeFrom ==
  /\ \A u \in Defs : sym[u] # None => SymMade(u)
  /\ \A u \in Imps : code[u] # None => CodeMade(u)

\* The symbol files loaded for u agree on every key, and u knows modules as they are.
Consistent(u) ==
  /\ \A q \in Loaded[u] : \A m \in Uses[q] \cap Loaded[u] : sym[q].uses[m].key = sym[m].key
  /\ \A m \in Loaded[u] : Known(u, m) = Stamp(sym[m])

\* What a compilation has loaded is there until it has written its files, and
\* agrees if nothing was mixed.
LoadedRight ==
  step \in {"sym", "code"} =>
    /\ Consistent(cur)
    /\ step = "code" /\ cur \in Defs => FreshSym(cur)
CompileInv ==
  /\ step \in {"sym", "code"} =>
       /\ step = "sym" => cur \in Defs
       /\ step = "code" => cur \in Imps
       /\ ~MissingSym(cur)
       /\ step = "code" /\ cur \in Defs => sym[cur] # None
  /\ ~mixed => LoadedRight

Fresh(u) == (u \in Defs => FreshSym(u)) /\ (u \in Imps => FreshCode(u))
Settled(u) == OutOfDate(u) => options.m2cmpsym /\ Mode[u] = "def"

\* In a make the clients of what is marked are marked when the loop has passed them.
MarksInv ==
  job = "make" =>
    /\ failed \subseteq Passed
    /\ failed # {} => errs # 0
    /\ \A u \in Passed : Loaded[u] \cap failed # {} => u \in failed
    /\ step # "decide" => ~Doubtful(cur)

\* Nothing was mixed, or everything is made anew.
Sure == ~mixed \/ all
Right(u) ==
  /\ u \in Defs => sym[u] # None
  /\ Settled(u)
  /\ Sure => Fresh(u)

\* In a make what the loop has passed is right, or is marked.
MakeInv ==
  job = "make" =>
    /\ \A u \in Passed \ failed : Right(u)
    /\ Sure => LoadedRight
    /\ 425 \notin faults
    /\ 192 \in faults => ~Sure

CleanInv == clean = "make" => \A u \in Unit : Settled(u) /\ (~mixed => Fresh(u))

\* What does not depend on dates, and what does.
FlowInv == TypeInv /\ JobInv /\ InterfaceInv /\ CompileInv /\ MarksInv
Inv == FlowInv /\ DatesInv /\ (~mixed => MadeFrom) /\ MakeInv /\ CleanInv

-----------------------------------------------------------------------------
(* Imports and their order *)

\* Imports, and what is loaded with them, come first in the order.
LEMMA LoadedBefore ==
  ASSUME NEW i \in 1..Len(Order)
  PROVE  Loaded[Order[i]] \subseteq {Order[j] : j \in 1..i - 1}
<1> DEFINE u == Order[i]
           S == {Order[j] : j \in 1..i - 1} \cap Defs
<1>1. u \in Unit
  BY OrderIsRegulated
<1>2. S \in SUBSET Defs
  OBVIOUS
<1>3. ASSUME NEW k \in 1..Len(Order), k <= i PROVE Imports[Order[k]] \subseteq S
  <2>1. Order[k] \in Unit /\ Imports[Order[k]] \subseteq Defs
    BY OrderIsRegulated, UnitsAreModules
  <2>2. ASSUME NEW m \in Imports[Order[k]] PROVE m \in {Order[j] : j \in 1..i - 1}
    <3>1. PICK j \in 1..k - 1 : Order[j] = m
      BY OrderIsRegulated
    <3>2. j \in 1..i - 1
      BY <1>3
    <3>3. QED
      BY <3>1, <3>2
  <2>3. QED
    BY <2>1, <2>2
<1>4. Imports[u] \subseteq S
  BY <1>3
<1>5. \A x \in S : Imports[x] \subseteq S
  BY <1>3
<1>6. Loaded[u] \subseteq S
  BY <1>1, <1>2, <1>4, <1>5 DEF Loaded
<1>7. QED
  BY <1>6

\* Every unit has a place in the order.
LEMMA Placed ==
  ASSUME NEW u \in Unit
  PROVE  \E i \in 1..Len(Order) : Order[i] = u
BY OrderIsRegulated, ToSetMember

LEMMA NotLoadedByItself ==
  ASSUME NEW u \in Unit
  PROVE  u \notin Loaded[u]
<1>1. PICK i \in 1..Len(Order) : Order[i] = u
  BY Placed
<1>2. Loaded[u] \subseteq {Order[j] : j \in 1..i - 1}
  BY <1>1, LoadedBefore
<1>3. \A j \in 1..i - 1 : j \in 1..Len(Order) /\ j # i
  OBVIOUS
<1>4. \A j \in 1..i - 1 : Order[j] # Order[i]
  BY <1>3, OrderIsRegulated, InjectiveSeq
<1>5. QED
  BY <1>1, <1>2, <1>4

\* What is loaded is closed under imports.
LEMMA LoadedClosed ==
  ASSUME NEW u \in Unit
  PROVE  /\ Loaded[u] \subseteq Defs /\ Imports[u] \subseteq Loaded[u]
         /\ \A q \in Loaded[u] : Imports[q] \subseteq Loaded[u]
         /\ \A q \in Loaded[u] : Loaded[q] \subseteq Loaded[u]
<1>1. Imports[u] \subseteq Defs
  BY UnitsAreModules
<1>2. Loaded[u] \subseteq Defs /\ Imports[u] \subseteq Loaded[u]
  BY <1>1 DEF Loaded
<1>3. ASSUME NEW q \in Loaded[u] PROVE Imports[q] \subseteq Loaded[u]
  <2>1. q \in Defs /\ q \in Unit /\ Imports[q] \subseteq Defs
    BY <1>2, UnitsAreModules DEF Defs
  <2>2. QED
    BY <2>1 DEF Loaded
<1>4. ASSUME NEW q \in Loaded[u] PROVE Loaded[q] \subseteq Loaded[u]
  <2>1. q \in Unit /\ Loaded[u] \in SUBSET Defs
    BY <1>2 DEF Defs
  <2>2. QED
    BY <1>3, <2>1 DEF Loaded
<1>5. QED
  BY <1>2, <1>3, <1>4

\* What is loaded is imported, or loaded by an import.
LEMMA LoadedThrough ==
  ASSUME NEW u \in Unit, NEW x \in Loaded[u]
  PROVE  x \in Imports[u] \/ \E q \in Imports[u] : x \in Loaded[q]
<1> DEFINE S == Imports[u] \cup UNION {Loaded[q] : q \in Imports[u]}
<1>1. Imports[u] \subseteq Defs /\ Imports[u] \subseteq Unit
  BY UnitsAreModules DEF Defs
<1>2. S \in SUBSET Defs
  BY <1>1, LoadedClosed
<1>3. ASSUME NEW y \in S PROVE Imports[y] \subseteq S
  <2>1. CASE y \in Imports[u]
    BY <1>1, <2>1, LoadedClosed
  <2>2. ASSUME NEW q \in Imports[u], y \in Loaded[q] PROVE Imports[y] \subseteq S
    BY <1>1, <2>2, LoadedClosed
  <2>3. QED
    BY <1>3, <2>1, <2>2
<1>4. Loaded[u] \subseteq S
  BY <1>2, <1>3 DEF Loaded
<1>5. QED
  BY <1>4

\* So is what interfaces show.
LEMMA UsesAreLoaded ==
  ASSUME NEW u \in Defs
  PROVE  Uses[u] \subseteq Loaded[u]
<1> DEFINE Wrong == {i \in 1..Len(Order) : Order[i] \in Defs /\ ~(Uses[Order[i]] \subseteq Loaded[Order[i]])}
<1>1. Wrong = {}
  <2>1. SUFFICES ASSUME Wrong # {} PROVE FALSE
    OBVIOUS
  <2>2. Wrong \in SUBSET Nat
    OBVIOUS
  <2> DEFINE i == Min(Wrong)
  <2>3. i \in Wrong /\ \A j \in Wrong : i <= j
    BY <2>1, <2>2, LeastExists
  <2> HIDE DEF i
  <2> DEFINE v == Order[i]
  <2>4. PICK m \in Uses[v] : m \notin Loaded[v]
    BY <2>3
  <2>5. v \in Defs /\ v \in Unit
    BY <2>3 DEF Defs
  <2>6. m \notin Imports[v]
    BY <2>4, <2>5, LoadedClosed
  <2>7. PICK q \in Imports[v] : m \in Uses[q]
    BY <2>4, <2>5, <2>6, UnitsAreModules
  <2>8. PICK j \in 1..i - 1 : Order[j] = q
    BY <2>3, OrderIsRegulated
  <2>9. q \in Defs /\ j \in 1..Len(Order) /\ j < i
    BY <2>3, <2>5, <2>8, UnitsAreModules
  <2>10. j \notin Wrong
    BY <2>3, <2>9
  <2>11. Uses[q] \subseteq Loaded[q]
    BY <2>8, <2>9, <2>10
  <2>12. Loaded[q] \subseteq Loaded[v]
    BY <2>5, LoadedClosed
  <2>13. QED
    BY <2>4, <2>7, <2>11, <2>12
<1>2. u \in Unit
  BY DEF Defs
<1>3. PICK i \in 1..Len(Order) : Order[i] = u
  BY <1>2, Placed
<1>4. i \notin Wrong
  BY <1>1
<1>5. QED
  BY <1>3, <1>4

LEMMA OrderPrecedes == ImportsPrecede(Order)
<1> SUFFICES ASSUME NEW i \in 1..Len(Order), NEW j \in 1..Len(Order), i < j
             PROVE  Order[i] # Order[j] /\ Order[j] \notin Imports[Order[i]]
  BY DEF ImportsPrecede
<1>1. \A k, l \in 1..Len(Order) : Order[k] = Order[l] => k = l
  BY OrderIsRegulated, InjectiveSeq
<1>2. ASSUME Order[j] \in Imports[Order[i]] PROVE FALSE
  <2>1. PICK k \in 1..i - 1 : Order[k] = Order[j]
    BY <1>2, OrderIsRegulated
  <2>2. k \in 1..Len(Order) /\ k # j
    OBVIOUS
  <2>3. QED
    BY <1>1, <2>1, <2>2
<1>3. QED
  BY <1>1, <1>2

-----------------------------------------------------------------------------
(* Types *)

LEMMA CurrentUnit ==
  ASSUME TypeInv, pos <= Len(plan)
  PROVE  /\ cur \in Unit /\ cur \in ToSet(plan)
         /\ pos \in 1..Len(plan) /\ pos + 1 \in 1..Len(plan) + 1
<1>1. plan \in Seq(Unit) /\ pos \in 1..Len(plan)
  BY DEF TypeInv
<1>2. cur = plan[pos]
  BY DEF cur
<1>3. QED
  BY <1>1, <1>2, ToSetMember

LEMMA PassedGrows ==
  ASSUME TypeInv, pos <= Len(plan), pos' = pos + 1, plan' = plan
  PROVE  Passed' = Passed \cup {cur}
<1>1. pos \in Nat /\ pos >= 1
  BY DEF TypeInv
<1>2. 1..pos = (1..pos - 1) \cup {pos}
  BY <1>1
<1>3. Passed' = {plan[i] : i \in 1..pos}
  BY <1>1 DEF Passed
<1>4. QED
  BY <1>2, <1>3 DEF Passed, cur

\* Every import of a unit that is loaded completely has a symbol file.
LEMMA LoadedThere ==
  ASSUME TypeInv, NEW u \in Unit, ~MissingSym(u), NEW m \in Loaded[u]
  PROVE  m \in Defs /\ sym[m] # None /\ sym[m] \in SymFile(m) /\ Stamp(sym[m]) \in Stamps
<1>1. m \in Defs
  BY LoadedClosed
<1>2. sym[m] # None /\ sym[m] \in SymFile(m)
  BY <1>1 DEF MissingSym, TypeInv
<1>3. QED
  BY <1>1, <1>2 DEF SymFile, Stamp, Stamps

\* A file that shows a module before its own is read.
LEMMA EarlyFile ==
  ASSUME NEW u \in Unit, NEW m, NEW i \in Early(u, m)
  PROVE  /\ i \in 1..Len(Reads[u]) /\ Reads[u][i] \in Loaded[u] /\ m \in Uses[Reads[u][i]]
         /\ Early(u, m) # {} /\ Min(Early(u, m)) \in Early(u, m)
<1>1. i \in 1..Len(Reads[u]) /\ m \in Uses[Reads[u][i]] /\ Early(u, m) # {} /\ Early(u, m) \in SUBSET Nat
  BY DEF Early
<1>2. Reads[u] \in Seq(Defs) /\ ToSet(Reads[u]) = Loaded[u]
  BY FilesAreRead
<1>3. Reads[u][i] \in Loaded[u]
  BY <1>1, <1>2, ToSetMember
<1>4. Min(Early(u, m)) \in Early(u, m)
  BY <1>1, LeastExists
<1>5. QED
  BY <1>1, <1>3, <1>4

\* What a unit gets to know: the present key, and an interface that is not newer.
LEMMA KnownStamp ==
  ASSUME TypeInv, NEW u \in Unit, ~MissingSym(u), NEW m \in Loaded[u]
  PROVE  /\ Known(u, m) \in Stamps /\ Known(u, m).iface \in Nat /\ Known(u, m).key = sym[m].key
         /\ InterfaceInv => Known(u, m).iface <= sym[m].iface
<1>1. m \in Defs /\ sym[m] # None /\ sym[m].key \in Nat /\ sym[m].iface \in Nat
  BY LoadedThere DEF SymFile
<1>2. CASE Early(u, m) = {}
  <2>1. Known(u, m) = [key |-> sym[m].key, iface |-> sym[m].iface]
    BY <1>2 DEF Known
  <2>2. QED
    BY <1>1, <2>1 DEF Stamps
<1>3. CASE Early(u, m) # {}
  <2>1. PICK i : i = Min(Early(u, m)) /\ i \in Early(u, m)
    BY <1>3, EarlyFile
  <2>2. Reads[u][i] \in Loaded[u] /\ m \in Uses[Reads[u][i]]
    BY <2>1, EarlyFile
  <2>3. PICK s \in Defs : s = Reads[u][i] /\ sym[s] # None
    BY <2>2, LoadedThere
  <2>4. sym[s].uses[m].iface \in Nat /\ (InterfaceInv => sym[s].uses[m].iface <= sym[m].iface)
    <3>1. sym[s] \in SymFile(s) /\ m \in Uses[s]
      BY <2>2, <2>3 DEF TypeInv
    <3>2. sym[s].uses[m] \in Stamps
      BY <3>1 DEF SymFile
    <3>3. QED
      BY <1>1, <2>3, <3>1, <3>2 DEF Stamps, InterfaceInv
  <2>5. Known(u, m) = [key |-> sym[m].key, iface |-> sym[s].uses[m].iface]
    BY <1>3, <2>1, <2>3 DEF Known
  <2>6. QED
    BY <1>1, <2>4, <2>5 DEF Stamps
<1>4. QED
  BY <1>2, <1>3

LEMMA NewFiles ==
  ASSUME TypeInv, NEW u \in Unit, ~MissingSym(u), NEW t \in Nat
  PROVE  /\ u \in Defs => NewSym(u, t) \in SymFile(u) /\ NewSym(u, t) # None
         /\ u \in Imps => NewCode(u, t) \in CodeFile(u) /\ NewCode(u, t) # None
<1>1. src[u] \in [time : Nat, body : Nat, iface : Nat] /\ vers \in Nat
  BY DEF TypeInv
<1>2. ASSUME u \in Defs PROVE NewSym(u, t) \in SymFile(u) /\ NewSym(u, t) # None
  <2>1. \A m \in Uses[u] : Known(u, m) \in Stamps
    BY <1>2, UsesAreLoaded, KnownStamp
  <2>2. [m \in Uses[u] |-> Known(u, m)] \in [Uses[u] -> Stamps]
    BY <2>1
  <2>3. NewSym(u, t) \in SymFile(u)
    BY <1>1, <2>2 DEF NewSym, SymFile
  <2>4. QED
    BY <1>2, <2>3, NoneIsNoFile
<1>3. ASSUME u \in Imps PROVE NewCode(u, t) \in CodeFile(u) /\ NewCode(u, t) # None
  <2>1. \A m \in Imports[u] : Known(u, m) \in Stamps
    BY LoadedClosed, KnownStamp
  <2>2. [m \in Imports[u] |-> Known(u, m)] \in [Imports[u] -> Stamps]
    BY <2>1
  <2>3. NewCode(u, t) \in CodeFile(u)
    BY <1>1, <2>2 DEF NewCode, CodeFile
  <2>4. QED
    BY <1>3, <2>3, NoneIsNoFile
<1>4. QED
  BY <1>2, <1>3

LEMMA ClockRuns ==
  ASSUME TypeInv, NextTick \/ WriteTick
  PROVE  clock' \in Nat /\ clock <= clock' /\ (NextTick /\ Ties = FALSE => clock < clock')
<1>1. clock \in Nat
  BY DEF TypeInv
<1>2. CASE WriteTick
  BY <1>1, <1>2 DEF WriteTick, NextTick
<1>3. CASE NextTick
  <2>1. CASE Ties
    BY <1>1, <1>3, <2>1 DEF NextTick
  <2>2. CASE ~Ties
    BY <1>1, <1>3, <2>2 DEF NextTick
  <2>3. QED
    BY <2>1, <2>2
<1>4. QED
  BY <1>2, <1>3

\* How a job moves.
LEMMA AdvanceMoves ==
  ASSUME TypeInv, pos <= Len(plan), Advance, plan' = plan
  PROVE  /\ pos' = pos + 1 /\ pos' \in 1..Len(plan') + 1
         /\ step' \in {"decide", "compile"}
         /\ job \in {"make", "batch"} => step' = "decide"
         /\ job \notin {"make", "batch"} => step' = "compile"
BY CurrentUnit DEF Advance, TypeInv

\* A job in which a unit is done.
LEMMA FailMoves ==
  ASSUME TypeInv, pos <= Len(plan), NEW f, Fail(f), plan' = plan
  PROVE  /\ Advance /\ failed' = failed \cup {cur} /\ failed' \subseteq Unit
         /\ errs' = errs + 1 /\ errs' \in Nat /\ faults' = faults \cup f
<1>1. Advance /\ failed' = failed \cup {cur} /\ errs' = errs + 1 /\ faults' = faults \cup f
  BY DEF Fail
<1>2. cur \in Unit /\ failed \subseteq Unit /\ errs \in Nat
  BY CurrentUnit DEF TypeInv
<1>3. errs' \in Nat
  BY <1>1, <1>2
<1>4. failed' \subseteq Unit
  BY <1>1, <1>2
<1>5. QED
  BY <1>1, <1>3, <1>4

LEMMA TypeDisk ==
  ASSUME TypeInv, disk' = disk, clock' \in Nat, vers' \in Nat, options' = options,
         job' \in {"idle", "make", "batch", "compile", "run"},
         plan' \in Seq(Unit), pos' \in 1..Len(plan') + 1,
         step' \in {"decide", "compile", "sym", "code"},
         failed' \subseteq Unit, errs' \in Nat,
         batch' # None => batch' \in Seq(Unit)
  PROVE  TypeInv'
<1>1. src' = src /\ sym' = sym /\ code' = code
  BY DEF disk
<1>2. QED
  BY <1>1 DEF TypeInv

\* What a process begins with.
LEMMA BeginMoves ==
  ASSUME TypeInv, NEW j \in {"make", "batch", "compile", "run"}, NEW a, NEW p \in Seq(Unit), Begin(j, a, p)
  PROVE  /\ disk' = disk /\ src' = src /\ sym' = sym /\ code' = code
         /\ NextTick /\ clock' \in Nat /\ vers' = clock' /\ events' = events
         /\ job = "idle" /\ job' = j /\ plan' = p /\ pos' = 1 /\ pos' \in 1..Len(plan') + 1
         /\ step' \in {"decide", "compile"}
         /\ j \in {"make", "batch"} => step' = "decide"
         /\ j \notin {"make", "batch"} => step' = "compile"
         /\ failed' = {} /\ faults' = {} /\ errs' = 0 /\ clean' = "none"
         /\ batch' = IF j = "batch" THEN <<>> ELSE None
<1>1. NextTick /\ Idle
  BY DEF Begin
<1>2. clock' \in Nat
  BY <1>1, ClockRuns
<1>3. 1 \in 1..Len(p) + 1
  OBVIOUS
<1>4. QED
  BY <1>1, <1>2, <1>3 DEF Begin, Idle, disk

\* The processes the user starts, with what they go through.
Starts(j, a, p) ==
  /\ a \in BOOLEAN /\ Begin(j, a, p)
  /\ \/ j \in {"make", "batch"} /\ p = Order
     \/ j = "run" /\ batch # None /\ p = batch
     \/ j = "compile" /\ \E u \in Unit : p = <<u>>

LEMMA StartsWith ==
  ASSUME TypeInv, NEW j, NEW a, NEW p, Starts(j, a, p)
  PROVE  j \in {"make", "batch", "compile", "run"} /\ p \in Seq(Unit)
<1>1. CASE j \in {"make", "batch"} /\ p = Order
  BY <1>1, OrderIsRegulated
<1>2. CASE j = "run" /\ batch # None /\ p = batch
  BY <1>2 DEF TypeInv
<1>3. ASSUME NEW u \in Unit, j = "compile", p = <<u>> PROVE j \in {"make", "batch", "compile", "run"} /\ p \in Seq(Unit)
  BY <1>3
<1>4. QED
  BY <1>1, <1>2, <1>3 DEF Starts

\* What can happen, for proofs by cases.
LEMMA Cases ==
  ASSUME User \/ Work
  PROVE  \/ \E u \in Unit : \E part \in {"body", "iface"} : Edit(u, part)
         \/ \E u \in Defs : RemoveSym(u)
         \/ \E u \in Imps : RemoveCode(u)
         \/ \E j : \E a : \E p : Starts(j, a, p)
         \/ Kill \/ Finish \/ Invalidate \/ Skip \/ Take \/ Compile \/ WriteSym \/ WriteCode
<1>1. CASE Work
  BY <1>1 DEF Work
<1>2. CASE User
  <2>1. ASSUME NEW a \in BOOLEAN, StartMake(a) PROVE Starts("make", a, Order)
    BY <2>1 DEF StartMake, Starts
  <2>2. ASSUME StartBatch PROVE Starts("batch", FALSE, Order)
    BY <2>2 DEF StartBatch, Starts
  <2>3. ASSUME RunBatch PROVE Starts("run", FALSE, batch)
    BY <2>3 DEF RunBatch, Starts
  <2>4. ASSUME NEW u \in Unit, StartCompile(u) PROVE Starts("compile", FALSE, <<u>>)
    BY <2>4 DEF StartCompile, Starts
  <2>5. QED
    BY <1>2, <2>1, <2>2, <2>3, <2>4 DEF User
<1>3. QED
  BY <1>1, <1>2

LEMMA Bounds ==
  ASSUME TypeInv
  PROVE  /\ clock \in Nat /\ vers \in Nat /\ errs \in Nat /\ plan \in Seq(Unit) /\ failed \subseteq Unit
         /\ pos \in 1..Len(plan) + 1 /\ options \in [changesym : BOOLEAN, m2cmpsym : BOOLEAN]
         /\ job \in {"idle", "make", "batch", "compile", "run"}
         /\ step \in {"decide", "compile", "sym", "code"}
         /\ batch # None => batch \in Seq(Unit)
BY DEF TypeInv

\* Where the reading does not stop all files are there.
LEMMA NothingMissing ==
  ASSUME NEW u \in Unit, Stops(u) = {}
  PROVE  ~MissingSym(u)
<1>1. SUFFICES ASSUME NEW m \in Loaded[u], sym[m] = None PROVE FALSE
  BY DEF MissingSym
<1>2. Reads[u] \in Seq(Defs) /\ m \in ToSet(Reads[u])
  BY FilesAreRead
<1>3. PICK i \in 1..Len(Reads[u]) : Reads[u][i] = m
  BY <1>2, ToSetMember
<1>4. i \in Stops(u)
  BY <1>1, <1>3 DEF Stops
<1>5. QED
  BY <1>4

\* Where it does and all files are there, it is because of two keys.
LEMMA StopsAtClash ==
  ASSUME NEW u \in Unit, ~MissingSym(u), NEW i \in Stops(u)
  PROVE  i \in 1..Len(Reads[u]) /\ Reads[u][i] \in Loaded[u] /\ sym[Reads[u][i]] # None /\ Clash(u, i)
<1>1. i \in 1..Len(Reads[u])
  BY DEF Stops
<1>2. Reads[u] \in Seq(Defs) /\ ToSet(Reads[u]) = Loaded[u]
  BY FilesAreRead
<1>3. Reads[u][i] \in Loaded[u]
  BY <1>1, <1>2, ToSetMember
<1>4. sym[Reads[u][i]] # None
  BY <1>3 DEF MissingSym
<1>5. QED
  BY <1>1, <1>3, <1>4 DEF Stops

LEMMA CompileMoves ==
  ASSUME TypeInv, Compile
  PROVE  /\ job # "idle" /\ step = "compile" /\ pos <= Len(plan) /\ cur \in Unit
         /\ vers' \in Nat /\ disk' = disk /\ plan' = plan /\ job' = job /\ clock' = clock /\ all' = all
         /\ batch' = batch /\ clean' = clean
         /\ \/ \E f : Fail(f) /\ (f = {} \/ (f = {425} /\ MissingSym(cur)) \/ (f = {192} /\ Stops(cur) # {}))
            \/ /\ Stops(cur) = {} /\ ~MissingSym(cur)
               /\ step' = IF cur \in Defs THEN "sym" ELSE "code"
               /\ pos' = pos /\ failed' = failed /\ errs' = errs /\ faults' = faults
<1>1. Running("compile") /\ disk' = disk /\ plan' = plan /\ job' = job /\ clock' = clock /\ all' = all
      /\ batch' = batch /\ clean' = clean
  BY DEF Compile, disk
<1>2. job # "idle" /\ step = "compile" /\ pos <= Len(plan) /\ cur \in Unit
  BY <1>1, CurrentUnit DEF Running, Idle
<1>3. vers' \in Nat
  BY Bounds DEF Compile
<1>4. ASSUME NEW i \in Stops(cur), Fail({IF sym[Reads[cur][i]] = None THEN 425 ELSE 192})
      PROVE  \E f : Fail(f) /\ (f = {} \/ (f = {425} /\ MissingSym(cur)) \/ (f = {192} /\ Stops(cur) # {}))
  <2>1. CASE sym[Reads[cur][i]] = None
    <3>1. Reads[cur][i] \in Loaded[cur]
      BY <1>2, FilesAreRead, ToSetMember DEF Stops
    <3>2. MissingSym(cur) /\ Fail({425})
      BY <1>4, <2>1, <3>1 DEF MissingSym
    <3>3. QED
      BY <3>2
  <2>2. CASE sym[Reads[cur][i]] # None
    <3>1. Fail({192}) /\ Stops(cur) # {}
      BY <1>4, <2>2
    <3>2. QED
      BY <3>1
  <2>3. QED
    BY <2>1, <2>2
<1>5. CASE Stops(cur) = {} /\ step' = (IF cur \in Defs THEN "sym" ELSE "code")
           /\ UNCHANGED <<pos, failed, errs, faults, events>>
  BY <1>1, <1>2, <1>3, <1>5, NothingMissing
<1>6. CASE Fail({})
  BY <1>1, <1>2, <1>3, <1>6
<1>7. CASE \E i \in Stops(cur) : Fail({IF sym[Reads[cur][i]] = None THEN 425 ELSE 192})
  BY <1>1, <1>2, <1>3, <1>4, <1>7
<1> DEFINE On == /\ Stops(cur) = {} /\ step' = (IF cur \in Defs THEN "sym" ELSE "code")
                 /\ UNCHANGED <<pos, failed, errs, faults, events>>
           Failed(i) == Fail({IF sym[Reads[cur][i]] = None THEN 425 ELSE 192})
<1>8. (\E i \in Stops(cur) : Failed(i)) \/ Fail({}) \/ On
  <2> HIDE DEF Failed
  <2>1. \/ \E i \in Stops(cur) : (\A j \in Stops(cur) : i <= j) /\ Failed(i)
        \/ Fail({}) \/ On
    BY DEF Compile, Failed
  <2>2. QED
    BY <2>1
<1>9. QED
  BY <1>5, <1>6, <1>7, <1>8

LEMMA WriteSymMoves ==
  ASSUME TypeInv, CompileInv, WriteSym
  PROVE  /\ job # "idle" /\ step = "sym" /\ pos <= Len(plan) /\ cur \in Defs
         /\ WriteTick /\ clock' \in Nat /\ clock <= clock'
         /\ NewSym(cur, clock') \in SymFile(cur) /\ NewSym(cur, clock') # None
         /\ src' = src /\ code' = code /\ vers' = vers /\ plan' = plan /\ job' = job /\ all' = all
         /\ batch' = batch /\ clean' = clean
         /\ \/ /\ sym' = sym /\ sym[cur] # None /\ Compared(cur) /\ SameSym(sym[cur], NewSym(cur, clock'))
               /\ SymDone /\ failed' = failed /\ errs' = errs /\ faults' = faults
            \/ /\ sym' = sym /\ Fail({193})
            \/ /\ sym' = [sym EXCEPT ![cur] = NewSym(cur, clock')]
               /\ SymDone /\ failed' = failed /\ errs' = errs /\ faults' = faults
<1>1. /\ Running("sym") /\ WriteTick
      /\ src' = src /\ code' = code /\ vers' = vers /\ plan' = plan /\ job' = job /\ all' = all
      /\ batch' = batch /\ clean' = clean
  BY DEF WriteSym
<1>2. job # "idle" /\ step = "sym" /\ pos <= Len(plan)
  BY <1>1 DEF Running, Idle
<1>3. clock' \in Nat /\ clock <= clock'
  BY <1>1, ClockRuns
<1>4. cur \in Defs /\ cur \in Unit /\ ~MissingSym(cur)
  BY <1>2 DEF CompileInv, Defs
<1>5. NewSym(cur, clock') \in SymFile(cur) /\ NewSym(cur, clock') # None
  BY <1>3, <1>4, NewFiles
<1>6. CASE Compared(cur) /\ SameSym(sym[cur], NewSym(cur, clock'))
  <2>1. SymDone /\ UNCHANGED <<sym, failed, errs, faults>>
    BY <1>6 DEF WriteSym
  <2>2. QED
    BY <1>1, <1>2, <1>3, <1>4, <1>5, <1>6, <2>1 DEF Compared
<1>7. CASE Compared(cur) /\ ~SameSym(sym[cur], NewSym(cur, clock')) /\ ~options.changesym
  <2>1. Fail({193}) /\ UNCHANGED sym
    BY <1>7 DEF WriteSym
  <2>2. QED
    BY <1>1, <1>2, <1>3, <1>4, <1>5, <2>1
<1>8. CASE ~(Compared(cur) /\ SameSym(sym[cur], NewSym(cur, clock')))
           /\ ~(Compared(cur) /\ ~SameSym(sym[cur], NewSym(cur, clock')) /\ ~options.changesym)
  <2>1. sym' = [sym EXCEPT ![cur] = NewSym(cur, clock')] /\ SymDone /\ UNCHANGED <<failed, errs, faults>>
    BY <1>8 DEF WriteSym
  <2>2. QED
    BY <1>1, <1>2, <1>3, <1>4, <1>5, <2>1
<1>9. QED
  BY <1>6, <1>7, <1>8

LEMMA WriteCodeMoves ==
  ASSUME TypeInv, CompileInv, WriteCode
  PROVE  /\ job # "idle" /\ step = "code" /\ pos <= Len(plan) /\ cur \in Imps
         /\ WriteTick /\ clock' \in Nat /\ clock <= clock'
         /\ NewCode(cur, clock') \in CodeFile(cur) /\ NewCode(cur, clock') # None
         /\ src' = src /\ sym' = sym /\ vers' = vers /\ plan' = plan /\ job' = job /\ all' = all
         /\ batch' = batch /\ clean' = clean
         /\ \/ /\ code' = [code EXCEPT ![cur] = NewCode(cur, clock')] /\ Advance
               /\ failed' = failed /\ errs' = errs /\ faults' = faults
            \/ /\ code' = code /\ Fail({})
<1>1. /\ Running("code") /\ WriteTick
      /\ src' = src /\ sym' = sym /\ vers' = vers /\ plan' = plan /\ job' = job /\ all' = all
      /\ batch' = batch /\ clean' = clean
      /\ \/ /\ code' = [code EXCEPT ![cur] = NewCode(cur, clock')] /\ Advance
            /\ failed' = failed /\ errs' = errs /\ faults' = faults
         \/ /\ code' = code /\ Fail({})
  BY DEF WriteCode
<1>2. job # "idle" /\ step = "code" /\ pos <= Len(plan)
  BY <1>1 DEF Running, Idle
<1>3. clock' \in Nat /\ clock <= clock'
  BY <1>1, ClockRuns
<1>4. cur \in Imps /\ cur \in Unit /\ ~MissingSym(cur)
  BY <1>2 DEF CompileInv, Imps
<1>5. NewCode(cur, clock') \in CodeFile(cur) /\ NewCode(cur, clock') # None
  BY <1>3, <1>4, NewFiles
<1>6. QED
  BY <1>1, <1>2, <1>3, <1>4, <1>5

\* Going on after the symbol file.
LEMMA SymDoneMoves ==
  ASSUME TypeInv, pos <= Len(plan), SymDone, plan' = plan
  PROVE  /\ pos' \in 1..Len(plan') + 1 /\ step' \in {"decide", "compile", "sym", "code"}
         /\ \/ cur \in Imps /\ step' = "code" /\ pos' = pos
            \/ cur \notin Imps /\ Advance
<1>1. CASE cur \in Imps
  BY <1>1, Bounds DEF SymDone
<1>2. CASE cur \notin Imps
  <2>1. Advance
    BY <1>2 DEF SymDone
  <2>2. QED
    BY <1>2, <2>1, AdvanceMoves
<1>3. QED
  BY <1>1, <1>2

LEMMA TypeInit == Init => TypeInv
<1> SUFFICES ASSUME Init PROVE TypeInv
  OBVIOUS
<1>1. options \in [changesym : BOOLEAN, m2cmpsym : BOOLEAN]
  BY Options DEF Init
<1>2. plan = <<>> /\ plan \in Seq(Unit) /\ Len(plan) = 0 /\ pos \in 1..Len(plan) + 1
  BY DEF Init
<1>3. src \in [Unit -> [time : Nat, body : Nat, iface : Nat]]
  BY DEF Init
<1>4. DOMAIN sym = Defs /\ \A u \in Defs : sym[u] = None
  BY DEF Init
<1>5. DOMAIN code = Imps /\ \A u \in Imps : code[u] = None
  BY DEF Init
<1>6. sym = [u \in Defs |-> sym[u]] /\ code = [u \in Imps |-> code[u]]
  BY DEF Init
<1>7. clock \in Nat /\ vers \in Nat /\ errs \in Nat /\ failed \subseteq Unit /\ batch = None
      /\ job = "idle" /\ step = "decide"
  BY DEF Init
<1>8. QED
  BY <1>1, <1>2, <1>3, <1>4, <1>5, <1>6, <1>7 DEF TypeInv

LEMMA TypeEdit ==
  ASSUME TypeInv, NEW u \in Unit, NEW part, Edit(u, part), options' = options
  PROVE  TypeInv'
<1>1. clock' \in Nat
  BY ClockRuns DEF Edit
<1>2. src[u] \in [time : Nat, body : Nat, iface : Nat]
  BY DEF TypeInv
<1> DEFINE new == [time  |-> clock',
                   body  |-> IF part = "body" THEN src[u].body + 1 ELSE src[u].body,
                   iface |-> IF part = "iface" THEN src[u].iface + 1 ELSE src[u].iface]
<1>3. new \in [time : Nat, body : Nat, iface : Nat]
  BY <1>1, <1>2
<1>4. src' = [src EXCEPT ![u] = new]
  BY DEF Edit
<1> HIDE DEF new
<1>5. src' \in [Unit -> [time : Nat, body : Nat, iface : Nat]]
  BY <1>3, <1>4 DEF TypeInv
<1>6. UNCHANGED <<sym, code, vers, job, plan, pos, step, failed, errs, batch>>
  BY DEF Edit, run
<1>7. QED
  BY <1>1, <1>5, <1>6 DEF TypeInv

LEMMA TypeStep == TypeInv /\ JobInv /\ CompileInv /\ Next => TypeInv'
<1> SUFFICES ASSUME TypeInv, JobInv, CompileInv, User \/ Work, options' = options PROVE TypeInv'
  BY DEF Next
<1>1. ASSUME NEW u \in Unit, NEW part \in {"body", "iface"}, Edit(u, part) PROVE TypeInv'
  BY <1>1, TypeEdit
<1>2. ASSUME NEW u \in Defs, RemoveSym(u) PROVE TypeInv'
  <2>1. sym' = [sym EXCEPT ![u] = None] /\ UNCHANGED <<src, code, clock, vers, job, plan, pos, step, failed, errs, batch>>
    BY <1>2 DEF RemoveSym, run
  <2>2. DOMAIN sym' = Defs /\ sym' = [v \in Defs |-> sym'[v]]
    BY <2>1 DEF TypeInv
  <2>3. \A v \in Defs : sym'[v] # None => sym'[v] \in SymFile(v)
    BY <2>1 DEF TypeInv
  <2>4. QED
    BY <2>1, <2>2, <2>3 DEF TypeInv
<1>3. ASSUME NEW u \in Imps, RemoveCode(u) PROVE TypeInv'
  <2>1. code' = [code EXCEPT ![u] = None] /\ UNCHANGED <<src, sym, clock, vers, job, plan, pos, step, failed, errs, batch>>
    BY <1>3 DEF RemoveCode, run
  <2>2. DOMAIN code' = Imps /\ code' = [v \in Imps |-> code'[v]]
    BY <2>1 DEF TypeInv
  <2>3. \A v \in Imps : code'[v] # None => code'[v] \in CodeFile(v)
    BY <2>1 DEF TypeInv
  <2>4. QED
    BY <2>1, <2>2, <2>3 DEF TypeInv
<1>4. ASSUME NEW j, NEW a, NEW p, Starts(j, a, p) PROVE TypeInv'
  <2>1. j \in {"make", "batch", "compile", "run"} /\ p \in Seq(Unit)
    BY <1>4, StartsWith
  <2>2. Begin(j, a, p)
    BY <1>4 DEF Starts
  <2>3. /\ disk' = disk /\ clock' \in Nat /\ vers' = clock' /\ job' = j /\ plan' = p /\ pos' \in 1..Len(plan') + 1
        /\ step' \in {"decide", "compile"} /\ failed' = {} /\ errs' = 0
        /\ batch' = IF j = "batch" THEN <<>> ELSE None
    BY <2>1, <2>2, BeginMoves
  <2>4. batch' # None => batch' \in Seq(Unit)
    BY <2>3
  <2>5. QED
    BY <2>1, <2>3, <2>4, TypeDisk
<1>5. CASE Kill
  <2>1. /\ disk' = disk /\ UNCHANGED <<clock, vers>> /\ job' = "idle" /\ plan' = <<>> /\ pos' = 1 /\ step' = "decide"
        /\ failed' = {} /\ errs' = 0 /\ batch' = None
    BY <1>5 DEF Kill
  <2>2. plan' \in Seq(Unit) /\ Len(plan') = 0
    BY <2>1
  <2>3. QED
    BY <2>1, <2>2, Bounds, TypeDisk
<1>6. CASE Finish
  <2>1. /\ disk' = disk /\ UNCHANGED <<clock, vers>> /\ job' = "idle" /\ plan' = <<>> /\ pos' = 1 /\ step' = "decide"
        /\ failed' = {} /\ errs' = 0 /\ batch' = batch
    BY <1>6 DEF Finish
  <2>2. plan' \in Seq(Unit) /\ Len(plan') = 0
    BY <2>1
  <2>3. QED
    BY <2>1, <2>2, Bounds, TypeDisk
<1>7. CASE Invalidate
  <2>1. /\ pos <= Len(plan) /\ Advance /\ UNCHANGED <<disk, clock, vers, job, plan, batch>>
        /\ failed' = failed \cup {cur} /\ errs' = errs + 1
    BY <1>7 DEF Invalidate
  <2>2. pos' \in 1..Len(plan') + 1 /\ step' \in {"decide", "compile"} /\ cur \in Unit
    BY <2>1, AdvanceMoves, CurrentUnit
  <2>3. QED
    BY <2>1, <2>2, Bounds, TypeDisk
<1>8. CASE Skip
  <2>1. /\ pos <= Len(plan) /\ Advance /\ UNCHANGED <<disk, clock, vers, job, plan, batch, failed, errs>>
    BY <1>8 DEF Skip
  <2>2. pos' \in 1..Len(plan') + 1 /\ step' \in {"decide", "compile"}
    BY <2>1, AdvanceMoves
  <2>3. QED
    BY <2>1, <2>2, Bounds, TypeDisk
<1>9. CASE Take
  <2>1. /\ pos <= Len(plan) /\ UNCHANGED <<disk, clock, vers, job, plan, failed, errs>>
    BY <1>9 DEF Take
  <2>2. CASE job = "batch"
    <3>1. batch' = Append(batch, cur) /\ Advance
      BY <1>9, <2>2 DEF Take
    <3>2. pos' \in 1..Len(plan') + 1 /\ step' \in {"decide", "compile"} /\ cur \in Unit
      BY <2>1, <3>1, AdvanceMoves, CurrentUnit
    <3>3. batch \in Seq(Unit)
      BY <2>2, Bounds DEF JobInv
    <3>4. batch' # None => batch' \in Seq(Unit)
      BY <3>1, <3>2, <3>3
    <3>5. QED
      BY <2>1, <3>2, <3>4, Bounds, TypeDisk
  <2>3. CASE job # "batch"
    <3>1. step' = "compile" /\ UNCHANGED <<batch, pos>>
      BY <1>9, <2>3 DEF Take
    <3>2. QED
      BY <2>1, <3>1, Bounds, TypeDisk
  <2>4. QED
    BY <2>2, <2>3
<1>10. CASE Compile
  <2>1. /\ pos <= Len(plan) /\ vers' \in Nat /\ disk' = disk /\ plan' = plan /\ job' = job /\ clock' = clock
        /\ batch' = batch
    BY <1>10, CompileMoves
  <2>2. ASSUME NEW f, Fail(f) PROVE TypeInv'
    <3>1. Advance /\ failed' \subseteq Unit /\ errs' \in Nat
      BY <2>1, <2>2, FailMoves
    <3>2. pos' \in 1..Len(plan') + 1 /\ step' \in {"decide", "compile"}
      BY <2>1, <3>1, AdvanceMoves
    <3>3. QED
      BY <2>1, <3>1, <3>2, Bounds, TypeDisk
  <2>3. CASE step' \in {"sym", "code"} /\ pos' = pos /\ failed' = failed /\ errs' = errs
    BY <2>1, <2>3, Bounds, TypeDisk
  <2>4. QED
    BY <1>10, <2>2, <2>3, CompileMoves
<1>11. CASE WriteSym
  <2> DEFINE new == NewSym(cur, clock')
  <2>1. /\ pos <= Len(plan) /\ cur \in Defs /\ clock' \in Nat /\ vers' = vers
        /\ new \in SymFile(cur) /\ new # None
        /\ src' = src /\ code' = code /\ plan' = plan /\ job' = job /\ batch' = batch
    BY <1>11, WriteSymMoves
  <2>2. CASE sym' = sym /\ SymDone /\ failed' = failed /\ errs' = errs
    <3>1. pos' \in 1..Len(plan') + 1 /\ step' \in {"decide", "compile", "sym", "code"}
      BY <2>1, <2>2, SymDoneMoves
    <3>2. disk' = disk
      BY <2>1, <2>2 DEF disk
    <3>3. QED
      BY <2>1, <2>2, <3>1, <3>2, Bounds, TypeDisk
  <2>3. CASE sym' = sym /\ Fail({193})
    <3>1. Advance /\ failed' \subseteq Unit /\ errs' \in Nat
      BY <2>1, <2>3, FailMoves
    <3>2. pos' \in 1..Len(plan') + 1 /\ step' \in {"decide", "compile"}
      BY <2>1, <3>1, AdvanceMoves
    <3>3. disk' = disk
      BY <2>1, <2>3 DEF disk
    <3>4. QED
      BY <2>1, <3>1, <3>2, <3>3, Bounds, TypeDisk
  <2>4. CASE sym' = [sym EXCEPT ![cur] = new] /\ SymDone /\ failed' = failed /\ errs' = errs
    <3>1. pos' \in 1..Len(plan') + 1 /\ step' \in {"decide", "compile", "sym", "code"}
      BY <2>1, <2>4, SymDoneMoves
    <3> HIDE DEF new
    <3>2. DOMAIN sym' = Defs /\ sym' = [v \in Defs |-> sym'[v]]
      BY <2>4 DEF TypeInv
    <3>3. \A v \in Defs : sym'[v] # None => sym'[v] \in SymFile(v)
      BY <2>1, <2>4 DEF TypeInv
    <3>4. QED
      BY <2>1, <2>4, <3>1, <3>2, <3>3 DEF TypeInv
  <2>5. QED
    BY <1>11, <2>2, <2>3, <2>4, WriteSymMoves
<1>12. CASE WriteCode
  <2> DEFINE new == NewCode(cur, clock')
  <2>1. /\ pos <= Len(plan) /\ cur \in Imps /\ clock' \in Nat /\ vers' = vers
        /\ new \in CodeFile(cur) /\ new # None
        /\ src' = src /\ sym' = sym /\ plan' = plan /\ job' = job /\ batch' = batch
    BY <1>12, WriteCodeMoves
  <2>2. CASE code' = code /\ Fail({})
    <3>1. Advance /\ failed' \subseteq Unit /\ errs' \in Nat
      BY <2>1, <2>2, FailMoves
    <3>2. pos' \in 1..Len(plan') + 1 /\ step' \in {"decide", "compile"}
      BY <2>1, <3>1, AdvanceMoves
    <3>3. disk' = disk
      BY <2>1, <2>2 DEF disk
    <3>4. QED
      BY <2>1, <3>1, <3>2, <3>3, Bounds, TypeDisk
  <2>3. CASE code' = [code EXCEPT ![cur] = new] /\ Advance /\ failed' = failed /\ errs' = errs
    <3>1. pos' \in 1..Len(plan') + 1 /\ step' \in {"decide", "compile"}
      BY <2>1, <2>3, AdvanceMoves
    <3> HIDE DEF new
    <3>2. DOMAIN code' = Imps /\ code' = [v \in Imps |-> code'[v]]
      BY <2>3 DEF TypeInv
    <3>3. \A v \in Imps : code'[v] # None => code'[v] \in CodeFile(v)
      BY <2>1, <2>3 DEF TypeInv
    <3>4. QED
      BY <2>1, <2>3, <3>1, <3>2, <3>3 DEF TypeInv
  <2>4. QED
    BY <1>12, <2>2, <2>3, WriteCodeMoves
<1>13. QED
  BY <1>1, <1>2, <1>3, <1>4, <1>5, <1>6, <1>7, <1>8, <1>9, <1>10, <1>11, <1>12, Cases

-----------------------------------------------------------------------------
(* The job *)

LEMMA JobInit == Init => JobInv
<1> SUFFICES ASSUME Init PROVE JobInv
  OBVIOUS
<1>1. Idle /\ plan = <<>> /\ pos = 1 /\ step = "decide" /\ batch = None /\ clean = "none" /\ Len(plan) = 0
  BY DEF Init, Idle
<1>2. ImportsPrecede(plan)
  BY <1>1 DEF ImportsPrecede
<1>3. QED
  BY <1>1, <1>2 DEF JobInv, Idle

\* No file is taken while no process runs.
LEMMA JobThere ==
  ASSUME TypeInv, JobInv, pos <= Len(plan)
  PROVE  job # "idle" /\ clean = "none"
<1>1. ASSUME job = "idle" PROVE FALSE
  <2>1. plan = <<>> /\ pos = 1
    BY <1>1 DEF JobInv, Idle
  <2>2. Len(plan) = 0
    BY <2>1
  <2>3. QED
    BY <2>1, <2>2
<1>2. QED
  BY <1>1 DEF JobInv, Idle

\* A job goes on within a unit or to the next.
LEMMA JobRuns ==
  ASSUME TypeInv, JobInv, pos <= Len(plan), job' = job, plan' = plan, clean' = clean,
         batch' = batch \/ (job = "batch" /\ batch' = Append(batch, cur) /\ Advance),
         Advance \/ (pos' = pos /\ step' \in {"compile", "sym", "code"} /\ job # "batch")
  PROVE  JobInv'
<1>1. job # "idle" /\ clean = "none" /\ ~Idle'
  BY JobThere DEF Idle
<1>2. job \in {"make", "batch", "compile", "run"} /\ (job \in {"make", "batch"} => plan = Order) /\ ImportsPrecede(plan)
  BY <1>1, Bounds DEF JobInv
<1>3. /\ job' \in {"make", "batch"} => plan' = Order
      /\ ImportsPrecede(plan')
  BY <1>2
<1>4. /\ job' \in {"compile", "run"} => step' # "decide"
      /\ job' = "batch" => step' = "decide"
      /\ step' \in {"sym", "code"} \/ (job' = "make" /\ step' # "decide") => pos' <= Len(plan')
  <2>1. CASE Advance
    BY <2>1, AdvanceMoves
  <2>2. CASE pos' = pos /\ step' \in {"compile", "sym", "code"} /\ job # "batch"
    BY <2>2
  <2>3. QED
    BY <2>1, <2>2
<1>5. Passed \subseteq Passed' /\ (Advance => Passed' = Passed \cup {cur})
  <2>1. CASE Advance
    BY <2>1, AdvanceMoves, PassedGrows
  <2>2. CASE pos' = pos
    <3>1. Passed' = Passed
      BY <2>2 DEF Passed
    <3>2. CASE Advance
      BY <2>1, <3>2
    <3>3. QED
      BY <2>1, <3>1
  <2>3. QED
    BY <2>1, <2>2
<1>6. /\ job' = "batch" => batch' # None
      /\ batch' # None => ImportsPrecede(batch')
      /\ job' = "batch" => ToSet(batch') \subseteq Passed'
  <2>1. CASE batch' = batch
    BY <1>5, <2>1 DEF JobInv
  <2>2. CASE job = "batch" /\ batch' = Append(batch, cur) /\ Advance
    <3>1. batch \in Seq(Unit) /\ ImportsPrecede(batch) /\ ToSet(batch) \subseteq Passed
      BY <2>2, Bounds DEF JobInv
    <3>2. cur \in Unit /\ pos \in 1..Len(plan)
      BY CurrentUnit
    <3>3. /\ batch' \in Seq(Unit) /\ Len(batch') = Len(batch) + 1
          /\ \A i \in 1..Len(batch) : batch'[i] = batch[i]
          /\ batch'[Len(batch) + 1] = cur /\ ToSet(batch') = ToSet(batch) \cup {cur}
      BY <2>2, <3>1, <3>2, AppendShape
    <3>4. ASSUME NEW v \in Passed PROVE v # cur /\ cur \notin Imports[v]
      <4>1. PICK k \in 1..pos - 1 : v = plan[k]
        BY DEF Passed
      <4>2. k \in 1..Len(plan) /\ k < pos
        BY <3>2
      <4>3. QED
        BY <1>2, <3>2, <4>1, <4>2 DEF ImportsPrecede, cur
    <3>5. ASSUME NEW i \in 1..Len(batch'), NEW j \in 1..Len(batch'), i < j
          PROVE  batch'[i] # batch'[j] /\ batch'[j] \notin Imports[batch'[i]]
      <4>1. Len(batch) \in Nat
        BY <3>1
      <4>2. i \in 1..Len(batch) /\ batch'[i] = batch[i]
        BY <3>3, <3>5, <4>1
      <4>3. CASE j \in 1..Len(batch)
        BY <3>1, <3>3, <3>5, <4>2, <4>3 DEF ImportsPrecede
      <4>4. CASE j = Len(batch) + 1
        <5>1. batch[i] \in Passed
          BY <3>1, <4>2, ToSetMember
        <5>2. QED
          BY <3>3, <3>4, <4>2, <4>4, <5>1
      <4>5. QED
        BY <3>3, <4>1, <4>3, <4>4
    <3>6. ImportsPrecede(batch')
      BY <3>5 DEF ImportsPrecede
    <3>7. batch' # None
      BY <3>3, NoneIsNoFile
    <3>8. QED
      BY <1>5, <2>2, <3>1, <3>3, <3>6, <3>7
  <2>3. QED
    BY <2>1, <2>2
<1>7. clean' = "none"
  BY <1>1
<1>8. QED
  BY <1>1, <1>3, <1>4, <1>6, <1>7 DEF JobInv, Idle

\* No process runs, before and after.
LEMMA JobRests ==
  ASSUME JobInv, job' = "idle", plan' = <<>>, pos' = 1, step' = "decide", batch' \in {batch, None}
  PROVE  JobInv'
<1>1. Len(plan') = 0
  OBVIOUS
<1>2. ImportsPrecede(plan')
  BY <1>1 DEF ImportsPrecede
<1>3. QED
  BY <1>2 DEF JobInv, Idle

LEMMA JobBegins ==
  ASSUME TypeInv, JobInv, NEW j, NEW a, NEW p, Starts(j, a, p)
  PROVE  JobInv'
<1>1. j \in {"make", "batch", "compile", "run"} /\ p \in Seq(Unit) /\ Begin(j, a, p)
  BY StartsWith DEF Starts
<1>2. /\ job' = j /\ plan' = p /\ pos' = 1
      /\ step' \in {"decide", "compile"}
      /\ j \in {"make", "batch"} => step' = "decide"
      /\ j \notin {"make", "batch"} => step' = "compile"
      /\ clean' = "none" /\ batch' = IF j = "batch" THEN <<>> ELSE None
  BY <1>1, BeginMoves
<1>3. ImportsPrecede(p)
  <2>1. CASE p = Order
    BY <2>1, OrderPrecedes
  <2>2. CASE batch # None /\ p = batch
    BY <2>2 DEF JobInv
  <2>3. ASSUME NEW u \in Unit, p = <<u>> PROVE ImportsPrecede(p)
    <3>1. Len(p) = 1
      BY <2>3
    <3>2. QED
      BY <3>1 DEF ImportsPrecede
  <2>4. QED
    BY <2>1, <2>2, <2>3 DEF Starts
<1>4. batch' # None => batch' = <<>> /\ ImportsPrecede(batch')
  <2>1. SUFFICES ASSUME batch' # None PROVE batch' = <<>> /\ ImportsPrecede(batch')
    OBVIOUS
  <2>2. batch' = <<>> /\ Len(batch') = 0
    BY <1>2, <2>1
  <2>3. QED
    BY <2>2 DEF ImportsPrecede
<1>5. j = "batch" => batch' # None /\ ToSet(batch') \subseteq Passed'
  <2>1. SUFFICES ASSUME j = "batch" PROVE batch' # None /\ ToSet(batch') \subseteq Passed'
    OBVIOUS
  <2>2. batch' = <<>> /\ batch' \in Seq(Unit) /\ Len(batch') = 0
    BY <1>2, <2>1
  <2>3. ToSet(batch') = {}
    BY <2>2 DEF ToSet
  <2>4. QED
    BY <2>2, <2>3, NoneIsNoFile
<1>6. j \in {"make", "batch"} => p = Order
  BY DEF Starts
<1>7. ~Idle' /\ (job' \in {"make", "batch"} => plan' = Order) /\ ImportsPrecede(plan')
  BY <1>1, <1>2, <1>3, <1>6 DEF Idle
<1>8. /\ job' \in {"compile", "run"} => step' # "decide"
      /\ job' = "batch" => step' = "decide" /\ batch' # None
      /\ step' \notin {"sym", "code"} /\ (job' = "make" => step' = "decide")
  BY <1>2, <1>5
<1>9. QED
  BY <1>2, <1>4, <1>5, <1>7, <1>8 DEF JobInv

LEMMA JobStep == TypeInv /\ JobInv /\ CompileInv /\ Next => JobInv'
<1> SUFFICES ASSUME TypeInv, JobInv, CompileInv, User \/ Work PROVE JobInv'
  BY DEF Next
<1>1. CASE \/ \E u \in Unit : \E part \in {"body", "iface"} : Edit(u, part)
           \/ \E u \in Defs : RemoveSym(u)
           \/ \E u \in Imps : RemoveCode(u)
  <2>1. job = "idle" /\ UNCHANGED <<job, plan, pos, step, batch>>
    BY <1>1 DEF Edit, RemoveSym, RemoveCode, Idle, run
  <2>2. plan = <<>> /\ pos = 1 /\ step = "decide"
    BY <2>1 DEF JobInv, Idle
  <2>3. QED
    BY <2>1, <2>2, JobRests
<1>2. ASSUME NEW j, NEW a, NEW p, Starts(j, a, p) PROVE JobInv'
  BY <1>2, JobBegins
<1>3. CASE Kill \/ Finish
  <2>1. job' = "idle" /\ plan' = <<>> /\ pos' = 1 /\ step' = "decide" /\ batch' \in {batch, None}
    BY <1>3 DEF Kill, Finish
  <2>2. QED
    BY <2>1, JobRests
<1>4. CASE Invalidate \/ Skip
  <2>1. pos <= Len(plan) /\ Advance /\ UNCHANGED <<job, plan, batch, clean>>
    BY <1>4 DEF Invalidate, Skip
  <2>2. QED
    BY <2>1, JobRuns
<1>5. CASE Take
  <2>1. pos <= Len(plan) /\ UNCHANGED <<job, plan, clean>>
    BY <1>5 DEF Take
  <2>2. \/ job = "batch" /\ batch' = Append(batch, cur) /\ Advance
        \/ job # "batch" /\ step' = "compile" /\ UNCHANGED <<batch, pos>>
    BY <1>5 DEF Take
  <2>3. QED
    BY <2>1, <2>2, JobRuns
<1>6. CASE Compile
  <2>1. /\ step = "compile" /\ pos <= Len(plan) /\ plan' = plan /\ job' = job /\ batch' = batch /\ clean' = clean
    BY <1>6, CompileMoves
  <2>2. job # "batch"
    BY <2>1 DEF JobInv
  <2>3. Advance \/ (pos' = pos /\ step' \in {"compile", "sym", "code"})
    BY <1>6, <2>1, CompileMoves, FailMoves
  <2>4. QED
    BY <2>1, <2>2, <2>3, JobRuns
<1>7. CASE WriteSym
  <2>1. step = "sym" /\ pos <= Len(plan) /\ plan' = plan /\ job' = job /\ batch' = batch /\ clean' = clean
    BY <1>7, WriteSymMoves
  <2>2. job # "batch"
    BY <2>1 DEF JobInv
  <2>3. SymDone \/ Fail({193})
    BY <1>7, WriteSymMoves
  <2>4. Advance \/ (pos' = pos /\ step' \in {"compile", "sym", "code"})
    BY <2>1, <2>3, SymDoneMoves, FailMoves
  <2>5. QED
    BY <2>1, <2>2, <2>4, JobRuns
<1>8. CASE WriteCode
  <2>1. step = "code" /\ pos <= Len(plan) /\ plan' = plan /\ job' = job /\ batch' = batch /\ clean' = clean
    BY <1>8, WriteCodeMoves
  <2>2. job # "batch"
    BY <2>1 DEF JobInv
  <2>3. Advance
    BY <1>8, <2>1, WriteCodeMoves, FailMoves
  <2>4. QED
    BY <2>1, <2>2, <2>3, JobRuns
<1>9. QED
  BY <1>1, <1>2, <1>3, <1>4, <1>5, <1>6, <1>7, <1>8, Cases

-----------------------------------------------------------------------------
(* Dates *)

\* What is passed stays passed.
LEMMA PassedMoves ==
  ASSUME TypeInv, pos <= Len(plan), plan' = plan,
         Advance \/ (pos' = pos /\ step # "code")
  PROVE  /\ Passed \subseteq Passed' /\ SymPassed \subseteq SymPassed'
         /\ Advance => Passed' = Passed \cup {cur} /\ cur \in SymPassed'
         /\ pos' = pos /\ step' = "code" => cur \in SymPassed'
         /\ pos' = pos => Passed' = Passed
<1>1. ASSUME Advance PROVE Passed' = Passed \cup {cur} /\ SymPassed' = Passed' /\ cur \in SymPassed'
  <2>1. Passed' = Passed \cup {cur}
    BY <1>1, AdvanceMoves, PassedGrows
  <2>2. step' # "code"
    BY <1>1, AdvanceMoves
  <2>3. SymPassed' = Passed'
    BY <2>2 DEF SymPassed
  <2>4. QED
    BY <2>1, <2>3
<1>2. ASSUME pos' = pos PROVE Passed' = Passed /\ cur' = cur
  BY <1>2 DEF Passed, cur
<1>3. SymPassed \subseteq Passed \cup {cur} /\ (step # "code" => SymPassed = Passed)
  BY DEF SymPassed
<1>4. ASSUME pos' = pos, step' = "code" PROVE cur \in SymPassed'
  BY <1>2, <1>4 DEF SymPassed
<1>5. Passed' \subseteq SymPassed'
  BY DEF SymPassed
<1>6. QED
  BY <1>1, <1>2, <1>3, <1>4, <1>5

LEMMA DatesKept ==
  ASSUME TypeInv, DatesInv, clock' \in Nat, clock <= clock', disk' = disk,
         \/ Idle'
         \/ clock < clock'
         \/ ~Idle /\ Passed \subseteq Passed' /\ SymPassed \subseteq SymPassed'
  PROVE  DatesInv'
<1>1. src' = src /\ sym' = sym /\ code' = code /\ clock \in Nat
  BY DEF disk, TypeInv
<1>2. \A u \in Unit : src'[u].time <= clock'
  <2>1. \A u \in Unit : src[u].time \in Nat /\ src[u].time <= clock
    BY DEF TypeInv, DatesInv
  <2>2. QED
    BY <1>1, <2>1
<1>3. ASSUME NEW u \in Defs, sym'[u] # None
      PROVE  sym'[u].time <= clock' /\ (~Idle' /\ u \notin SymPassed' => sym'[u].time < clock')
  <2>1. /\ sym[u].time \in Nat /\ sym[u].time <= clock
        /\ ~Idle /\ u \notin SymPassed => sym[u].time < clock
    BY <1>1, <1>3 DEF TypeInv, SymFile, DatesInv
  <2>2. QED
    BY <1>1, <2>1
<1>4. ASSUME NEW u \in Imps, code'[u] # None
      PROVE  code'[u].time <= clock' /\ (~Idle' /\ u \notin Passed' => code'[u].time < clock')
  <2>1. /\ code[u].time \in Nat /\ code[u].time <= clock
        /\ ~Idle /\ u \notin Passed => code[u].time < clock
    BY <1>1, <1>4 DEF TypeInv, CodeFile, DatesInv
  <2>2. QED
    BY <1>1, <2>1
<1>5. QED
  BY <1>2, <1>3, <1>4 DEF DatesInv

LEMMA DatesInit == Init => DatesInv
BY DEF Init, DatesInv, Defs, Imps

\* How a step within a job moves on: the files it does not write keep their dates.
LEMMA JobMoves ==
  ASSUME TypeInv, JobInv, CompileInv, Work, ~Finish
  PROVE  /\ ~Idle /\ ~Idle' /\ job' = job /\ pos <= Len(plan) /\ plan' = plan /\ src' = src
         /\ clock' \in Nat /\ clock <= clock' /\ clean' = "none" /\ clean = "none" /\ all' = all
         /\ Advance \/ (pos' = pos /\ step # "code")
<1>1. CASE Invalidate \/ Skip
  <2>1. pos <= Len(plan) /\ Advance /\ UNCHANGED <<job, all, plan, clean, src, clock>>
    BY <1>1 DEF Invalidate, Skip, disk
  <2>2. QED
    BY <2>1, JobThere, Bounds DEF Idle
<1>2. CASE Take
  <2>1. pos <= Len(plan) /\ step = "decide" /\ UNCHANGED <<job, all, plan, clean, src, clock>>
    BY <1>2 DEF Take, disk
  <2>2. Advance \/ pos' = pos
    BY <1>2 DEF Take
  <2>3. QED
    BY <2>1, <2>2, JobThere, Bounds DEF Idle
<1>3. CASE Compile
  <2>1. /\ step = "compile" /\ pos <= Len(plan) /\ plan' = plan /\ job' = job /\ clean' = clean
        /\ clock' = clock /\ src' = src /\ all' = all
    BY <1>3, CompileMoves DEF disk
  <2>2. Advance \/ pos' = pos
    BY <1>3, <2>1, CompileMoves, FailMoves
  <2>3. QED
    BY <2>1, <2>2, JobThere, Bounds DEF Idle
<1>4. CASE WriteSym
  <2>1. /\ step = "sym" /\ pos <= Len(plan) /\ plan' = plan /\ job' = job /\ clean' = clean
        /\ clock' \in Nat /\ clock <= clock' /\ src' = src /\ all' = all
    BY <1>4, WriteSymMoves
  <2>2. Advance \/ pos' = pos
    BY <1>4, <2>1, WriteSymMoves, SymDoneMoves, FailMoves
  <2>3. QED
    BY <2>1, <2>2, JobThere DEF Idle
<1>5. CASE WriteCode
  <2>1. /\ step = "code" /\ pos <= Len(plan) /\ plan' = plan /\ job' = job /\ clean' = clean
        /\ clock' \in Nat /\ clock <= clock' /\ src' = src /\ all' = all
    BY <1>5, WriteCodeMoves
  <2>2. Advance
    BY <1>5, <2>1, WriteCodeMoves, FailMoves
  <2>3. QED
    BY <2>1, <2>2, JobThere DEF Idle
<1>6. QED
  BY <1>1, <1>2, <1>3, <1>4, <1>5 DEF Work

\* How the history goes on.
LEMMA MixedMoves ==
  ASSUME TypeInv, JobInv, CompileInv, Next, ~mixed'
  PROVE  /\ mixed => Finish /\ job = "make" /\ all /\ clean' = "make"
         /\ Compile /\ step' \in {"sym", "code"} => ~Mixed(cur)
<1>1. /\ mixed => job = "make" /\ all /\ clean' = "make"
      /\ step = "compile" /\ step' \in {"sym", "code"} => ~Mixed(cur)
  BY DEF Next, Remember
<1>2. Compile => step = "compile"
  BY CompileMoves
<1>3. ASSUME job = "make", clean' = "make" PROVE Finish
  <2>1. job # "idle"
    BY <1>3
  <2>2. clean = "none"
    BY <2>1 DEF JobInv, Idle
  <2>3. CASE Work
    BY <1>3, <2>3, JobMoves
  <2>4. CASE Kill
    BY <1>3, <2>2, <2>4 DEF Kill
  <2>5. CASE \E j, a, p : Starts(j, a, p)
    BY <2>1, <2>5 DEF Starts, Begin, Idle
  <2>6. CASE \/ \E u \in Unit : \E part \in {"body", "iface"} : Edit(u, part)
             \/ \E u \in Defs : RemoveSym(u)
             \/ \E u \in Imps : RemoveCode(u)
    BY <2>1, <2>6 DEF Edit, RemoveSym, RemoveCode, Idle
  <2>7. QED
    BY <2>3, <2>4, <2>5, <2>6, Cases DEF Next, Work
<1>4. QED
  BY <1>1, <1>2, <1>3

\* What a job changes on the disk.
SymWritten ==
  /\ WriteSym /\ cur \in Defs /\ SymDone /\ failed' = failed
  /\ NewSym(cur, clock') \in SymFile(cur) /\ NewSym(cur, clock') # None
  /\ sym' = [sym EXCEPT ![cur] = NewSym(cur, clock')] /\ code' = code
CodeWritten ==
  /\ WriteCode /\ cur \in Imps /\ Advance /\ failed' = failed
  /\ NewCode(cur, clock') \in CodeFile(cur) /\ NewCode(cur, clock') # None
  /\ code' = [code EXCEPT ![cur] = NewCode(cur, clock')] /\ sym' = sym

LEMMA DiskMoves ==
  ASSUME TypeInv, CompileInv, Work
  PROVE  disk' = disk \/ SymWritten \/ CodeWritten
<1>1. CASE Invalidate \/ Skip \/ Take \/ Finish
  BY <1>1 DEF Invalidate, Skip, Take, Finish, disk
<1>2. CASE Compile
  BY <1>2, CompileMoves
<1>3. CASE WriteSym
  BY <1>3, WriteSymMoves DEF disk, SymWritten
<1>4. CASE WriteCode
  BY <1>4, WriteCodeMoves DEF disk, CodeWritten
<1>5. QED
  BY <1>1, <1>2, <1>3, <1>4 DEF Work

LEMMA SymWrittenIs ==
  ASSUME TypeInv, JobInv, CompileInv, SymWritten
  PROVE  /\ step = "sym" /\ pos <= Len(plan) /\ cur \in Defs /\ cur \in Unit /\ sym'[cur] = NewSym(cur, clock')
         /\ sym'[cur] # None /\ sym'[cur].time = clock' /\ sym'[cur].iface = src[cur].iface
         /\ sym'[cur].key = vers /\ \A m \in Uses[cur] : sym'[cur].uses[m] = Known(cur, m)
         /\ \A v \in Defs : v # cur => sym'[v] = sym[v]
         /\ src' = src /\ code' = code /\ ~Idle /\ clock' \in Nat /\ clock <= clock'
         /\ cur \in SymPassed' /\ Passed \subseteq Passed' /\ SymPassed \subseteq SymPassed'
         /\ ~MissingSym(cur)
         /\ LoadedRight => Consistent(cur) /\ \A m \in Uses[cur] : sym'[cur].uses[m] = Stamp(sym[m])
<1>1. WriteSym
  BY DEF SymWritten
<1>2. step = "sym" /\ pos <= Len(plan) /\ cur \in Defs /\ cur \in Unit /\ src' = src /\ clock' \in Nat
      /\ clock <= clock' /\ plan' = plan /\ ~Idle
  BY <1>1, WriteSymMoves DEF Defs, Idle
<1>3. sym'[cur] = NewSym(cur, clock') /\ \A v \in Defs : v # cur => sym'[v] = sym[v]
  BY <1>2 DEF SymWritten, TypeInv
<1>4. sym'[cur] # None
  BY <1>3 DEF SymWritten
<1>5. sym'[cur].time = clock' /\ sym'[cur].iface = src[cur].iface /\ sym'[cur].key = vers
      /\ \A m \in Uses[cur] : sym'[cur].uses[m] = Known(cur, m)
  BY <1>3 DEF NewSym
<1>6. SymDone
  BY DEF SymWritten
<1>7. Advance \/ (pos' = pos /\ step' = "code")
  BY <1>2, <1>6, SymDoneMoves
<1>8. cur \in SymPassed' /\ Passed \subseteq Passed' /\ SymPassed \subseteq SymPassed'
  BY <1>2, <1>7, PassedMoves
<1>9. ~MissingSym(cur)
  BY <1>2 DEF CompileInv
<1>10. ASSUME LoadedRight
       PROVE  Consistent(cur) /\ \A m \in Uses[cur] : sym'[cur].uses[m] = Stamp(sym[m])
  <2>1. Consistent(cur) /\ Uses[cur] \subseteq Loaded[cur]
    BY <1>2, <1>10, UsesAreLoaded DEF LoadedRight
  <2>2. QED
    BY <1>5, <2>1 DEF Consistent
<1>11. QED
  BY <1>2, <1>3, <1>4, <1>5, <1>8, <1>9, <1>10 DEF SymWritten

LEMMA CodeWrittenIs ==
  ASSUME TypeInv, JobInv, CompileInv, CodeWritten
  PROVE  /\ step = "code" /\ pos <= Len(plan) /\ cur \in Imps /\ cur \in Unit /\ code'[cur] = NewCode(cur, clock')
         /\ code'[cur] # None /\ code'[cur].time = clock'
         /\ code'[cur].body = src[cur].body /\ code'[cur].iface = src[cur].iface
         /\ \A v \in Imps : v # cur => code'[v] = code[v]
         /\ src' = src /\ sym' = sym /\ ~Idle /\ clock' \in Nat /\ clock <= clock'
         /\ cur \in Passed' /\ Passed \subseteq Passed' /\ SymPassed \subseteq SymPassed'
         /\ ~MissingSym(cur)
         /\ LoadedRight => /\ Consistent(cur) /\ (cur \in Defs => FreshSym(cur))
                           /\ \A m \in Imports[cur] : code'[cur].seen[m] = Stamp(sym[m])
<1>1. WriteCode
  BY DEF CodeWritten
<1>2. step = "code" /\ pos <= Len(plan) /\ cur \in Imps /\ cur \in Unit /\ src' = src /\ clock' \in Nat
      /\ clock <= clock' /\ plan' = plan /\ ~Idle
  BY <1>1, WriteCodeMoves DEF Imps, Idle
<1>3. code'[cur] = NewCode(cur, clock') /\ \A v \in Imps : v # cur => code'[v] = code[v]
  BY <1>2 DEF CodeWritten, TypeInv
<1>4. code'[cur] # None
  BY <1>3 DEF CodeWritten
<1>5. code'[cur].time = clock' /\ code'[cur].body = src[cur].body /\ code'[cur].iface = src[cur].iface
      /\ \A m \in Imports[cur] : code'[cur].seen[m] = Known(cur, m)
  BY <1>3 DEF NewCode
<1>6. Passed' = Passed \cup {cur} /\ SymPassed \subseteq SymPassed'
  BY <1>2, PassedMoves DEF CodeWritten
<1>7. ~MissingSym(cur)
  BY <1>2 DEF CompileInv
<1>8. ASSUME LoadedRight
      PROVE  /\ Consistent(cur) /\ (cur \in Defs => FreshSym(cur))
             /\ \A m \in Imports[cur] : code'[cur].seen[m] = Stamp(sym[m])
  <2>1. Consistent(cur) /\ (cur \in Defs => FreshSym(cur)) /\ Imports[cur] \subseteq Loaded[cur]
    BY <1>2, <1>8, LoadedClosed DEF LoadedRight
  <2>2. QED
    BY <1>5, <2>1 DEF Consistent
<1>9. QED
  BY <1>2, <1>3, <1>4, <1>5, <1>6, <1>7, <1>8 DEF CodeWritten

LEMMA DatesStep ==
  ASSUME TypeInv, JobInv, CompileInv, DatesInv, Ties = FALSE, Next
  PROVE  DatesInv'
<1>1. ASSUME NEW u \in Unit, NEW part, Edit(u, part) PROVE DatesInv'
  <2>1. clock \in Nat /\ clock' \in Nat /\ clock < clock'
    BY <1>1, Bounds, ClockRuns DEF Edit
  <2>2. sym' = sym /\ code' = code /\ Idle'
    BY <1>1 DEF Edit, run, Idle
  <2>3. \A v \in Unit : src[v].time \in Nat /\ src'[v].time \in {src[v].time, clock'}
    BY <1>1 DEF Edit, TypeInv
  <2>4. \A v \in Defs : sym[v] # None => sym[v].time \in Nat
    BY DEF TypeInv, SymFile
  <2>5. \A v \in Imps : code[v] # None => code[v].time \in Nat
    BY DEF TypeInv, CodeFile
  <2>6. \A v \in Unit : src'[v].time <= clock'
    BY <2>1, <2>3 DEF DatesInv
  <2>7. \A v \in Defs : sym'[v] # None => sym'[v].time <= clock'
    BY <2>1, <2>2, <2>4 DEF DatesInv
  <2>8. \A v \in Imps : code'[v] # None => code'[v].time <= clock'
    BY <2>1, <2>2, <2>5 DEF DatesInv
  <2>9. QED
    BY <2>2, <2>6, <2>7, <2>8 DEF DatesInv
<1>2. ASSUME NEW u \in Defs, RemoveSym(u) PROVE DatesInv'
  <2>1. sym' = [sym EXCEPT ![u] = None] /\ src' = src /\ code' = code /\ clock' = clock /\ Idle'
    BY <1>2 DEF RemoveSym, run, Idle
  <2>2. \A v \in Defs : sym'[v] # None => sym'[v] = sym[v]
    BY <2>1 DEF TypeInv
  <2>3. QED
    BY <2>1, <2>2 DEF DatesInv
<1>3. ASSUME NEW u \in Imps, RemoveCode(u) PROVE DatesInv'
  <2>1. code' = [code EXCEPT ![u] = None] /\ src' = src /\ sym' = sym /\ clock' = clock /\ Idle'
    BY <1>3 DEF RemoveCode, run, Idle
  <2>2. \A v \in Imps : code'[v] # None => code'[v] = code[v]
    BY <2>1 DEF TypeInv
  <2>3. QED
    BY <2>1, <2>2 DEF DatesInv
<1>4. ASSUME NEW j, NEW a, NEW p, Starts(j, a, p) PROVE DatesInv'
  <2>1. NextTick /\ disk' = disk
    BY <1>4, StartsWith, BeginMoves DEF Starts
  <2>2. QED
    BY <2>1, ClockRuns, DatesKept
<1>5. CASE Kill \/ Finish
  <2>1. disk' = disk /\ clock' = clock /\ Idle'
    BY <1>5 DEF Kill, Finish, Idle
  <2>2. QED
    BY <2>1, Bounds, DatesKept
<1>6. CASE Work /\ ~Finish
  <2>1. ~Idle /\ pos <= Len(plan) /\ plan' = plan /\ clock' \in Nat /\ clock <= clock'
        /\ (Advance \/ (pos' = pos /\ step # "code"))
    BY <1>6, JobMoves
  <2>2. Passed \subseteq Passed' /\ SymPassed \subseteq SymPassed'
    BY <2>1, PassedMoves
  <2>3. CASE disk' = disk
    BY <2>1, <2>2, <2>3, DatesKept
  <2>4. CASE SymWritten
    <3>1. /\ cur \in Defs /\ cur \in SymPassed' /\ sym'[cur].time = clock' /\ src' = src /\ code' = code
          /\ \A v \in Defs : v # cur => sym'[v] = sym[v]
      BY <2>4, SymWrittenIs
    <3>2. clock \in Nat /\ \A u \in Unit : src[u].time \in Nat
      BY DEF TypeInv
    <3>3. \A u \in Unit : src'[u].time <= clock'
      BY <2>1, <3>1, <3>2 DEF DatesInv
    <3>4. ASSUME NEW u \in Defs, sym'[u] # None
          PROVE  sym'[u].time <= clock' /\ (u \notin SymPassed' => sym'[u].time < clock')
      <4>1. CASE u = cur
        BY <2>1, <3>1, <4>1
      <4>2. CASE u # cur
        <5>1. sym'[u] = sym[u] /\ sym[u].time \in Nat
          BY <3>1, <3>4, <4>2 DEF TypeInv, SymFile
        <5>2. sym[u].time <= clock /\ (u \notin SymPassed => sym[u].time < clock)
          BY <2>1, <3>4, <5>1 DEF DatesInv
        <5>3. QED
          BY <2>1, <2>2, <3>2, <5>1, <5>2
      <4>3. QED
        BY <4>1, <4>2
    <3>5. ASSUME NEW u \in Imps, code'[u] # None
          PROVE  code'[u].time <= clock' /\ (u \notin Passed' => code'[u].time < clock')
      <4>1. code'[u] = code[u] /\ code[u].time \in Nat
        BY <3>1, <3>5 DEF TypeInv, CodeFile
      <4>2. code[u].time <= clock /\ (u \notin Passed => code[u].time < clock)
        BY <2>1, <3>5, <4>1 DEF DatesInv
      <4>3. QED
        BY <2>1, <2>2, <3>2, <4>1, <4>2
    <3>6. QED
      BY <3>3, <3>4, <3>5 DEF DatesInv
  <2>5. CASE CodeWritten
    <3>1. /\ cur \in Imps /\ cur \in Passed' /\ code'[cur].time = clock' /\ src' = src /\ sym' = sym
          /\ \A v \in Imps : v # cur => code'[v] = code[v]
      BY <2>5, CodeWrittenIs
    <3>2. clock \in Nat /\ \A u \in Unit : src[u].time \in Nat
      BY DEF TypeInv
    <3>3. \A u \in Unit : src'[u].time <= clock'
      BY <2>1, <3>1, <3>2 DEF DatesInv
    <3>4. ASSUME NEW u \in Imps, code'[u] # None
          PROVE  code'[u].time <= clock' /\ (u \notin Passed' => code'[u].time < clock')
      <4>1. CASE u = cur
        BY <2>1, <3>1, <4>1
      <4>2. CASE u # cur
        <5>1. code'[u] = code[u] /\ code[u].time \in Nat
          BY <3>1, <3>4, <4>2 DEF TypeInv, CodeFile
        <5>2. code[u].time <= clock /\ (u \notin Passed => code[u].time < clock)
          BY <2>1, <3>4, <5>1 DEF DatesInv
        <5>3. QED
          BY <2>1, <2>2, <3>2, <5>1, <5>2
      <4>3. QED
        BY <4>1, <4>2
    <3>5. ASSUME NEW u \in Defs, sym'[u] # None
          PROVE  sym'[u].time <= clock' /\ (u \notin SymPassed' => sym'[u].time < clock')
      <4>1. sym'[u] = sym[u] /\ sym[u].time \in Nat
        BY <3>1, <3>5 DEF TypeInv, SymFile
      <4>2. sym[u].time <= clock /\ (u \notin SymPassed => sym[u].time < clock)
        BY <2>1, <3>5, <4>1 DEF DatesInv
      <4>3. QED
        BY <2>1, <2>2, <3>2, <4>1, <4>2
    <3>6. QED
      BY <3>3, <3>4, <3>5 DEF DatesInv
  <2>6. QED
    BY <1>6, <2>3, <2>4, <2>5, DiskMoves
<1>7. QED
  BY <1>1, <1>2, <1>3, <1>4, <1>5, <1>6, Cases DEF Next, Work

-----------------------------------------------------------------------------
(* Interfaces *)

LEMMA InterfaceInit == Init => InterfaceInv /\ MadeFrom
BY DEF Init, InterfaceInv, MadeFrom

\* The steps that change a file or a source.
LEMMA DiskCases ==
  ASSUME TypeInv, CompileInv, Next
  PROVE  \/ disk' = disk \/ SymWritten \/ CodeWritten
         \/ \E u \in Unit : \E part \in {"body", "iface"} : Edit(u, part)
         \/ \E u \in Defs : RemoveSym(u)
         \/ \E u \in Imps : RemoveCode(u)
<1>1. CASE \E j, a, p : Starts(j, a, p)
  BY <1>1, StartsWith, BeginMoves DEF Starts
<1>2. CASE Kill
  BY <1>2 DEF Kill
<1>3. CASE Work
  BY <1>3, DiskMoves
<1>4. QED
  BY <1>1, <1>2, <1>3, Cases DEF Next, Work

\* A symbol file's stamps of the modules it uses.
LEMMA UseStamps ==
  ASSUME TypeInv, NEW u \in Defs, sym[u] # None
  PROVE  /\ sym[u].time \in Nat /\ sym[u].key \in Nat /\ sym[u].iface \in Nat
         /\ \A m \in Uses[u] : sym[u].uses[m] \in Stamps /\ sym[u].uses[m].iface \in Nat
         /\ Stamp(sym[u]) \in Stamps
<1>1. sym[u] \in SymFile(u)
  BY DEF TypeInv
<1>2. QED
  BY <1>1 DEF SymFile, Stamps, Stamp

LEMMA SourceStamps ==
  ASSUME TypeInv, NEW u \in Unit
  PROVE  src[u].time \in Nat /\ src[u].body \in Nat /\ src[u].iface \in Nat
BY DEF TypeInv

LEMMA Edited ==
  ASSUME TypeInv, NEW u \in Unit, NEW part, Edit(u, part)
  PROVE  /\ \A v \in Unit : v # u => src'[v] = src[v]
         /\ src'[u].time = clock' /\ src'[u].iface >= src[u].iface /\ src'[u].iface \in Nat
         /\ sym' = sym /\ code' = code /\ clock' \in Nat /\ clock <= clock'
         /\ Ties = FALSE => clock < clock'
         /\ job' = job /\ plan' = plan /\ pos' = pos /\ step' = step /\ clean' = "none"
<1>1. src[u].iface \in Nat
  BY SourceStamps
<1>2. clock' \in Nat /\ clock <= clock' /\ (Ties = FALSE => clock < clock')
  BY ClockRuns DEF Edit
<1>3. \A v \in Unit : v # u => src'[v] = src[v]
  BY DEF Edit, TypeInv
<1>4. src'[u].time = clock' /\ src'[u].iface = IF part = "iface" THEN src[u].iface + 1 ELSE src[u].iface
  BY DEF Edit, TypeInv
<1>5. QED
  BY <1>1, <1>2, <1>3, <1>4 DEF Edit, run

LEMMA InterfaceStep ==
  ASSUME TypeInv, JobInv, CompileInv, InterfaceInv, Next
  PROVE  InterfaceInv'
<1>1. CASE disk' = disk \/ CodeWritten
  <2>1. src' = src /\ sym' = sym
    BY <1>1, CodeWrittenIs DEF disk
  <2>2. QED
    BY <2>1 DEF InterfaceInv
<1>2. ASSUME NEW u \in Unit, NEW part \in {"body", "iface"}, Edit(u, part) PROVE InterfaceInv'
  <2>1. sym' = sym /\ \A v \in Unit : src[v].iface \in Nat /\ src'[v].iface \in Nat /\ src[v].iface <= src'[v].iface
    <3>1. /\ sym' = sym /\ src'[u].iface >= src[u].iface /\ src'[u].iface \in Nat
          /\ \A v \in Unit : v # u => src'[v] = src[v]
      BY <1>2, Edited
    <3>2. \A v \in Unit : src[v].iface \in Nat
      BY SourceStamps
    <3>3. QED
      BY <3>1, <3>2
  <2>2. SUFFICES ASSUME NEW v \in Defs, sym[v] # None
                 PROVE  /\ sym[v].iface <= src'[v].iface
                        /\ \A m \in Uses[v] :
                             /\ sym[v].uses[m].iface <= src'[m].iface
                             /\ sym[m] # None => sym[v].uses[m].iface <= sym[m].iface
    BY <2>1 DEF InterfaceInv
  <2>3. sym[v].iface \in Nat /\ sym[v].iface <= src[v].iface /\ v \in Unit
    BY <2>2, UseStamps DEF InterfaceInv, Defs
  <2>4. \A m \in Uses[v] : m \in Unit /\ sym[v].uses[m].iface \in Nat /\ sym[v].uses[m].iface <= src[m].iface
    BY <2>2, UseStamps, UnitsAreModules DEF InterfaceInv, Defs
  <2>5. \A m \in Uses[v] : sym[v].uses[m].iface <= src'[m].iface
    BY <2>1, <2>4
  <2>6. \A m \in Uses[v] : sym[m] # None => sym[v].uses[m].iface <= sym[m].iface
    BY <2>2 DEF InterfaceInv
  <2>7. QED
    BY <2>1, <2>3, <2>5, <2>6
<1>3. ASSUME NEW u \in Defs, RemoveSym(u) PROVE InterfaceInv'
  <2>1. src' = src /\ \A v \in Defs : sym'[v] # None => sym'[v] = sym[v]
    BY <1>3 DEF RemoveSym, TypeInv
  <2>2. SUFFICES ASSUME NEW v \in Defs, sym'[v] # None
                 PROVE  /\ sym'[v].iface <= src[v].iface
                        /\ \A m \in Uses[v] :
                             /\ sym'[v].uses[m].iface <= src[m].iface
                             /\ sym'[m] # None => sym'[v].uses[m].iface <= sym'[m].iface
    BY <2>1 DEF InterfaceInv
  <2>3. sym'[v] = sym[v] /\ sym[v] # None
    BY <2>1, <2>2
  <2>4. \A m \in Uses[v] : m \in Defs
    BY UnitsAreModules
  <2>5. \A m \in Uses[v] : sym'[m] # None => sym'[m] = sym[m]
    BY <2>1, <2>4
  <2>6. /\ sym[v].iface <= src[v].iface
         /\ \A m \in Uses[v] :
              /\ sym[v].uses[m].iface <= src[m].iface
              /\ sym[m] # None => sym[v].uses[m].iface <= sym[m].iface
    BY <2>3 DEF InterfaceInv
  <2>7. QED
    BY <2>3, <2>5, <2>6
<1>4. ASSUME NEW u \in Imps, RemoveCode(u) PROVE InterfaceInv'
  <2>1. src' = src /\ sym' = sym
    BY <1>4 DEF RemoveCode
  <2>2. QED
    BY <2>1 DEF InterfaceInv
<1>5. CASE SymWritten
  <2>1. /\ cur \in Defs /\ cur \in Unit /\ sym'[cur] # None /\ sym'[cur].iface = src[cur].iface
        /\ \A m \in Uses[cur] : sym'[cur].uses[m] = Known(cur, m)
        /\ \A v \in Defs : v # cur => sym'[v] = sym[v]
        /\ src' = src /\ ~MissingSym(cur)
    BY <1>5, SymWrittenIs
  <2>2. SUFFICES ASSUME NEW v \in Defs, sym'[v] # None
                 PROVE  /\ sym'[v].iface <= src[v].iface
                        /\ \A m \in Uses[v] :
                             /\ sym'[v].uses[m].iface <= src[m].iface
                             /\ sym'[m] # None => sym'[v].uses[m].iface <= sym'[m].iface
    BY <2>1 DEF InterfaceInv
  <2>3. CASE v = cur
    <3>1. sym'[v].iface <= src[v].iface
      BY <2>1, <2>3, SourceStamps
    <3>2. ASSUME NEW m \in Uses[v]
          PROVE  sym'[v].uses[m].iface <= src[m].iface /\ sym'[v].uses[m].iface <= sym'[m].iface
      <4>1. m \in Loaded[cur] /\ m # cur
        BY <2>1, <2>3, UsesAreLoaded, NotLoadedByItself
      <4>2. m \in Defs /\ sym[m] # None
        BY <2>1, <4>1, LoadedThere
      <4>3. sym'[m] = sym[m] /\ sym'[v].uses[m] = Known(cur, m)
        BY <2>1, <2>3, <4>1, <4>2
      <4>4. Known(cur, m).iface \in Nat /\ Known(cur, m).iface <= sym[m].iface
        BY <2>1, <4>1, KnownStamp
      <4>5. sym[m].iface <= src[m].iface /\ sym[m].iface \in Nat /\ src[m].iface \in Nat
        BY <4>2, UseStamps, SourceStamps DEF InterfaceInv, Defs
      <4>6. QED
        BY <4>3, <4>4, <4>5
    <3>3. QED
      BY <3>1, <3>2
  <2>4. CASE v # cur
    <3>1. sym'[v] = sym[v] /\ sym[v] # None
      BY <2>1, <2>2, <2>4
    <3>2. sym[v].iface <= src[v].iface /\ \A m \in Uses[v] : sym[v].uses[m].iface <= src[m].iface
      BY <3>1 DEF InterfaceInv
    <3>3. ASSUME NEW m \in Uses[v], sym'[m] # None PROVE sym[v].uses[m].iface <= sym'[m].iface
      <4>1. CASE m = cur
        BY <2>1, <3>2, <4>1
      <4>2. CASE m # cur
        <5>1. m \in Defs
          BY UnitsAreModules
        <5>2. sym'[m] = sym[m]
          BY <2>1, <4>2, <5>1
        <5>3. QED
          BY <3>1, <3>3, <5>2 DEF InterfaceInv
      <4>3. QED
        BY <4>1, <4>2
    <3>4. QED
      BY <3>1, <3>2, <3>3
  <2>5. QED
    BY <2>3, <2>4
<1>6. QED
  BY <1>1, <1>2, <1>3, <1>4, <1>5, DiskCases

-----------------------------------------------------------------------------
(* What dates say *)

\* No input of u changes but to a date after t, or goes.
InputsLater(u, t) ==
  /\ src'[u] = src[u] \/ src'[u].time > t
  /\ \A q \in Imports[u] : sym'[q] = sym[q] \/ sym'[q] = None \/ sym'[q].time > t

LEMMA SinceStays ==
  ASSUME TypeInv, TypeInv', NEW u \in Defs, NEW t \in Nat, AgreesSince(u, t),
         sym'[u] = sym[u], InputsLater(u, t)
  PROVE  AgreesSince(u, t)'
<1>1. u \in Unit /\ Imports[u] \subseteq Defs
  BY UnitsAreModules DEF Defs
<1>2. src'[u].time \in Nat
  BY <1>1 DEF TypeInv
<1>3. ASSUME src'[u].time <= t PROVE sym'[u].iface = src'[u].iface
  <2>1. src'[u] = src[u]
    BY <1>2, <1>3 DEF InputsLater
  <2>2. QED
    BY <1>3, <2>1 DEF AgreesSince
<1>4. ASSUME NEW q \in Imports[u], sym'[q] # None, sym'[q].time <= t PROVE Agrees(u, q)'
  <2>1. sym'[q].time \in Nat
    BY <1>1, <1>4 DEF TypeInv, SymFile
  <2>2. sym'[q] = sym[q]
    BY <1>4, <2>1 DEF InputsLater
  <2>3. Agrees(u, q)
    BY <1>4, <2>2 DEF AgreesSince
  <2>4. QED
    BY <2>2, <2>3 DEF Agrees, Stamp
<1>5. QED
  BY <1>3, <1>4 DEF AgreesSince

LEMMA SymMadeStays ==
  ASSUME TypeInv, TypeInv', MadeFrom, NEW u \in Defs, sym[u] # None, sym'[u] = sym[u],
         InputsLater(u, sym[u].time)
  PROVE  SymMade(u)'
<1>1. sym[u].time \in Nat
  BY UseStamps
<1>2. PICK t \in Nat : t = sym[u].time
  BY <1>1
<1>3. AgreesSince(u, t) /\ InputsLater(u, t)
  BY <1>2 DEF MadeFrom, SymMade
<1>4. AgreesSince(u, t)'
  BY <1>3, SinceStays
<1>5. QED
  BY <1>2, <1>4 DEF SymMade

LEMMA CodeMadeStays ==
  ASSUME TypeInv, TypeInv', MadeFrom, NEW u \in Imps, code[u] # None, code'[u] = code[u],
         u \in Defs => sym'[u] = sym[u] \/ sym'[u] = None,
         InputsLater(u, code[u].time)
  PROVE  CodeMade(u)'
<1>1. u \in Unit /\ Imports[u] \subseteq Defs
  BY UnitsAreModules DEF Imps
<1>2. code[u] \in CodeFile(u)
  BY DEF TypeInv
<1>3. code[u].time \in Nat
  BY <1>2 DEF CodeFile
<1>4. PICK t \in Nat : t = code[u].time
  BY <1>3
<1>5. CodeMade(u)
  BY DEF MadeFrom
<1>6. ASSUME src'[u].time <= t PROVE code'[u].body = src'[u].body /\ code'[u].iface = src'[u].iface
  <2>1. src'[u].time \in Nat
    BY <1>1 DEF TypeInv
  <2>2. src'[u] = src[u]
    BY <1>4, <1>6, <2>1 DEF InputsLater
  <2>3. QED
    BY <1>4, <1>5, <1>6, <2>2 DEF CodeMade
<1>7. ASSUME NEW q \in Imports[u], sym'[q] # None, sym'[q].time <= t PROVE code'[u].seen[q] = Stamp(sym'[q])
  <2>1. sym'[q].time \in Nat
    BY <1>1, <1>7 DEF TypeInv, SymFile
  <2>2. sym'[q] = sym[q]
    BY <1>4, <1>7, <2>1 DEF InputsLater
  <2>3. QED
    BY <1>4, <1>5, <1>7, <2>2 DEF CodeMade
<1>8. ASSUME u \in Defs, sym'[u] # None PROVE AgreesSince(u, t)'
  <2>1. sym'[u] = sym[u]
    BY <1>8
  <2>2. AgreesSince(u, t) /\ InputsLater(u, t)
    BY <1>4, <1>5, <1>8, <2>1 DEF CodeMade
  <2>3. QED
    BY <1>8, <2>1, <2>2, SinceStays
<1>9. QED
  BY <1>4, <1>6, <1>7, <1>8 DEF CodeMade, Stamp

\* What u has loaded agrees with what its imports have seen.
LEMMA LoadedAgree ==
  ASSUME TypeInv, InterfaceInv, NEW u \in Unit, ~MissingSym(u), Consistent(u),
         NEW q \in Loaded[u], NEW m \in Uses[q], m \in Loaded[u]
  PROVE  Stamp(sym[m]) = sym[q].uses[m] \/ sym[q].uses[m].iface < Stamp(sym[m]).iface
<1>1. q \in Defs /\ sym[q] # None /\ m \in Defs /\ sym[m] # None /\ Stamp(sym[m]) \in Stamps
  BY LoadedThere
<1>2. sym[q].uses[m] \in Stamps
  BY <1>1, UseStamps
<1>3. sym[q].uses[m].key = sym[m].key
  BY DEF Consistent
<1>4. sym[q].uses[m].iface <= sym[m].iface
  BY <1>1 DEF InterfaceInv
<1>5. PICK a \in Stamps, b \in Stamps : a = Stamp(sym[m]) /\ b = sym[q].uses[m]
  BY <1>1, <1>2
<1>6. a.key = b.key /\ b.iface <= a.iface
  BY <1>3, <1>4, <1>5 DEF Stamp
<1>7. a = b \/ b.iface < a.iface
  BY <1>6 DEF Stamps
<1>8. QED
  BY <1>5, <1>7

\* What the loop comes to later is not imported by what it has passed.
LEMMA PassedPrecede ==
  ASSUME TypeInv, JobInv, pos <= Len(plan), NEW v \in Passed
  PROVE  v # cur /\ cur \notin Imports[v]
<1>1. PICK k \in 1..pos - 1 : v = plan[k]
  BY DEF Passed
<1>2. pos \in 1..Len(plan)
  BY CurrentUnit
<1>3. k \in 1..Len(plan) /\ k < pos
  BY <1>2
<1>4. QED
  BY <1>1, <1>2, <1>3 DEF JobInv, ImportsPrecede, cur

\* A file written from what is loaded agrees with all of it.
LEMMA WrittenAgrees ==
  ASSUME TypeInv, InterfaceInv, NEW u \in Defs, ~MissingSym(u), Consistent(u), NEW t,
         src' = src, sym'[u].iface = src[u].iface,
         \A m \in Uses[u] : sym'[u].uses[m] = Stamp(sym[m]),
         \A v \in Defs : v # u => sym'[v] = sym[v]
  PROVE  AgreesSince(u, t)'
<1>1. u \in Unit
  BY DEF Defs
<1>2. ASSUME NEW q \in Imports[u] PROVE Agrees(u, q)'
  <2>1. q \in Loaded[u] /\ q # u /\ q \in Defs
    BY <1>1, LoadedClosed, NotLoadedByItself
  <2>2. sym'[q] = sym[q]
    BY <2>1
  <2>3. q \in Uses[u] => sym'[u].uses[q] = Stamp(sym'[q])
    BY <2>2 DEF Stamp
  <2>4. ASSUME NEW m \in Uses[u] \cap Uses[q]
        PROVE  sym'[u].uses[m] = sym'[q].uses[m] \/ sym'[q].uses[m].iface < sym'[u].uses[m].iface
    <3>1. m \in Loaded[u]
      BY UsesAreLoaded
    <3>2. Stamp(sym[m]) = sym[q].uses[m] \/ sym[q].uses[m].iface < Stamp(sym[m]).iface
      BY <1>1, <2>1, <3>1, LoadedAgree
    <3>3. sym'[u].uses[m] = Stamp(sym[m])
      OBVIOUS
    <3>4. QED
      BY <2>2, <3>2, <3>3
  <2>5. QED
    BY <2>3, <2>4 DEF Agrees, Stamp
<1>3. QED
  BY <1>2 DEF AgreesSince

LEMMA MadeFromSym ==
  ASSUME TypeInv, TypeInv', JobInv, DatesInv, InterfaceInv, MadeFrom, CompileInv, ~mixed, SymWritten
  PROVE  MadeFrom'
<1>1. /\ step = "sym" /\ pos <= Len(plan) /\ cur \in Defs /\ cur \in Unit
      /\ sym'[cur] # None /\ sym'[cur].time = clock' /\ sym'[cur].iface = src[cur].iface
      /\ \A m \in Uses[cur] : sym'[cur].uses[m] = Stamp(sym[m])
      /\ \A v \in Defs : v # cur => sym'[v] = sym[v]
      /\ src' = src /\ code' = code /\ ~Idle /\ clock' \in Nat /\ clock <= clock'
      /\ ~MissingSym(cur) /\ Consistent(cur)
  BY SymWrittenIs DEF CompileInv
<1>2. SymPassed = Passed /\ clock \in Nat
  BY <1>1, Bounds DEF SymPassed
<1>3. ASSUME NEW u \in Unit, NEW t \in Nat, cur \in Imports[u] => t < clock PROVE InputsLater(u, t)
  <2>1. ASSUME NEW q \in Imports[u] PROVE sym'[q] = sym[q] \/ sym'[q].time > t
    <3>1. q \in Defs
      BY UnitsAreModules
    <3>2. CASE q = cur
      BY <1>1, <1>2, <1>3, <3>2
    <3>3. CASE q # cur
      BY <1>1, <3>1, <3>3
    <3>4. QED
      BY <3>2, <3>3
  <2>2. QED
    BY <1>1, <2>1 DEF InputsLater
<1>4. ASSUME NEW u \in Defs, sym'[u] # None PROVE SymMade(u)'
  <2>1. CASE u = cur
    <3>1. PICK t \in Nat : t = clock'
      BY <1>1
    <3>2. AgreesSince(u, t)'
      <4>1. /\ sym'[u].iface = src[u].iface /\ \A m \in Uses[u] : sym'[u].uses[m] = Stamp(sym[m])
            /\ \A v \in Defs : v # u => sym'[v] = sym[v]
            /\ src' = src /\ ~MissingSym(u) /\ Consistent(u)
        BY <1>1, <2>1
      <4>2. QED
        BY <4>1, WrittenAgrees
    <3>3. QED
      BY <1>1, <2>1, <3>1, <3>2 DEF SymMade
  <2>2. CASE u # cur
    <3>1. sym'[u] = sym[u] /\ sym[u] # None /\ u \in Unit
      BY <1>1, <1>4, <2>2 DEF Defs
    <3>2. sym[u].time \in Nat
      BY <3>1, UseStamps
    <3>3. cur \in Imports[u] => sym[u].time < clock
      <4>1. cur \in Imports[u] => u \notin SymPassed
        BY <1>1, <1>2, PassedPrecede
      <4>2. QED
        BY <1>1, <3>1, <4>1 DEF DatesInv
    <3>4. InputsLater(u, sym[u].time)
      <4>1. PICK t \in Nat : t = sym[u].time
        BY <3>2
      <4>2. InputsLater(u, t)
        BY <1>3, <3>1, <3>3, <4>1
      <4>3. QED
        BY <4>1, <4>2
    <3>5. QED
      BY <3>1, <3>4, SymMadeStays
  <2>3. QED
    BY <2>1, <2>2
<1>5. ASSUME NEW u \in Imps, code'[u] # None PROVE CodeMade(u)'
  <2>1. code'[u] = code[u] /\ code[u] # None /\ u \in Unit
    BY <1>1, <1>5 DEF Imps
  <2>2. code[u].time \in Nat
    BY <2>1 DEF TypeInv, CodeFile
  <2>3. CASE u = cur
    <3>1. CodeMade(u)
      BY <2>1 DEF MadeFrom
    <3>2. \A q \in Imports[u] : q \in Defs /\ q # u
      BY <2>1, LoadedClosed, NotLoadedByItself
    <3>3. \A q \in Imports[u] : sym'[q] = sym[q]
      BY <1>1, <2>3, <3>2
    <3>4. PICK t \in Nat : t = code[u].time
      BY <2>2
    <3>5. AgreesSince(u, t)'
      <4>1. /\ sym'[u].iface = src[u].iface /\ \A m \in Uses[u] : sym'[u].uses[m] = Stamp(sym[m])
            /\ \A v \in Defs : v # u => sym'[v] = sym[v]
            /\ src' = src /\ ~MissingSym(u) /\ Consistent(u) /\ u \in Defs
        BY <1>1, <2>3
      <4>2. QED
        BY <4>1, WrittenAgrees
    <3>6. src'[u].time <= t => code'[u].body = src'[u].body /\ code'[u].iface = src'[u].iface
      BY <1>1, <2>1, <3>1, <3>4 DEF CodeMade
    <3>7. \A q \in Imports[u] : sym'[q] # None /\ sym'[q].time <= t => code'[u].seen[q] = Stamp(sym'[q])
      BY <1>1, <2>1, <3>1, <3>3, <3>4 DEF CodeMade
    <3>8. QED
      BY <1>1, <3>4, <3>5, <3>6, <3>7 DEF CodeMade, Stamp
  <2>4. CASE u # cur
    <3>1. u \in Defs => sym'[u] = sym[u]
      BY <1>1, <2>4
    <3>2. cur \in Imports[u] => code[u].time < clock
      <4>1. cur \in Imports[u] => u \notin Passed
        BY <1>1, PassedPrecede
      <4>2. QED
        BY <1>1, <2>1, <4>1 DEF DatesInv
    <3>3. InputsLater(u, code[u].time)
      <4>1. PICK t \in Nat : t = code[u].time
        BY <2>2
      <4>2. InputsLater(u, t)
        BY <1>3, <2>1, <3>2, <4>1
      <4>3. QED
        BY <4>1, <4>2
    <3>4. QED
      BY <2>1, <3>1, <3>3, CodeMadeStays
  <2>5. QED
    BY <2>3, <2>4
<1>6. QED
  BY <1>4, <1>5 DEF MadeFrom

LEMMA MadeFromCode ==
  ASSUME TypeInv, TypeInv', JobInv, InterfaceInv, MadeFrom, CompileInv, ~mixed, CodeWritten
  PROVE  MadeFrom'
<1>1. /\ step = "code" /\ pos <= Len(plan) /\ cur \in Imps /\ cur \in Unit
      /\ code'[cur] # None /\ code'[cur].time = clock'
      /\ code'[cur].body = src[cur].body /\ code'[cur].iface = src[cur].iface
      /\ \A m \in Imports[cur] : code'[cur].seen[m] = Stamp(sym[m])
      /\ \A v \in Imps : v # cur => code'[v] = code[v]
      /\ src' = src /\ sym' = sym /\ clock' \in Nat
      /\ ~MissingSym(cur) /\ Consistent(cur) /\ (cur \in Defs => FreshSym(cur))
  BY CodeWrittenIs DEF CompileInv
<1>2. ASSUME NEW u \in Unit, NEW t PROVE InputsLater(u, t)
  BY <1>1 DEF InputsLater
<1>3. ASSUME NEW u \in Defs, sym'[u] # None PROVE SymMade(u)'
  <2>1. sym[u] # None /\ sym'[u] = sym[u] /\ u \in Unit
    BY <1>1, <1>3 DEF Defs
  <2>2. sym[u].time \in Nat
    BY <2>1, UseStamps
  <2>3. InputsLater(u, sym[u].time)
    BY <1>1 DEF InputsLater
  <2>4. QED
    BY <2>1, <2>3, SymMadeStays
<1>4. ASSUME NEW u \in Imps, code'[u] # None PROVE CodeMade(u)'
  <2>1. CASE u = cur
    <3>1. PICK t \in Nat : t = clock'
      BY <1>1
    <3>2. ASSUME u \in Defs PROVE AgreesSince(u, t)'
      <4>1. /\ sym'[u].iface = src[u].iface /\ \A m \in Uses[u] : sym'[u].uses[m] = Stamp(sym[m])
            /\ \A v \in Defs : v # u => sym'[v] = sym[v]
            /\ src' = src /\ ~MissingSym(u) /\ Consistent(u)
        BY <1>1, <2>1, <3>2 DEF FreshSym
      <4>2. QED
        BY <3>2, <4>1, WrittenAgrees
    <3>3. \A q \in Imports[u] : code'[u].seen[q] = Stamp(sym'[q])
      BY <1>1, <2>1 DEF Stamp
    <3>4. QED
      BY <1>1, <2>1, <3>1, <3>2, <3>3 DEF CodeMade, Stamp
  <2>2. CASE u # cur
    <3>1. code'[u] = code[u] /\ code[u] # None /\ (u \in Defs => sym'[u] = sym[u])
      BY <1>1, <1>4, <2>2
    <3>2. InputsLater(u, code[u].time)
      BY <1>1 DEF InputsLater
    <3>3. QED
      BY <3>1, <3>2, CodeMadeStays
  <2>3. QED
    BY <2>1, <2>2
<1>5. QED
  BY <1>3, <1>4 DEF MadeFrom

LEMMA MadeFromRests ==
  ASSUME MadeFrom, src' = src, sym' = sym, code' = code
  PROVE  MadeFrom'
BY DEF MadeFrom, SymMade, CodeMade, AgreesSince, Agrees, Stamp

LEMMA MadeFromStep ==
  ASSUME TypeInv, TypeInv', JobInv, DatesInv, InterfaceInv, MadeFrom, CompileInv, ~mixed, Ties = FALSE, Next
  PROVE  MadeFrom'
<1>1. CASE disk' = disk
  <2>1. src' = src /\ sym' = sym /\ code' = code
    BY <1>1 DEF disk
  <2>2. QED
    BY <2>1, MadeFromRests
<1>2. ASSUME NEW v \in Unit, NEW part \in {"body", "iface"}, Edit(v, part) PROVE MadeFrom'
  <2>1. /\ \A u \in Unit : u # v => src'[u] = src[u]
        /\ src'[v].time = clock' /\ sym' = sym /\ code' = code /\ clock' \in Nat /\ clock < clock'
    BY <1>2, Edited
  <2>2. ASSUME NEW u \in Unit, NEW t \in Nat, t <= clock PROVE InputsLater(u, t)
    <3>1. clock \in Nat
      BY Bounds
    <3>2. src'[u] = src[u] \/ src'[u].time > t
      BY <2>1, <2>2, <3>1
    <3>3. QED
      BY <2>1, <3>2 DEF InputsLater
  <2>3. ASSUME NEW u \in Defs, sym'[u] # None PROVE SymMade(u)'
    <3>1. sym'[u] = sym[u] /\ sym[u] # None /\ u \in Unit
      BY <2>1, <2>3 DEF Defs
    <3>2. sym[u].time \in Nat /\ sym[u].time <= clock
      BY <3>1, UseStamps DEF DatesInv
    <3>3. PICK t \in Nat : t = sym[u].time
      BY <3>2
    <3>4. InputsLater(u, t)
      BY <2>2, <3>1, <3>2, <3>3
    <3>5. QED
      BY <3>1, <3>3, <3>4, SymMadeStays
  <2>4. ASSUME NEW u \in Imps, code'[u] # None PROVE CodeMade(u)'
    <3>1. code'[u] = code[u] /\ code[u] # None /\ u \in Unit /\ (u \in Defs => sym'[u] = sym[u])
      BY <2>1, <2>4 DEF Imps
    <3>2. code[u].time \in Nat /\ code[u].time <= clock
      BY <3>1 DEF DatesInv, TypeInv, CodeFile
    <3>3. PICK t \in Nat : t = code[u].time
      BY <3>2
    <3>4. InputsLater(u, t)
      BY <2>2, <3>1, <3>2, <3>3
    <3>5. QED
      BY <3>1, <3>3, <3>4, CodeMadeStays
  <2>5. QED
    BY <2>3, <2>4 DEF MadeFrom
<1>3. ASSUME NEW v \in Defs, RemoveSym(v) PROVE MadeFrom'
  <2>1. sym' = [sym EXCEPT ![v] = None] /\ src' = src /\ code' = code
    BY <1>3 DEF RemoveSym
  <2>2. \A u \in Defs : sym'[u] = sym[u] \/ sym'[u] = None
    BY <2>1 DEF TypeInv
  <2>3. ASSUME NEW u \in Unit, NEW t PROVE InputsLater(u, t)
    <3>1. Imports[u] \subseteq Defs
      BY UnitsAreModules
    <3>2. QED
      BY <2>1, <2>2, <3>1 DEF InputsLater
  <2>4. ASSUME NEW u \in Defs, sym'[u] # None PROVE SymMade(u)'
    <3>1. sym'[u] = sym[u] /\ sym[u] # None /\ u \in Unit
      BY <2>2, <2>4 DEF Defs
    <3>2. sym[u].time \in Nat
      BY <3>1, UseStamps
    <3>3. PICK t \in Nat : t = sym[u].time
      BY <3>2
    <3>4. InputsLater(u, t)
      BY <2>3, <3>1
    <3>5. QED
      BY <3>1, <3>3, <3>4, SymMadeStays
  <2>5. ASSUME NEW u \in Imps, code'[u] # None PROVE CodeMade(u)'
    <3>1. code'[u] = code[u] /\ code[u] # None /\ u \in Unit /\ (u \in Defs => sym'[u] = sym[u] \/ sym'[u] = None)
      BY <2>1, <2>2, <2>5 DEF Imps
    <3>2. code[u].time \in Nat
      BY <3>1 DEF TypeInv, CodeFile
    <3>3. PICK t \in Nat : t = code[u].time
      BY <3>2
    <3>4. InputsLater(u, t)
      BY <2>3, <3>1
    <3>5. QED
      BY <3>1, <3>3, <3>4, CodeMadeStays
  <2>6. QED
    BY <2>4, <2>5 DEF MadeFrom
<1>4. ASSUME NEW v \in Imps, RemoveCode(v) PROVE MadeFrom'
  <2>1. code' = [code EXCEPT ![v] = None] /\ src' = src /\ sym' = sym
    BY <1>4 DEF RemoveCode
  <2>2. \A u \in Imps : code'[u] = code[u] \/ code'[u] = None
    BY <2>1 DEF TypeInv
  <2>3. \A u \in Defs : sym'[u] # None => SymMade(u)'
    BY <2>1 DEF MadeFrom, SymMade, AgreesSince, Agrees, Stamp
  <2>4. ASSUME NEW u \in Imps, code'[u] # None PROVE CodeMade(u)'
    <3>1. code'[u] = code[u] /\ CodeMade(u)
      BY <2>2, <2>4 DEF MadeFrom
    <3>2. QED
      BY <2>1, <3>1 DEF CodeMade, AgreesSince, Agrees, Stamp
  <2>5. QED
    BY <2>3, <2>4 DEF MadeFrom
<1>5. CASE SymWritten
  BY <1>5, MadeFromSym
<1>6. CASE CodeWritten
  BY <1>6, MadeFromCode
<1>7. QED
  BY <1>1, <1>2, <1>3, <1>4, <1>5, <1>6, DiskCases

-----------------------------------------------------------------------------
(* Compilations *)

\* The file of a loaded module has one place in the reading.
LEMMA ReadAt ==
  ASSUME NEW u \in Unit, NEW m \in Loaded[u]
  PROVE  \E i \in 1..Len(Reads[u]) : Reads[u][i] = m /\ \A j \in 1..Len(Reads[u]) : Reads[u][j] = m => j = i
<1>1. Reads[u] \in Seq(Defs) /\ IsInjective(Reads[u]) /\ m \in ToSet(Reads[u])
  BY FilesAreRead
<1>2. PICK i \in 1..Len(Reads[u]) : Reads[u][i] = m
  BY <1>1, ToSetMember
<1>3. \A j \in 1..Len(Reads[u]) : Reads[u][j] = Reads[u][i] => j = i
  BY <1>1, InjectiveSeq
<1>4. QED
  BY <1>2, <1>3

\* A compilation that meets no conflict and mixes nothing knows modules as they are.
LEMMA NothingMixed ==
  ASSUME NEW u \in Unit, Stops(u) = {}, ~Mixed(u)
  PROVE  Consistent(u)
<1>1. ~MissingSym(u)
  BY NothingMissing
<1>2. Loaded[u] \subseteq Defs
  BY LoadedClosed
<1>3. ASSUME NEW q \in Loaded[u], NEW m \in Uses[q] \cap Loaded[u] PROVE sym[q].uses[m].key = sym[m].key
  <2>1. PICK i \in 1..Len(Reads[u]) : Reads[u][i] = q
    BY ReadAt
  <2>2. PICK j \in 1..Len(Reads[u]) : Reads[u][j] = m /\ \A k \in 1..Len(Reads[u]) : Reads[u][k] = m => k = j
    BY <1>3, ReadAt
  <2>3. m # q
    BY <1>2, UsesAreLoaded, NotLoadedByItself DEF Defs
  <2>4. CASE j < i
    <3>1. j \in 1..i - 1
      BY <2>4
    <3>2. \A k \in 1..i : sym[Reads[u][k]] # None
      <4>1. \A k \in 1..i : k \in 1..Len(Reads[u])
        BY FilesAreRead
      <4>2. QED
        BY <4>1 DEF Stops
    <3>3. ~Clash(u, i)
      BY <3>2 DEF Stops
    <3>4. QED
      BY <2>1, <2>2, <3>1, <3>3 DEF Clash
  <2>5. CASE i < j
    <3>1. \A k \in 1..i : k \in 1..Len(Reads[u]) /\ k # j
      BY <2>5, FilesAreRead
    <3>2. i \in Early(u, m)
      BY <2>1, <2>2, <3>1 DEF Early
    <3>3. sym[q].uses[m] = Stamp(sym[m])
      BY <2>1, <3>2 DEF Mixed
    <3>4. QED
      BY <3>3 DEF Stamp
  <2>6. i # j
    BY <2>1, <2>2, <2>3
  <2>7. QED
    BY <2>4, <2>5, <2>6
<1>4. ASSUME NEW m \in Loaded[u] PROVE Known(u, m) = Stamp(sym[m])
  <2>1. CASE Early(u, m) = {}
    BY <2>1 DEF Known, Stamp
  <2>2. CASE Early(u, m) # {}
    <3>1. PICK i : i = Min(Early(u, m)) /\ i \in Early(u, m)
      BY <2>2, EarlyFile
    <3>2. sym[Reads[u][i]].uses[m] = Stamp(sym[m])
      BY <3>1 DEF Mixed
    <3>3. QED
      BY <2>2, <3>1, <3>2 DEF Known, Stamp
  <2>3. QED
    BY <2>1, <2>2
<1>5. QED
  BY <1>3, <1>4 DEF Consistent

\* Nothing stops or mixes where everything loaded is fresh.
LEMMA FreshIsConsistent ==
  ASSUME NEW u \in Unit, \A m \in Loaded[u] : FreshSym(m)
  PROVE  ~MissingSym(u) /\ Stops(u) = {} /\ ~Mixed(u) /\ Consistent(u)
<1>1. ~MissingSym(u)
  BY DEF MissingSym, FreshSym
<1>2. ASSUME NEW q \in Loaded[u], NEW m \in Uses[q] PROVE sym[q].uses[m] = Stamp(sym[m])
  BY <1>2 DEF FreshSym
<1>3. Reads[u] \in Seq(Defs) /\ \A i \in 1..Len(Reads[u]) : Reads[u][i] \in Loaded[u]
  BY FilesAreRead, ToSetMember
<1>4. Stops(u) = {}
  <2>1. SUFFICES ASSUME NEW i \in Stops(u) PROVE FALSE
    OBVIOUS
  <2>2. i \in 1..Len(Reads[u]) /\ Clash(u, i)
    BY <1>1, StopsAtClash
  <2>3. PICK m \in Uses[Reads[u][i]], j \in 1..i - 1 :
          \/ Reads[u][j] = m /\ sym[Reads[u][i]].uses[m].key # sym[m].key
          \/ {i, j} \subseteq Early(u, m) /\ sym[Reads[u][i]].uses[m].key # sym[Reads[u][j]].uses[m].key
    BY <2>2 DEF Clash
  <2>4. sym[Reads[u][i]].uses[m] = Stamp(sym[m])
    BY <1>2, <1>3, <2>2, <2>3
  <2>5. j \in Early(u, m) => sym[Reads[u][j]].uses[m] = Stamp(sym[m])
    BY <1>2, EarlyFile
  <2>6. QED
    BY <2>3, <2>4, <2>5 DEF Stamp
<1>5. ~Mixed(u)
  <2>1. ASSUME NEW m \in Loaded[u], NEW i \in Early(u, m) PROVE sym[Reads[u][i]].uses[m] = Stamp(sym[m])
    BY <1>2, EarlyFile
  <2>2. QED
    BY <2>1 DEF Mixed
<1>6. QED
  BY <1>1, <1>4, <1>5, NothingMixed

\* Writing its own symbol file does not change what a unit has loaded.
LEMMA LoadedStays ==
  ASSUME NEW u \in Unit, ~MissingSym(u), \A v \in Defs : v # u => sym'[v] = sym[v]
  PROVE  ~MissingSym(u)' /\ (Consistent(u) => Consistent(u)')
<1>1. \A m \in Loaded[u] : m \in Defs /\ m # u
  BY LoadedClosed, NotLoadedByItself
<1>2. \A m \in Loaded[u] : sym'[m] = sym[m]
  BY <1>1
<1>3. ~MissingSym(u)'
  BY <1>2 DEF MissingSym
<1>4. ASSUME Consistent(u) PROVE Consistent(u)'
  <2>1. ASSUME NEW q \in Loaded[u], NEW m \in Uses[q] \cap Loaded[u] PROVE sym'[q].uses[m].key = sym'[m].key
    <3>1. sym[q].uses[m].key = sym[m].key
      BY <1>4 DEF Consistent
    <3>2. QED
      BY <1>2, <3>1
  <2>2. ASSUME NEW m \in Loaded[u] PROVE Known(u, m)' = Known(u, m)
    <3>1. CASE Early(u, m) = {}
      BY <1>2, <3>1 DEF Known, Early
    <3>2. CASE Early(u, m) # {}
      <4>1. PICK i : i = Min(Early(u, m)) /\ i \in Early(u, m)
        BY <3>2, EarlyFile
      <4>2. Early(u, m)' = Early(u, m)
        BY DEF Early
      <4>3. sym'[Reads[u][i]] = sym[Reads[u][i]] /\ sym'[m] = sym[m]
        BY <1>2, <4>1, EarlyFile
      <4>4. QED
        BY <3>2, <4>1, <4>2, <4>3 DEF Known
    <3>3. QED
      BY <3>1, <3>2
  <2>3. \A m \in Loaded[u] : Known(u, m)' = Stamp(sym'[m])
    BY <1>2, <1>4, <2>2 DEF Consistent
  <2>4. QED
    BY <2>1, <2>3 DEF Consistent, Stamp
<1>5. QED
  BY <1>3, <1>4

\* The symbol file of u after WriteSym, kept or new, is fresh.
LEMMA SymIsFresh ==
  ASSUME TypeInv, NEW u \in Defs, ~MissingSym(u), src' = src,
         \A v \in Defs : v # u => sym'[v] = sym[v],
         sym'[u] # None, sym'[u].iface = src[u].iface,
         \A m \in Uses[u] : sym'[u].uses[m] = Stamp(sym[m])
  PROVE  FreshSym(u)'
<1>1. u \in Unit
  BY DEF Defs
<1>2. ASSUME NEW m \in Uses[u] PROVE sym'[m] # None /\ sym'[u].uses[m] = Stamp(sym'[m])
  <2>1. m \in Loaded[u] /\ m # u
    BY <1>1, UsesAreLoaded, NotLoadedByItself
  <2>2. m \in Defs /\ sym[m] # None
    BY <1>1, <2>1, LoadedThere
  <2>3. sym'[m] = sym[m]
    BY <2>1, <2>2
  <2>4. QED
    BY <2>2, <2>3
<1>3. QED
  BY <1>2 DEF FreshSym, Stamp

\* What WriteSym leaves, unless it reports error 193.
LEMMA SymAfter ==
  ASSUME TypeInv, CompileInv, WriteSym, ~Fail({193}), NEW u, u = cur
  PROVE  /\ u \in Defs /\ src' = src /\ \A v \in Defs : v # u => sym'[v] = sym[v]
         /\ sym'[u] # None /\ sym'[u].iface = src[u].iface /\ ~MissingSym(u)
         /\ LoadedRight => Consistent(u) /\ \A m \in Uses[u] : sym'[u].uses[m] = Stamp(sym[m])
         /\ SymDone /\ failed' = failed /\ errs' = errs /\ faults' = faults
<1>1. u \in Defs /\ u \in Unit /\ src' = src /\ step = "sym"
  BY WriteSymMoves DEF Defs
<1>2. ~MissingSym(u) /\ (LoadedRight => Consistent(u) /\ \A m \in Uses[u] : Known(u, m) = Stamp(sym[m]))
  BY <1>1, UsesAreLoaded DEF CompileInv, LoadedRight, Consistent
<1>3. CASE sym' = sym /\ sym[u] # None /\ SameSym(sym[u], NewSym(u, clock')) /\ SymDone
           /\ failed' = failed /\ errs' = errs /\ faults' = faults
  <2>1. sym[u].iface = src[u].iface /\ sym[u].uses = [m \in Uses[u] |-> Known(u, m)]
    BY <1>3 DEF SameSym, NewSym
  <2>2. QED
    BY <1>1, <1>2, <1>3, <2>1
<1>4. CASE sym' = [sym EXCEPT ![u] = NewSym(u, clock')] /\ SymDone
           /\ failed' = failed /\ errs' = errs /\ faults' = faults
  <2>1. sym'[u] = NewSym(u, clock') /\ \A v \in Defs : v # u => sym'[v] = sym[v]
    BY <1>1, <1>4 DEF TypeInv
  <2>2. NewSym(u, clock') # None
    BY WriteSymMoves
  <2>3. sym'[u].iface = src[u].iface /\ \A m \in Uses[u] : sym'[u].uses[m] = Known(u, m)
    BY <2>1 DEF NewSym
  <2>4. QED
    BY <1>1, <1>2, <1>4, <2>1, <2>2, <2>3
<1>5. QED
  BY <1>3, <1>4, WriteSymMoves

\* What is loaded, when a compilation goes on.
LoadedOn ==
  step' \in {"sym", "code"} =>
    /\ step' = "sym" => cur' \in Defs
    /\ step' = "code" => cur' \in Imps
    /\ ~MissingSym(cur)'
    /\ step' = "code" /\ cur' \in Defs => sym'[cur'] # None

LEMMA LoadedStep ==
  ASSUME TypeInv, JobInv, CompileInv, Next
  PROVE  /\ LoadedOn
         /\ LoadedRight /\ (Compile /\ step' \in {"sym", "code"} => Consistent(cur)) => LoadedRight'
<1>1. CASE step' \notin {"sym", "code"}
  BY <1>1 DEF LoadedOn, LoadedRight
<1>2. CASE step' \in {"sym", "code"}
  <2>1. CASE \/ \E u \in Unit : \E part \in {"body", "iface"} : Edit(u, part)
             \/ \E u \in Defs : RemoveSym(u)
             \/ \E u \in Imps : RemoveCode(u)
    <3>1. step' = step /\ step = "decide"
      BY <2>1 DEF Edit, RemoveSym, RemoveCode, run, JobInv
    <3>2. QED
      BY <1>2, <3>1
  <2>2. CASE \E j, a, p : Starts(j, a, p)
    BY <1>2, <2>2, StartsWith, BeginMoves DEF Starts
  <2>3. CASE Kill \/ Finish
    BY <1>2, <2>3 DEF Kill, Finish
  <2>4. CASE Invalidate \/ Skip \/ Take
    BY <1>2, <2>4 DEF Invalidate, Skip, Take, Advance
  <2>5. CASE Compile
    <3>1. ASSUME NEW f, Fail(f) PROVE FALSE
      BY <1>2, <3>1 DEF Fail, Advance
    <3>2. /\ ~MissingSym(cur) /\ step' = (IF cur \in Defs THEN "sym" ELSE "code")
          /\ pos' = pos /\ plan' = plan /\ sym' = sym /\ cur \in Unit
      BY <2>5, <3>1, CompileMoves DEF disk
    <3>3. PICK u \in Unit : u = cur
      BY <3>2
    <3>4. cur' = u
      BY <3>2, <3>3 DEF cur
    <3>5. u \notin Defs => u \in Imps
      BY UnitsAreModules DEF Defs, Imps
    <3>6. ~MissingSym(u)' /\ (Consistent(u) => Consistent(u)')
      BY <3>2, <3>3, LoadedStays
    <3>7. step' = "code" => u \notin Defs
      BY <3>2, <3>3
    <3>8. QED
      BY <1>2, <2>5, <3>2, <3>3, <3>4, <3>5, <3>6, <3>7 DEF LoadedOn, LoadedRight
  <2>6. CASE WriteSym
    <3>1. ~Fail({193})
      BY <1>2 DEF Fail, Advance
    <3>2. /\ pos <= Len(plan) /\ plan' = plan /\ step = "sym"
      BY <2>6, WriteSymMoves
    <3>3. cur \in Unit
      BY <3>2, CurrentUnit
    <3>4. PICK u \in Unit : u = cur
      BY <3>3
    <3>5. /\ u \in Defs /\ src' = src /\ \A v \in Defs : v # u => sym'[v] = sym[v]
          /\ sym'[u] # None /\ sym'[u].iface = src[u].iface
          /\ LoadedRight => Consistent(u) /\ \A m \in Uses[u] : sym'[u].uses[m] = Stamp(sym[m])
          /\ ~MissingSym(u) /\ SymDone
      BY <2>6, <3>1, <3>4, SymAfter
    <3>6. u \in Imps /\ step' = "code" /\ pos' = pos
      BY <1>2, <3>2, <3>4, <3>5, SymDoneMoves, AdvanceMoves
    <3>7. cur' = u
      BY <3>2, <3>4, <3>6 DEF cur
    <3>8. ~MissingSym(u)' /\ (Consistent(u) => Consistent(u)')
      BY <3>5, LoadedStays
    <3>9. LoadedRight => FreshSym(u)'
      BY <3>5, SymIsFresh
    <3>10. QED
      BY <3>5, <3>6, <3>7, <3>8, <3>9 DEF LoadedOn, LoadedRight
  <2>7. CASE WriteCode
    BY <1>2, <2>7, WriteCodeMoves, FailMoves, AdvanceMoves
  <2>8. QED
    BY <2>1, <2>2, <2>3, <2>4, <2>5, <2>6, <2>7, Cases DEF Next
<1>3. QED
  BY <1>1, <1>2

LEMMA LoadedRests ==
  ASSUME src' = src, sym' = sym, plan' = plan, pos' = pos, step' = step
  PROVE  LoadedRight => LoadedRight'
<1>1. cur' = cur
  BY DEF cur
<1>2. ASSUME NEW u, Consistent(u) PROVE Consistent(u)'
  <2>1. ASSUME NEW m PROVE Known(u, m)' = Known(u, m)
    <3>1. Early(u, m)' = Early(u, m)
      BY DEF Early
    <3>2. QED
      BY <3>1 DEF Known
  <2>2. QED
    BY <1>2, <2>1 DEF Consistent, Stamp
<1>3. ASSUME NEW u, FreshSym(u) PROVE FreshSym(u)'
  BY <1>3 DEF FreshSym, Stamp
<1>4. PICK u : u = cur
  OBVIOUS
<1>5. cur' = u
  BY <1>1, <1>4
<1>6. ASSUME LoadedRight, step' \in {"sym", "code"} PROVE Consistent(u)' /\ (step' = "code" /\ u \in Defs => FreshSym(u)')
  BY <1>2, <1>3, <1>4, <1>6 DEF LoadedRight
<1>7. QED
  BY <1>5, <1>6 DEF LoadedRight

LEMMA CompileStep ==
  ASSUME TypeInv, JobInv, CompileInv, Next
  PROVE  CompileInv'
<1>1. LoadedOn
  BY LoadedStep
<1>2. ASSUME ~mixed' PROVE LoadedRight'
  <2>1. CASE Finish
    <3>1. step' = "decide"
      BY <2>1 DEF Finish
    <3>2. QED
      BY <3>1 DEF LoadedRight
  <2>2. CASE ~Finish
    <3>1. LoadedRight /\ (Compile /\ step' \in {"sym", "code"} => ~Mixed(cur))
      BY <1>2, <2>2, MixedMoves DEF CompileInv
    <3>2. ASSUME Compile, step' \in {"sym", "code"} PROVE Consistent(cur)
      <4>1. \A f : ~Fail(f)
        BY <3>2 DEF Fail, Advance
      <4>2. Stops(cur) = {} /\ cur \in Unit
        BY <3>2, <4>1, CompileMoves
      <4>3. QED
        BY <3>1, <3>2, <4>2, NothingMixed
    <3>3. QED
      BY <3>1, <3>2, LoadedStep
  <2>3. QED
    BY <2>1, <2>2
<1>3. QED
  BY <1>1, <1>2 DEF CompileInv, LoadedOn

-----------------------------------------------------------------------------
(* What a make has passed *)

LEMMA MakePasses ==
  ASSUME TypeInv, JobInv, job = "make", pos <= Len(plan)
  PROVE  /\ Loaded[cur] \subseteq Passed
         /\ \A v \in Passed : v \in Unit /\ v # cur /\ cur \notin Loaded[v] /\ Loaded[v] \subseteq Passed
<1>1. plan = Order /\ pos \in 1..Len(Order) /\ cur = Order[pos]
  BY CurrentUnit DEF JobInv, cur
<1>2. Passed = {Order[j] : j \in 1..pos - 1}
  BY <1>1 DEF Passed
<1>3. Loaded[cur] \subseteq Passed
  BY <1>1, <1>2, LoadedBefore
<1>4. ASSUME NEW v \in Passed PROVE v \in Unit /\ v # cur /\ cur \notin Loaded[v] /\ Loaded[v] \subseteq Passed
  <2>1. PICK k \in 1..pos - 1 : v = Order[k]
    BY <1>2
  <2>2. k \in 1..Len(Order) /\ k < pos
    BY <1>1
  <2>3. Loaded[v] \subseteq {Order[j] : j \in 1..k - 1}
    BY <2>1, <2>2, LoadedBefore
  <2>4. \A j \in 1..pos - 1 : j \in 1..Len(Order) /\ j # pos
    BY <1>1
  <2>5. \A j \in 1..pos - 1 : Order[j] # Order[pos]
    <3>1. \A i, j \in 1..Len(Order) : Order[i] = Order[j] => i = j
      BY OrderIsRegulated, InjectiveSeq
    <3>2. QED
      BY <1>1, <2>4, <3>1
  <2>6. \A j \in 1..k - 1 : j \in 1..pos - 1
    BY <1>1, <2>2
  <2>7. {Order[j] : j \in 1..k - 1} \subseteq {Order[j] : j \in 1..pos - 1}
    BY <2>6
  <2>8. cur \notin Passed
    BY <1>1, <1>2, <2>5
  <2>9. v \in Unit
    BY <2>1, <2>2, OrderIsRegulated
  <2>10. Loaded[v] \subseteq Passed
    BY <1>2, <2>3, <2>7
  <2>11. QED
    BY <2>8, <2>9, <2>10
<1>5. QED
  BY <1>3, <1>4

\* A unit that is compiled in a make has loaded nothing that is marked.
LEMMA ClientsWaited ==
  ASSUME TypeInv, JobInv, MarksInv, job = "make", pos <= Len(plan), ~Doubtful(cur)
  PROVE  Loaded[cur] \cap failed = {}
<1>1. cur \in Unit
  BY CurrentUnit
<1>2. Imports[cur] \cap failed = {}
  BY DEF Doubtful
<1>3. Imports[cur] \subseteq Loaded[cur] /\ Loaded[cur] \subseteq Passed
  BY <1>1, LoadedClosed, MakePasses
<1>4. ASSUME NEW x \in Loaded[cur], x \in failed PROVE FALSE
  <2>1. x \notin Imports[cur]
    BY <1>2, <1>4
  <2>2. PICK q \in Imports[cur] : x \in Loaded[q]
    BY <1>1, <2>1, LoadedThrough
  <2>3. q \in Passed /\ Loaded[q] \cap failed # {}
    BY <1>3, <1>4, <2>2
  <2>4. q \in failed
    BY <2>3 DEF MarksInv
  <2>5. QED
    BY <1>2, <2>4
<1>5. QED
  BY <1>4

\* Everything it has loaded is there, and fresh when nothing was mixed before.
LEMMA LoadedIsRight ==
  ASSUME TypeInv, JobInv, MarksInv, MakeInv, job = "make", pos <= Len(plan), ~Doubtful(cur)
  PROVE  /\ ~MissingSym(cur)
         /\ Sure => /\ \A m \in Loaded[cur] : FreshSym(m)
                    /\ Stops(cur) = {} /\ ~Mixed(cur) /\ Consistent(cur)
<1>1. cur \in Unit
  BY CurrentUnit
<1>2. ASSUME NEW m \in Loaded[cur] PROVE sym[m] # None /\ (Sure => FreshSym(m))
  <2>1. m \in Passed \ failed /\ m \in Defs
    BY <1>1, <1>2, LoadedClosed, MakePasses, ClientsWaited
  <2>2. Right(m)
    BY <2>1 DEF MakeInv
  <2>3. QED
    BY <2>1, <2>2 DEF Right, Fresh
<1>3. ~MissingSym(cur)
  BY <1>2 DEF MissingSym
<1>4. ASSUME Sure PROVE Stops(cur) = {} /\ ~Mixed(cur) /\ Consistent(cur)
  BY <1>1, <1>2, <1>4, FreshIsConsistent
<1>5. QED
  BY <1>2, <1>3, <1>4

\* What is right about a unit stays right as long as its files and what it loads stay.
LEMMA RightStays ==
  ASSUME NEW u \in Unit, src' = src, options' = options,
         u \in Defs => sym'[u] = sym[u], u \in Imps => code'[u] = code[u],
         \A m \in Loaded[u] : sym'[m] = sym[m]
  PROVE  /\ Settled(u) => Settled(u)'
         /\ Fresh(u) => Fresh(u)'
         /\ Right(u) /\ (Sure' => Sure) => Right(u)'
<1>1. \A m \in Imports[u] : sym'[m] = sym[m]
  BY LoadedClosed
<1>2. ASSUME Fresh(u) PROVE Fresh(u)'
  <2>1. ASSUME u \in Defs PROVE FreshSym(u)'
    <3>1. \A m \in Uses[u] : sym'[m] = sym[m]
      BY <2>1, UsesAreLoaded
    <3>2. QED
      BY <1>2, <2>1, <3>1 DEF FreshSym, Fresh, Stamp
  <2>2. ASSUME u \in Imps PROVE FreshCode(u)'
    BY <1>1, <1>2, <2>2 DEF FreshCode, Fresh, Stamp
  <2>3. QED
    BY <2>1, <2>2 DEF Fresh
<1>3. ASSUME OutOfDate(u)' PROVE OutOfDate(u)
  <2>1. CASE \E m \in Imports[u] : sym'[m] = None
    BY <1>1, <2>1 DEF OutOfDate
  <2>2. CASE u \in Defs /\ IF Mode[u] = "oberon" THEN sym'[u] = None ELSE TooOld(u, sym[u])'
    <3>1. sym'[u] = sym[u]
      BY <2>2
    <3>2. TooOld(u, sym[u])' => TooOld(u, sym[u])
      BY <1>1, <3>1 DEF TooOld, Later
    <3>3. QED
      BY <2>2, <3>1, <3>2 DEF OutOfDate
  <2>3. CASE u \in Imps /\ TooOld(u, code[u])'
    <3>1. code'[u] = code[u]
      BY <2>3
    <3>2. TooOld(u, code[u])' => TooOld(u, code[u])
      BY <1>1, <3>1 DEF TooOld, Later
    <3>3. QED
      BY <2>3, <3>2 DEF OutOfDate
  <2>4. QED
    BY <1>3, <2>1, <2>2, <2>3 DEF OutOfDate
<1>4. Settled(u) => Settled(u)'
  BY <1>3 DEF Settled
<1>5. ASSUME Right(u), Sure' => Sure PROVE Right(u)'
  BY <1>2, <1>4, <1>5 DEF Right
<1>6. QED
  BY <1>2, <1>4, <1>5

\* The dates of a unit that nothing about is out of date.
LEMMA UpToDate ==
  ASSUME TypeInv, NEW u \in Unit, ~OutOfDate(u)
  PROVE  /\ \A m \in Imports[u] : sym[m] # None
         /\ u \in Defs => sym[u] # None
         /\ u \in Defs /\ Mode[u] # "oberon" =>
              src[u].time <= sym[u].time /\ \A m \in Imports[u] : sym[m].time <= sym[u].time
         /\ u \in Imps =>
              code[u] # None /\ src[u].time <= code[u].time /\ \A m \in Imports[u] : sym[m].time <= code[u].time
<1>1. \A m \in Imports[u] : m \in Defs /\ sym[m] # None
  BY UnitsAreModules DEF OutOfDate
<1>2. \A m \in Imports[u] : sym[m].time \in Nat
  BY <1>1, UseStamps
<1>3. src[u].time \in Nat
  BY SourceStamps
<1>4. ASSUME NEW t \in Nat, ~Later(u, t)
      PROVE  src[u].time <= t /\ \A m \in Imports[u] : sym[m].time <= t
  BY <1>1, <1>2, <1>3, <1>4 DEF Later
<1>5. ASSUME u \in Defs PROVE sym[u] # None
  BY <1>5 DEF OutOfDate, TooOld
<1>6. ASSUME u \in Defs, Mode[u] # "oberon"
      PROVE  src[u].time <= sym[u].time /\ \A m \in Imports[u] : sym[m].time <= sym[u].time
  <2>1. ~Later(u, sym[u].time) /\ sym[u].time \in Nat
    BY <1>5, <1>6, UseStamps DEF OutOfDate, TooOld
  <2>2. QED
    BY <1>4, <2>1
<1>7. ASSUME u \in Imps
      PROVE  code[u] # None /\ src[u].time <= code[u].time /\ \A m \in Imports[u] : sym[m].time <= code[u].time
  <2>1. code[u] # None /\ ~Later(u, code[u].time)
    BY <1>7 DEF OutOfDate, TooOld
  <2>2. code[u].time \in Nat
    BY <1>7, <2>1 DEF TypeInv, CodeFile
  <2>3. QED
    BY <1>4, <2>1, <2>2
<1>8. QED
  BY <1>1, <1>5, <1>6, <1>7

\* The decision is right: a unit about which no date is out of date, and whose
\* imports are fresh, is fresh, although the symbol file of an Oberon-2 module
\* is older than its inputs.
LEMMA SkippedIsFresh ==
  ASSUME TypeInv, InterfaceInv, MadeFrom, NEW u \in Unit, ~OutOfDate(u),
         \A m \in Loaded[u] : FreshSym(m)
  PROVE  Fresh(u)
<1>1. /\ \A m \in Imports[u] : sym[m] # None
      /\ u \in Defs => sym[u] # None
      /\ u \in Defs /\ Mode[u] # "oberon" =>
           src[u].time <= sym[u].time /\ \A m \in Imports[u] : sym[m].time <= sym[u].time
      /\ u \in Imps =>
           code[u] # None /\ src[u].time <= code[u].time /\ \A m \in Imports[u] : sym[m].time <= code[u].time
  BY UpToDate
<1>2. u \in Defs /\ Mode[u] = "oberon" => u \in Imps
  BY DEF Imps
<1>3. ASSUME u \in Defs PROVE sym[u].iface = src[u].iface /\ \A q \in Imports[u] : Agrees(u, q)
  <2>1. CASE Mode[u] = "oberon"
    <3>1. u \in Imps /\ code[u] # None /\ CodeMade(u)
      BY <1>1, <1>2, <1>3, <2>1 DEF MadeFrom
    <3>2. AgreesSince(u, code[u].time)
      BY <1>1, <1>3, <3>1 DEF CodeMade
    <3>3. QED
      BY <1>1, <3>1, <3>2 DEF AgreesSince
  <2>2. CASE Mode[u] # "oberon"
    <3>1. AgreesSince(u, sym[u].time)
      BY <1>1, <1>3 DEF MadeFrom, SymMade
    <3>2. QED
      BY <1>1, <1>3, <2>2, <3>1 DEF AgreesSince
  <2>3. QED
    BY <2>1, <2>2
<1>4. ASSUME u \in Defs, NEW m \in Uses[u] PROVE sym[m] # None /\ sym[u].uses[m] = Stamp(sym[m])
  <2>1. m \in Loaded[u]
    BY <1>4, UsesAreLoaded
  <2>2. m \in Defs /\ sym[m] # None
    BY <2>1, LoadedClosed DEF FreshSym
  <2>3. CASE m \in Imports[u]
    <3>1. Agrees(u, m)
      BY <1>3, <1>4, <2>3
    <3>2. QED
      BY <1>4, <2>2, <3>1 DEF Agrees
  <2>4. ASSUME NEW q \in Imports[u], m \in Uses[q] PROVE sym[u].uses[m] = Stamp(sym[m])
    <3>1. Agrees(u, q)
      BY <1>3, <1>4
    <3>2. sym[u].uses[m] = sym[q].uses[m] \/ sym[q].uses[m].iface < sym[u].uses[m].iface
      BY <1>4, <2>4, <3>1 DEF Agrees
    <3>3. q \in Loaded[u] /\ q \in Defs
      BY LoadedClosed
    <3>4. sym[q].uses[m] = Stamp(sym[m])
      BY <2>4, <3>3 DEF FreshSym
    <3>5. sym[u].uses[m].iface <= sym[m].iface /\ sym[u].uses[m].iface \in Nat /\ sym[m].iface \in Nat
      BY <1>1, <1>4, <2>2, UseStamps DEF InterfaceInv
    <3>6. sym[q].uses[m].iface = sym[m].iface
      BY <3>4 DEF Stamp
    <3>7. QED
      BY <3>2, <3>4, <3>5, <3>6
  <2>5. QED
    BY <1>4, <2>2, <2>3, <2>4, UnitsAreModules
<1>5. ASSUME u \in Defs PROVE FreshSym(u)
  BY <1>1, <1>3, <1>4, <1>5 DEF FreshSym
<1>6. ASSUME u \in Imps PROVE FreshCode(u)
  <2>1. CodeMade(u)
    BY <1>1, <1>6 DEF MadeFrom
  <2>2. code[u].body = src[u].body /\ code[u].iface = src[u].iface
    BY <1>1, <1>6, <2>1 DEF CodeMade
  <2>3. \A m \in Imports[u] : code[u].seen[m] = Stamp(sym[m])
    BY <1>1, <1>6, <2>1 DEF CodeMade
  <2>4. QED
    BY <1>1, <1>6, <2>2, <2>3 DEF FreshCode
<1>7. QED
  BY <1>5, <1>6 DEF Fresh

LEMMA MakeInit == Init => MarksInv /\ MakeInv /\ CleanInv
BY DEF Init, MarksInv, MakeInv, CleanInv

\* How the loop of a make goes on: the unit is marked, is done, or is gone on with.
MarksOn(c) ==
  /\ job = "make" /\ pos <= Len(plan) /\ plan' = plan
  /\ \/ Advance /\ failed' = failed \cup {c} /\ errs' = errs + 1
     \/ Advance /\ failed' = failed /\ errs' = errs /\ ~Doubtful(c)
     \/ pos' = pos /\ failed' = failed /\ errs' = errs /\ ~Doubtful(c)

LEMMA MakeMoves ==
  ASSUME TypeInv, JobInv, CompileInv, MarksInv, job' = "make", Work
  PROVE  MarksOn(cur)
<1>1. ~Finish
  BY DEF Finish
<1>2. job = "make" /\ pos <= Len(plan) /\ plan' = plan
  BY <1>1, JobMoves
<1>3. step # "decide" => ~Doubtful(cur)
  BY <1>2 DEF MarksInv
<1>4. ASSUME NEW f, Fail(f) PROVE MarksOn(cur)
  <2>1. Advance /\ failed' = failed \cup {cur} /\ errs' = errs + 1
    BY <1>2, <1>4, FailMoves
  <2>2. QED
    BY <1>2, <2>1 DEF MarksOn
<1>5. CASE Invalidate
  BY <1>2, <1>5 DEF Invalidate, MarksOn
<1>6. CASE Skip
  BY <1>2, <1>6 DEF Skip, MarksOn
<1>7. CASE Take
  BY <1>2, <1>7 DEF Take, MarksOn
<1>8. CASE Compile
  <2>1. ~Doubtful(cur)
    BY <1>3, <1>8, CompileMoves
  <2>2. (\E f : Fail(f)) \/ (pos' = pos /\ failed' = failed /\ errs' = errs)
    BY <1>8, CompileMoves
  <2>3. QED
    BY <1>2, <1>4, <2>1, <2>2 DEF MarksOn
<1>9. CASE WriteSym
  <2>1. ~Doubtful(cur)
    BY <1>3, <1>9, WriteSymMoves
  <2>2. Fail({193}) \/ (SymDone /\ failed' = failed /\ errs' = errs)
    BY <1>9, WriteSymMoves
  <2>3. SymDone => Advance \/ pos' = pos
    BY DEF SymDone
  <2>4. QED
    BY <1>2, <1>4, <2>1, <2>2, <2>3 DEF MarksOn
<1>10. CASE WriteCode
  <2>1. ~Doubtful(cur)
    BY <1>3, <1>10, WriteCodeMoves
  <2>2. Fail({}) \/ (Advance /\ failed' = failed /\ errs' = errs)
    BY <1>10, WriteCodeMoves
  <2>3. QED
    BY <1>2, <1>4, <2>1, <2>2 DEF MarksOn
<1>11. QED
  BY <1>1, <1>5, <1>6, <1>7, <1>8, <1>9, <1>10 DEF Work

LEMMA MarksOnKeeps ==
  ASSUME TypeInv, JobInv, MarksInv, MarksOn(cur)
  PROVE  MarksInv'
<1>1. job = "make" /\ pos <= Len(plan) /\ plan' = plan
  BY DEF MarksOn
<1>2. CASE Advance /\ (\/ failed' = failed \cup {cur} /\ errs' = errs + 1
                       \/ failed' = failed /\ errs' = errs /\ ~Doubtful(cur))
  <2>1. Passed' = Passed \cup {cur} /\ step' = "decide"
    BY <1>1, <1>2, AdvanceMoves, PassedGrows
  <2>2. failed \subseteq Passed /\ (failed # {} => errs # 0) /\ errs \in Nat
    BY <1>1, Bounds DEF MarksInv
  <2>3. failed' \subseteq Passed' /\ (failed' # {} => errs' # 0)
    BY <1>2, <2>1, <2>2
  <2>4. ASSUME NEW v \in Passed', Loaded[v] \cap failed' # {} PROVE v \in failed'
    <3>1. CASE v \in Passed
      <4>1. cur \notin Loaded[v]
        BY <1>1, <3>1, MakePasses
      <4>2. Loaded[v] \cap failed # {}
        BY <1>2, <2>4, <4>1
      <4>3. v \in failed
        BY <1>1, <3>1, <4>2 DEF MarksInv
      <4>4. QED
        BY <1>2, <4>3
    <3>2. CASE v = cur
      <4>1. CASE failed' = failed /\ ~Doubtful(cur)
        BY <1>1, <2>4, <3>2, <4>1, ClientsWaited
      <4>2. QED
        BY <1>2, <3>2, <4>1
    <3>3. QED
      BY <2>1, <3>1, <3>2
  <2>5. QED
    BY <2>1, <2>3, <2>4 DEF MarksInv
<1>3. CASE pos' = pos /\ failed' = failed /\ errs' = errs /\ ~Doubtful(cur)
  <2>1. Passed' = Passed /\ cur' = cur
    BY <1>1, <1>3 DEF Passed, cur
  <2>2. ~Doubtful(cur)'
    BY <1>3, <2>1 DEF Doubtful
  <2>3. QED
    BY <1>1, <1>3, <2>1, <2>2 DEF MarksInv
<1>4. QED
  BY <1>2, <1>3 DEF MarksOn

LEMMA MarksStep ==
  ASSUME TypeInv, JobInv, CompileInv, MarksInv, Next
  PROVE  MarksInv'
<1> SUFFICES ASSUME job' = "make" PROVE MarksInv'
  BY DEF MarksInv
<1>1. CASE \E j, a, p : Starts(j, a, p)
  <2>1. pos' = 1 /\ step' = "decide" /\ failed' = {}
    BY <1>1, StartsWith, BeginMoves DEF Starts
  <2>2. Passed' = {}
    BY <2>1 DEF Passed
  <2>3. QED
    BY <2>1, <2>2 DEF MarksInv
<1>2. CASE Kill
  BY <1>2 DEF Kill
<1>3. CASE \/ \E u \in Unit : \E part \in {"body", "iface"} : Edit(u, part)
           \/ \E u \in Defs : RemoveSym(u)
           \/ \E u \in Imps : RemoveCode(u)
  BY <1>3 DEF Edit, RemoveSym, RemoveCode, run, Idle
<1>4. CASE Work
  BY <1>4, MakeMoves, MarksOnKeeps
<1>5. QED
  BY <1>1, <1>2, <1>3, <1>4, Cases DEF Next, Work

\* What is passed stays right in a step of a make that writes no file but those of cur.
PassedStay ==
  /\ options' = options /\ src' = src /\ (Sure' => Sure)
  /\ \A v \in Defs : v # cur => sym'[v] = sym[v]
  /\ \A v \in Imps : v # cur => code'[v] = code[v]

\* The faults that a make may report, and what it has loaded.
NoneWrong ==
  /\ Sure' => LoadedRight'
  /\ 425 \notin faults'
  /\ 192 \in faults' => ~Sure'

LEMMA MakeKeeps ==
  ASSUME TypeInv, JobInv, MakeInv, job = "make", pos <= Len(plan), PassedStay
  PROVE  \A v \in Passed \ failed : Right(v)'
<1> SUFFICES ASSUME NEW v \in Passed \ failed PROVE Right(v)'
  OBVIOUS
<1>1. v \in Unit /\ v # cur /\ cur \notin Loaded[v] /\ Right(v)
  BY MakePasses DEF MakeInv
<1>2. \A m \in Loaded[v] : m \in Defs /\ m # cur
  BY <1>1, LoadedClosed
<1>3. \A m \in Loaded[v] : sym'[m] = sym[m]
  BY <1>2 DEF PassedStay
<1>4. /\ v \in Defs => sym'[v] = sym[v]
      /\ v \in Imps => code'[v] = code[v]
      /\ options' = options /\ src' = src /\ (Sure' => Sure)
  BY <1>1 DEF PassedStay
<1>5. QED
  BY <1>1, <1>3, <1>4, RightStays

\* The unit is marked or gone on with; it becomes right; or it is passed and right.
LEMMA MakeKeepsOn ==
  ASSUME TypeInv, JobInv, MakeInv, PassedStay, MarksOn(cur), NoneWrong,
         \/ Advance /\ failed' = failed \cup {cur}
         \/ pos' = pos /\ failed' = failed
         \/ Advance /\ failed' = failed /\ \E c : c = cur /\ Right(c)'
  PROVE  MakeInv'
<1>1. job = "make" /\ pos <= Len(plan) /\ plan' = plan
  BY DEF MarksOn
<1>2. \A v \in Passed \ failed : Right(v)'
  BY <1>1, MakeKeeps
<1>3. Advance => Passed' = Passed \cup {cur}
  BY <1>1, AdvanceMoves, PassedGrows
<1>4. pos' = pos => Passed' = Passed
  BY <1>1 DEF Passed
<1>5. \A v \in Passed' \ failed' : Right(v)'
  <2>1. CASE Advance /\ failed' = failed \cup {cur}
    BY <1>2, <1>3, <2>1
  <2>2. CASE pos' = pos /\ failed' = failed
    BY <1>2, <1>4, <2>2
  <2>3. ASSUME Advance, failed' = failed, NEW c, c = cur, Right(c)'
        PROVE  \A v \in Passed' \ failed' : Right(v)'
    BY <1>2, <1>3, <2>3
  <2>4. QED
    BY <2>1, <2>2, <2>3
<1>6. QED
  BY <1>5 DEF MakeInv, NoneWrong

\* A file that was just written is not older than anything.
LEMMA NotLater ==
  ASSUME TypeInv', DatesInv', NEW u \in Unit, NEW t, t = clock'
  PROVE  ~Later(u, t)'
<1>1. clock' \in Nat /\ src'[u].time \in Nat /\ src'[u].time <= clock'
  BY DEF TypeInv, DatesInv
<1>2. ASSUME NEW m \in Imports[u], sym'[m] # None PROVE sym'[m].time \in Nat /\ sym'[m].time <= clock'
  <2>1. m \in Defs
    BY UnitsAreModules
  <2>2. QED
    BY <1>2, <2>1 DEF TypeInv, SymFile, DatesInv
<1>3. QED
  BY <1>1, <1>2 DEF Later

\* A definition after WriteSym.
LEMMA MakeSymDone ==
  ASSUME TypeInv, TypeInv', JobInv, DatesInv', CompileInv, WriteSym, ~Fail({193}), options' = options,
         NEW u \in Unit, u = cur, u \notin Imps, Sure' => LoadedRight
  PROVE  Right(u)'
<1>1. /\ u \in Defs /\ src' = src /\ \A v \in Defs : v # u => sym'[v] = sym[v]
      /\ sym'[u] # None /\ sym'[u].iface = src[u].iface
      /\ LoadedRight => \A m \in Uses[u] : sym'[u].uses[m] = Stamp(sym[m])
      /\ ~MissingSym(u)
  BY SymAfter
<1>2. Sure' => FreshSym(u)'
  BY <1>1, SymIsFresh
<1>3. Mode[u] = "def"
  BY <1>1 DEF Imps
<1>4. Settled(u)'
  <2>1. SUFFICES ASSUME ~options.m2cmpsym PROVE ~OutOfDate(u)'
    BY <1>3 DEF Settled
  <2>2. ~Compared(u)
    BY <1>3, <2>1 DEF Compared
  <2>3. ~MissingSym(u)'
    BY <1>1, LoadedStays
  <2>4. \A m \in Imports[u] : sym'[m] # None
    BY <2>3, LoadedClosed DEF MissingSym
  <2>5. sym' = [sym EXCEPT ![u] = NewSym(u, clock')]
    BY <1>1, <2>2, WriteSymMoves
  <2>6. sym'[u].time = clock'
    BY <1>1, <2>5 DEF TypeInv, NewSym
  <2>7. ~Later(u, sym[u].time)'
    <3>1. PICK t : t = clock'
      OBVIOUS
    <3>2. ~Later(u, t)'
      BY <3>1, NotLater
    <3>3. QED
      BY <2>6, <3>1, <3>2
  <2>8. QED
    BY <1>1, <1>3, <2>4, <2>7 DEF OutOfDate, TooOld
<1>5. QED
  BY <1>1, <1>2, <1>4 DEF Right, Fresh

\* Any other unit after WriteCode.
LEMMA MakeCodeDone ==
  ASSUME TypeInv, TypeInv', JobInv, DatesInv', CompileInv, CodeWritten, options' = options,
         NEW u \in Unit, u = cur, Sure' => LoadedRight
  PROVE  Right(u)'
<1>1. /\ step = "code" /\ u \in Imps /\ code'[u] # None /\ code'[u].time = clock'
      /\ code'[u].body = src[u].body /\ code'[u].iface = src[u].iface
      /\ LoadedRight => \A m \in Imports[u] : code'[u].seen[m] = Stamp(sym[m])
      /\ src' = src /\ sym' = sym /\ ~MissingSym(u)
  BY CodeWrittenIs
<1>2. u \in Defs => sym'[u] # None /\ (LoadedRight => FreshSym(u)')
  BY <1>1 DEF CompileInv, LoadedRight, FreshSym, Stamp
<1>3. \A m \in Imports[u] : sym'[m] # None
  BY <1>1, LoadedClosed DEF MissingSym
<1>4. LoadedRight => FreshCode(u)'
  BY <1>1, <1>3 DEF FreshCode, Stamp
<1>5. ~Later(u, code[u].time)'
  <2>1. PICK t : t = clock'
    OBVIOUS
  <2>2. ~Later(u, t)'
    BY <2>1, NotLater
  <2>3. QED
    BY <1>1, <2>1, <2>2
<1>6. u \in Defs => Mode[u] = "oberon"
  BY <1>1 DEF Defs, Imps
<1>7. ~OutOfDate(u)'
  BY <1>1, <1>2, <1>3, <1>5, <1>6 DEF OutOfDate, TooOld
<1>8. Sure' => Fresh(u)'
  BY <1>2, <1>4 DEF Fresh
<1>9. QED
  BY <1>2, <1>7, <1>8 DEF Right, Settled

\* Within a job no history is forgotten.
LEMMA SureBefore ==
  ASSUME TypeInv, JobInv, CompileInv, Next, Work, ~Finish, Sure'
  PROVE  Sure
<1>1. all' = all
  BY JobMoves
<1>2. ~mixed' => ~mixed
  BY MixedMoves
<1>3. QED
  BY <1>1, <1>2 DEF Sure

LEMMA MakeStep ==
  ASSUME TypeInv, TypeInv', JobInv, DatesInv', InterfaceInv, ~mixed => MadeFrom, CompileInv, MarksInv, MakeInv, Next
  PROVE  MakeInv'
<1> SUFFICES ASSUME job' = "make" PROVE MakeInv'
  BY DEF MakeInv
<1>1. CASE \E j, a, p : Starts(j, a, p)
  <2>1. pos' = 1 /\ step' = "decide" /\ failed' = {} /\ faults' = {}
    BY <1>1, StartsWith, BeginMoves DEF Starts
  <2>2. Passed' = {}
    BY <2>1 DEF Passed
  <2>3. QED
    BY <2>1, <2>2 DEF MakeInv, LoadedRight
<1>2. CASE Kill
  BY <1>2 DEF Kill
<1>3. CASE \/ \E u \in Unit : \E part \in {"body", "iface"} : Edit(u, part)
           \/ \E u \in Defs : RemoveSym(u)
           \/ \E u \in Imps : RemoveCode(u)
  BY <1>3 DEF Edit, RemoveSym, RemoveCode, run, Idle
<1>4. CASE Work
  <2>1. MarksOn(cur) /\ job = "make" /\ pos <= Len(plan) /\ plan' = plan
    BY <1>4, MakeMoves DEF MarksOn
  <2>2. ~Finish
    BY DEF Finish
  <2>3. src' = src /\ options' = options /\ all' = all /\ (Sure' => Sure)
    BY <1>4, <2>2, JobMoves, SureBefore DEF Next
  <2>4. PICK c \in Unit : c = cur
    BY <2>1, CurrentUnit
  <2>5. disk' = disk => PassedStay
    BY <2>3 DEF disk, PassedStay
  <2>6. step # "decide" => ~Doubtful(cur)
    BY <2>1 DEF MarksInv
  <2>7. 425 \notin faults /\ (192 \in faults => ~Sure) /\ (Sure => LoadedRight)
    BY <2>1 DEF MakeInv
  <2>8. Sure' => LoadedRight'
    <3>1. SUFFICES ASSUME Sure' PROVE LoadedRight'
      OBVIOUS
    <3>2. Compile => Consistent(cur)
      <4>1. Compile => step = "compile"
        BY CompileMoves
      <4>2. QED
        BY <2>1, <2>3, <2>6, <3>1, <4>1, LoadedIsRight
    <3>3. QED
      BY <2>3, <2>7, <3>1, <3>2, LoadedStep
  <2>9. faults' = faults \/ (\E f : faults' = faults \cup f /\ 425 \notin f /\ (192 \in f => ~Sure')) => NoneWrong
    BY <2>3, <2>7, <2>8 DEF NoneWrong
  <2>10. ASSUME NEW f, Fail(f), 425 \notin f, 192 \in f => ~Sure', PassedStay PROVE MakeInv'
    <3>1. Advance /\ failed' = failed \cup {cur} /\ faults' = faults \cup f
      BY <2>1, <2>10, FailMoves
    <3>2. NoneWrong
      BY <2>9, <2>10, <3>1
    <3>3. QED
      BY <2>1, <2>10, <3>1, <3>2, MakeKeepsOn
  <2>11. CASE Invalidate
    <3>1. disk' = disk /\ Advance /\ failed' = failed \cup {cur} /\ faults' = faults
      BY <2>11 DEF Invalidate
    <3>2. QED
      BY <2>1, <2>5, <2>9, <3>1, MakeKeepsOn
  <2>12. CASE Skip
    <3>1. /\ disk' = disk /\ ~Doubtful(cur) /\ ~all /\ ~OutOfDate(c)
          /\ Advance /\ failed' = failed /\ faults' = faults
      BY <2>4, <2>12 DEF Skip
    <3>2. Settled(c) /\ (c \in Defs => sym[c] # None)
      BY <2>4, <3>1, UpToDate DEF Settled
    <3>3. ASSUME Sure PROVE Fresh(c)
      <4>1. \A m \in Loaded[c] : FreshSym(m)
        BY <2>1, <2>4, <3>1, <3>3, LoadedIsRight
      <4>2. MadeFrom
        BY <3>1, <3>3 DEF Sure
      <4>3. QED
        BY <2>4, <3>1, <4>1, <4>2, SkippedIsFresh
    <3>4. Right(c)
      BY <3>2, <3>3 DEF Right
    <3>5. sym' = sym /\ code' = code
      BY <3>1 DEF disk
    <3>6. Right(c)'
      BY <2>3, <2>4, <3>4, <3>5, RightStays
    <3>7. QED
      BY <2>1, <2>4, <2>5, <2>9, <3>1, <3>6, MakeKeepsOn
  <2>13. CASE Take
    <3>1. disk' = disk /\ pos' = pos /\ failed' = failed /\ faults' = faults
      BY <2>1, <2>13 DEF Take
    <3>2. QED
      BY <2>1, <2>5, <2>9, <3>1, MakeKeepsOn
  <2>14. CASE Compile
    <3>1. step = "compile" /\ disk' = disk
      BY <2>14, CompileMoves
    <3>2. ~MissingSym(cur) /\ (Sure' => Stops(cur) = {})
      BY <2>1, <2>3, <2>6, <3>1, LoadedIsRight
    <3>3. CASE Fail({}) \/ (Fail({192}) /\ Stops(cur) # {})
      BY <2>5, <2>10, <3>1, <3>2, <3>3
    <3>4. CASE pos' = pos /\ failed' = failed /\ faults' = faults
      BY <2>1, <2>5, <2>9, <3>1, <3>4, MakeKeepsOn
    <3>5. QED
      BY <2>14, <3>2, <3>3, <3>4, CompileMoves
  <2>15. CASE WriteSym
    <3>1. code' = code
      BY <2>15, WriteSymMoves
    <3>2. CASE Fail({193})
      <4>1. \A v \in Defs : v # cur => sym'[v] = sym[v]
        BY <2>15, WriteSymMoves DEF TypeInv
      <4>2. PassedStay
        BY <2>3, <3>1, <4>1 DEF PassedStay
      <4>3. QED
        BY <2>10, <3>2, <4>2
    <3>3. CASE ~Fail({193})
      <4>1. /\ c \in Defs /\ \A v \in Defs : v # c => sym'[v] = sym[v]
            /\ SymDone /\ failed' = failed /\ faults' = faults
        BY <2>4, <2>15, <3>3, SymAfter
      <4>2. PassedStay
        BY <2>3, <2>4, <3>1, <4>1 DEF PassedStay
      <4>3. CASE c \in Imps
        <5>1. pos' = pos
          BY <2>4, <4>1, <4>3 DEF SymDone
        <5>2. QED
          BY <2>1, <2>9, <4>1, <4>2, <5>1, MakeKeepsOn
      <4>4. CASE c \notin Imps
        <5>1. Advance
          BY <2>4, <4>1, <4>4 DEF SymDone
        <5>2. Right(c)'
          BY <2>3, <2>4, <2>7, <2>15, <3>3, <4>4, MakeSymDone
        <5>3. QED
          BY <2>1, <2>4, <2>9, <4>1, <4>2, <5>1, <5>2, MakeKeepsOn
      <4>5. QED
        BY <4>3, <4>4
    <3>4. QED
      BY <3>2, <3>3
  <2>16. CASE WriteCode
    <3>1. sym' = sym
      BY <2>16, WriteCodeMoves
    <3>2. \A v \in Imps : v # cur => code'[v] = code[v]
      BY <2>16, WriteCodeMoves DEF TypeInv
    <3>3. PassedStay
      BY <2>3, <3>1, <3>2 DEF PassedStay
    <3>4. CASE Fail({})
      BY <2>10, <3>3, <3>4
    <3>5. CASE code' = [code EXCEPT ![cur] = NewCode(cur, clock')] /\ Advance /\ failed' = failed /\ faults' = faults
      <4>1. CodeWritten
        BY <2>16, <3>5, WriteCodeMoves DEF CodeWritten
      <4>2. Right(c)'
        BY <2>3, <2>4, <2>7, <4>1, MakeCodeDone
      <4>3. QED
        BY <2>1, <2>4, <2>9, <3>3, <3>5, <4>2, MakeKeepsOn
    <3>6. QED
      BY <2>16, <3>4, <3>5, WriteCodeMoves
  <2>17. QED
    BY <1>4, <2>2, <2>11, <2>12, <2>13, <2>14, <2>15, <2>16 DEF Work
<1>5. QED
  BY <1>1, <1>2, <1>3, <1>4, Cases DEF Next, Work

\* Where a make ends without errors all units are right.
LEMMA AllRight ==
  ASSUME TypeInv, JobInv, MarksInv, MakeInv, job = "make", Finish, clean' = "make"
  PROVE  \A u \in Unit : Right(u)
<1>1. pos > Len(plan) /\ errs = 0
  BY Bounds DEF Finish
<1>2. plan = Order /\ failed = {} /\ pos = Len(Order) + 1
  BY <1>1, Bounds DEF JobInv, MarksInv
<1>3. ASSUME NEW u \in Unit PROVE Right(u)
  <2>1. PICK i \in 1..Len(Order) : Order[i] = u
    BY Placed
  <2>2. i \in 1..pos - 1
    BY <1>2
  <2>3. u \in Passed \ failed
    BY <1>2, <2>1, <2>2 DEF Passed
  <2>4. QED
    BY <2>3 DEF MakeInv
<1>4. QED
  BY <1>3

LEMMA CleanStep ==
  ASSUME TypeInv, JobInv, CompileInv, MarksInv, MakeInv, CleanInv, Next
  PROVE  CleanInv'
<1> SUFFICES ASSUME clean' = "make" PROVE \A u \in Unit : Settled(u)' /\ (~mixed' => Fresh(u)')
  BY DEF CleanInv
<1>1. CASE \E j, a, p : Starts(j, a, p)
  BY <1>1, StartsWith, BeginMoves DEF Starts
<1>2. CASE \/ \E u \in Unit : \E part \in {"body", "iface"} : Edit(u, part)
           \/ \E u \in Defs : RemoveSym(u)
           \/ \E u \in Imps : RemoveCode(u)
  BY <1>2 DEF Edit, RemoveSym, RemoveCode
<1>3. CASE Kill
  BY <1>3 DEF Kill, JobInv
<1>4. CASE Work /\ ~Finish
  BY <1>4, JobMoves
<1>5. CASE Finish
  <2>1. job = "make" /\ src' = src /\ sym' = sym /\ code' = code /\ options' = options
    BY <1>5, Bounds DEF Finish, Idle, disk, Next
  <2>2. ~mixed' => Sure
    BY MixedMoves DEF Sure
  <2>3. ASSUME NEW u \in Unit PROVE Settled(u)' /\ (~mixed' => Fresh(u)')
    <3>1. Right(u)
      BY <1>5, <2>1, AllRight
    <3>2. QED
      BY <2>1, <2>2, <3>1, RightStays DEF Right
  <2>4. QED
    BY <2>3
<1>6. QED
  BY <1>1, <1>2, <1>3, <1>4, <1>5, Cases DEF Next, Work

\* Where everything is fresh dates say nothing wrong.
LEMMA FreshMade ==
  ASSUME \A u \in Unit : Fresh(u)
  PROVE  MadeFrom
<1>1. ASSUME NEW u \in Unit, u \in Defs, NEW t PROVE AgreesSince(u, t)
  <2>1. FreshSym(u)
    BY <1>1 DEF Fresh
  <2>2. ASSUME NEW q \in Imports[u] PROVE Agrees(u, q)
    <3>1. q \in Defs /\ q \in Unit
      BY <2>2, UnitsAreModules DEF Defs
    <3>2. FreshSym(q)
      BY <3>1 DEF Fresh
    <3>3. QED
      BY <2>1, <3>2 DEF Agrees, FreshSym
  <2>3. QED
    BY <2>1, <2>2 DEF AgreesSince, FreshSym
<1>2. ASSUME NEW u \in Defs PROVE SymMade(u)
  BY <1>1 DEF SymMade, Defs
<1>3. ASSUME NEW u \in Imps PROVE CodeMade(u)
  <2>1. u \in Unit /\ FreshCode(u)
    BY <1>3 DEF Fresh, Imps
  <2>2. QED
    BY <1>1, <2>1 DEF CodeMade, FreshCode
<1>4. QED
  BY <1>2, <1>3 DEF MadeFrom

\* Until something is mixed, and again when everything was made anew.
LEMMA MadeStep ==
  ASSUME FlowInv, TypeInv', DatesInv, ~mixed => MadeFrom, MakeInv, Ties = FALSE, Next, ~mixed'
  PROVE  MadeFrom'
<1>1. CASE ~mixed
  BY <1>1, MadeFromStep DEF FlowInv
<1>2. CASE mixed
  <2>1. Finish /\ job = "make" /\ all /\ clean' = "make"
    BY <1>2, MixedMoves DEF FlowInv
  <2>2. \A u \in Unit : Right(u)
    BY <2>1, AllRight DEF FlowInv
  <2>3. MadeFrom
    BY <2>1, <2>2, FreshMade DEF Right, Sure
  <2>4. src' = src /\ sym' = sym /\ code' = code
    BY <2>1 DEF Finish, disk
  <2>5. QED
    BY <2>3, <2>4, MadeFromRests
<1>3. QED
  BY <1>1, <1>2

-----------------------------------------------------------------------------
(* Theorems *)

LEMMA FlowStep == FlowInv /\ [Next]_vars => FlowInv'
<1>1. ASSUME FlowInv, Next PROVE FlowInv'
  <2>1. TypeInv'
    BY <1>1, TypeStep DEF FlowInv
  <2>2. JobInv'
    BY <1>1, JobStep DEF FlowInv
  <2>3. InterfaceInv'
    BY <1>1, InterfaceStep DEF FlowInv
  <2>4. CompileInv'
    BY <1>1, CompileStep DEF FlowInv
  <2>5. MarksInv'
    BY <1>1, MarksStep DEF FlowInv
  <2>6. QED
    BY <2>1, <2>2, <2>3, <2>4, <2>5 DEF FlowInv
<1>2. ASSUME FlowInv, UNCHANGED vars PROVE FlowInv'
  <2>1. UNCHANGED <<options, src, sym, code, clock, vers, job, all, plan, pos, step, failed, faults, errs, events, batch, clean, mixed>>
    BY <1>2 DEF vars, disk, run
  <2>2. TypeInv'
    BY <1>2, <2>1 DEF FlowInv, TypeInv
  <2>3. JobInv'
    BY <1>2, <2>1 DEF FlowInv, JobInv, Passed, Idle
  <2>4. InterfaceInv'
    BY <1>2, <2>1 DEF FlowInv, InterfaceInv
  <2>5. CompileInv'
    <3>1. ~mixed' => LoadedRight'
      BY <1>2, <2>1, LoadedRests DEF FlowInv, CompileInv
    <3>2. QED
      BY <1>2, <2>1, <3>1 DEF FlowInv, CompileInv, MissingSym, cur
  <2>6. MarksInv'
    BY <1>2, <2>1 DEF FlowInv, MarksInv, Passed, Doubtful, cur
  <2>7. QED
    BY <2>2, <2>3, <2>4, <2>5, <2>6 DEF FlowInv
<1>3. QED
  BY <1>1, <1>2

\* Whatever the dates: types, the job's place in its plan, the interfaces that
\* symbol files hold, what a compilation has loaded, and the marks of a make.
THEOREM FlowIsRight == Spec => []FlowInv
<1>1. Init => FlowInv
  <2>1. Init => CompileInv
    BY DEF Init, CompileInv, LoadedRight
  <2>2. QED
    BY <2>1, TypeInit, JobInit, InterfaceInit, MakeInit DEF FlowInv
<1>2. QED
  BY <1>1, FlowStep, PTL DEF Spec

\* xcMake compiles no client of a module with a known error, not even a client
\* of its clients.
THEOREM ClientsAlwaysWait == Spec => []ClientsWait
<1>1. FlowInv => ClientsWait
  <2>1. SUFFICES ASSUME FlowInv, job = "make", step # "decide" PROVE Loaded[cur] \cap failed = {}
    BY DEF ClientsWait
  <2>2. QED
    BY <2>1, ClientsWaited DEF FlowInv, MarksInv, JobInv
<1>2. QED
  BY <1>1, FlowIsRight, PTL

\* Without CHANGESYM the compiler does not let an Oberon-2 module's interface
\* change: error 193 is reported and the symbol file stays as it was.
THEOREM InterfaceIsKept == Spec => InterfaceKept
<1> DEFINE Kept == \A u \in Defs : ~options.changesym /\ Mode[u] = "oberon" /\ sym[u] # None /\ sym'[u] # None
                                   => SameSym(sym[u], sym'[u]) /\ sym[u].key = sym'[u].key
<1>1. ASSUME FlowInv, [Next]_vars PROVE Kept
  <2>1. SUFFICES ASSUME NEW u \in Defs, ~options.changesym, Mode[u] = "oberon", sym[u] # None, sym'[u] # None
                 PROVE  sym'[u] = sym[u]
    BY DEF SameSym
  <2>2. CASE sym' = sym
    BY <2>2
  <2>3. ASSUME NEW v \in Defs, RemoveSym(v) PROVE sym'[u] = sym[u]
    BY <1>1, <2>1, <2>3 DEF RemoveSym, FlowInv, TypeInv
  <2>4. CASE WriteSym
    <3>1. cur = u => Compared(cur)
      BY <2>1 DEF Compared
    <3>2. CASE cur = u
      BY <2>1, <2>4, <3>1, <3>2 DEF WriteSym
    <3>3. CASE cur # u
      BY <1>1, <2>4, <3>3, WriteSymMoves DEF FlowInv, TypeInv
    <3>4. QED
      BY <3>2, <3>3
  <2>5. sym' = sym \/ WriteSym \/ \E v \in Defs : RemoveSym(v)
    <3>1. CASE UNCHANGED vars
      BY <3>1 DEF vars, disk
    <3>2. CASE Next
      BY <1>1, <3>2, DiskCases, CodeWrittenIs DEF FlowInv, SymWritten, disk, Edit, RemoveCode
    <3>3. QED
      BY <1>1, <3>1, <3>2
  <2>6. QED
    BY <2>2, <2>3, <2>4, <2>5
<1>2. FlowInv /\ [Next]_vars => [Kept]_vars
  BY <1>1
<1>3. QED
  BY <1>2, FlowIsRight, PTL DEF Spec, InterfaceKept

LEMMA InvStep ==
  ASSUME Ties = FALSE
  PROVE  Inv /\ [Next]_vars => Inv'
<1>1. ASSUME Inv, Next PROVE Inv'
  <2>1. FlowInv'
    BY <1>1, FlowStep DEF Inv
  <2>2. DatesInv'
    BY <1>1, DatesStep DEF Inv, FlowInv
  <2>3. ~mixed' => MadeFrom'
    BY <1>1, <2>1, MadeStep DEF Inv, FlowInv
  <2>4. MakeInv'
    BY <1>1, <2>1, <2>2, MakeStep DEF Inv, FlowInv
  <2>5. CleanInv'
    BY <1>1, CleanStep DEF Inv, FlowInv
  <2>6. QED
    BY <2>1, <2>2, <2>3, <2>4, <2>5 DEF Inv
<1>2. ASSUME Inv, UNCHANGED vars PROVE Inv'
  <2>1. UNCHANGED <<options, src, sym, code, clock, job, all, plan, pos, step, failed, faults, clean, mixed>>
    BY <1>2 DEF vars, disk, run
  <2>2. FlowInv'
    BY <1>2, FlowStep DEF Inv
  <2>3. DatesInv'
    BY <1>2, <2>1 DEF Inv, DatesInv, Idle, SymPassed, Passed, cur
  <2>4. ~mixed' => MadeFrom'
    BY <1>2, <2>1, MadeFromRests DEF Inv
  <2>5. Sure' <=> Sure
    BY <2>1 DEF Sure
  <2>6. ASSUME NEW u \in Unit
        PROVE  (Settled(u) => Settled(u)') /\ (Fresh(u) => Fresh(u)') /\ (Right(u) => Right(u)')
    BY <2>1, <2>5, RightStays
  <2>7. Passed' = Passed
    BY <2>1 DEF Passed
  <2>8. job = "make" => \A u \in Passed \ failed : u \in Unit /\ Right(u)
    <3>1. plan \in Seq(Unit) /\ pos \in 1..Len(plan) + 1
      BY <1>2 DEF Inv, FlowInv, TypeInv
    <3>2. \A i \in 1..pos - 1 : plan[i] \in Unit
      <4>1. PICK n \in Nat : n = Len(plan)
        BY <3>1
      <4>2. \A i \in 1..pos - 1 : i \in 1..n
        BY <3>1, <4>1
      <4>3. QED
        BY <3>1, <4>1, <4>2
    <3>3. \A u \in Passed : u \in Unit
      BY <3>2 DEF Passed
    <3>4. QED
      BY <1>2, <3>3 DEF Inv, MakeInv
  <2>9. LoadedRight => LoadedRight'
    BY <2>1, LoadedRests
  <2>10. MakeInv'
    BY <1>2, <2>1, <2>5, <2>6, <2>7, <2>8, <2>9 DEF Inv, MakeInv
  <2>11. CleanInv'
    BY <1>2, <2>1, <2>6 DEF Inv, CleanInv
  <2>12. QED
    BY <2>2, <2>3, <2>4, <2>10, <2>11 DEF Inv
<1>3. QED
  BY <1>1, <1>2

\* As long as no two events fall into one tick of the file dates, an output that
\* is not older than an input was made from it, until a compilation mixes old
\* interfaces with new ones, and again when everything has been made after that.
THEOREM DatesTell ==
  ASSUME Ties = FALSE
  PROVE  Spec => []Inv
<1>1. Init => Inv
  <2>1. Init => FlowInv
    <3>1. Init => CompileInv
      BY DEF Init, CompileInv, LoadedRight
    <3>2. QED
      BY <3>1, TypeInit, JobInit, InterfaceInit, MakeInit DEF FlowInv
  <2>2. QED
    BY <2>1, DatesInit, InterfaceInit, MakeInit DEF Inv
<1>2. Inv /\ [Next]_vars => Inv'
  BY InvStep
<1>3. QED
  BY <1>1, <1>2, PTL DEF Spec

\* After a make without errors everything is made from the present sources,
\* whatever was edited, removed, compiled alone, killed or failed before, unless
\* a compilation mixed interfaces and not everything has been made since.
THEOREM MakeCompletes ==
  ASSUME Ties = FALSE
  PROVE  Spec => []MakeIsComplete
<1>1. Inv => MakeIsComplete
  BY DEF Inv, CleanInv, MakeIsComplete, AllFresh, Fresh, Defs, Imps
<1>2. QED
  BY <1>1, DatesTell, PTL

\* A make right after it compiles nothing but definitions whose symbol files
\* M2CMPSYM keeps.
THEOREM DatesSettle ==
  ASSUME Ties = FALSE
  PROVE  Spec => []MakeSettles
<1>1. Inv => MakeSettles
  BY DEF Inv, CleanInv, MakeSettles, Settled
<1>2. QED
  BY <1>1, DatesTell, PTL

\* A make never lacks a symbol file.  As long as no single compilation has mixed
\* interfaces, and always in the submode ALL, it meets no two keys of a module
\* and mixes nothing itself.
THEOREM ImportsNeverFail ==
  ASSUME Ties = FALSE
  PROVE  Spec => []NoImportFault
<1>1. Inv => NoImportFault
  <2>1. SUFFICES ASSUME Inv, job = "make"
                 PROVE  /\ 425 \notin faults
                        /\ 192 \in faults => mixed /\ ~all
                        /\ step = "compile" /\ Mixed(cur) => mixed /\ ~all
    BY DEF NoImportFault
  <2>2. 425 \notin faults /\ (192 \in faults => ~Sure)
    BY <2>1 DEF Inv, MakeInv
  <2>3. ASSUME step = "compile", Mixed(cur) PROVE ~Sure
    <3>1. pos <= Len(plan) /\ ~Doubtful(cur)
      BY <2>1, <2>3 DEF Inv, FlowInv, JobInv, MarksInv
    <3>2. QED
      BY <2>1, <2>3, <3>1, LoadedIsRight DEF Inv, FlowInv
  <2>4. QED
    BY <2>2, <2>3 DEF Sure
<1>2. QED
  BY <1>1, DatesTell, PTL
=============================================================================
