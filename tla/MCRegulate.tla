----------------------------- MODULE MCRegulate -----------------------------
(***************************************************************************)
(* Disks for the ordering of a project.                                    *)
(***************************************************************************)
EXTENDS Regulate
CONSTANTS a, b, c

Heading(n, prog, good, is) == [module |-> n, program |-> prog, ok |-> good, imports |-> is]
Lists(S) == {<<>>} \cup {<<n>> : n \in S} \cup {<<n, m>> : n, m \in S}

\* Graphs: three modules, each a definition or an Oberon-2 module, with every
\* choice of import lists over the two others; a also has an implementation.
Simple(n) == {l \in Lists(Names \ {n}) : IsInjective(l)}
Kind == {[n \in Names |-> IF n \in S THEN "ob2" ELSE "def"] : S \in {{a}, {b, c}, Names}}
Graph(k, is) ==
  [s \in Source |->
     CASE s.ext = k[s.name]        -> Heading(s.name, FALSE, TRUE, is[s.name])
       [] s = At(a, "mod") /\ k[a] = "def" -> Heading(a, FALSE, TRUE, <<c>>)
       [] OTHER                    -> None]
Graphs3 == {Graph(k, a :> x @@ b :> y @@ c :> z) :
              k \in Kind, x \in Simple(a), y \in Simple(b), z \in Simple(c)}

\* Files: two names, each with any of the three sources.  The heading of a .mod
\* may be a program's, another module's, or wrong, and imports may be repeated
\* or name the module itself.
Plain(n) == {None, Heading(n, FALSE, TRUE, IF n = a THEN <<b>> ELSE <<>>)}
Headings(n, other) == {None, Heading(n, TRUE, TRUE, <<a, b>>), Heading(n, FALSE, TRUE, <<b, b>>),
                       Heading(other, FALSE, TRUE, <<>>), Heading(n, FALSE, FALSE, <<>>)}
AnyFiles2 ==
  {[s \in Source |-> CASE s = At(a, "ob2") -> ao [] s = At(a, "def") -> ad
                       [] s = At(a, "mod") -> am [] s = At(b, "ob2") -> bo
                       [] s = At(b, "def") -> bd [] s = At(b, "mod") -> bm
                       [] OTHER -> None] :
     ao \in Plain(a), ad \in Plain(a), am \in Headings(a, b),
     bo \in Plain(b), bd \in Plain(b), bm \in Headings(b, a) \ {Heading(b, FALSE, FALSE, <<>>)}}

GraphsAndFiles == Graphs3 \cup AnyFiles2
=============================================================================
