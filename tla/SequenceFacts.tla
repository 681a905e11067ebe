---------------------------- MODULE SequenceFacts ----------------------------
(***************************************************************************)
(* Facts about finite sequences and least elements that the library's      *)
(* theorem modules do not state and the proofs of several components need. *)
(***************************************************************************)
EXTENDS SequencesExt, SequenceTheorems, FiniteSetTheorems, WellFoundedInduction, TLAPS

\* A nonempty set of naturals has a least element, and Min is one.
LEMMA LeastExists ==
  ASSUME NEW S \in SUBSET Nat, S # {}
  PROVE  Min(S) \in S /\ \A y \in S : Min(S) <= y
<1> DEFINE R == OpToRel(<, Nat)
<1>1. IsWellFoundedOn(R, Nat)
  BY NatLessThanWellFounded
<1>2. \A x, y \in Nat : <<y, x>> \in R <=> y < x
  BY DEF OpToRel
<1> HIDE DEF R
<1>3. PICK x \in S : \A y \in S : ~(<<y, x>> \in R)
  BY <1>1, WFMin
<1>4. ASSUME NEW y \in S PROVE x <= y
  <2>1. x \in Nat /\ y \in Nat
    OBVIOUS
  <2>2. ~(y < x)
    BY <1>2, <1>3, <2>1
  <2>3. QED
    BY <2>1, <2>2
<1>5. QED
  BY <1>4 DEF Min

\* The members of a sequence are what stands at its positions.
LEMMA ToSetMember ==
  ASSUME NEW T, NEW s \in Seq(T), NEW x
  PROVE  x \in ToSet(s) <=> \E i \in 1..Len(s) : s[i] = x
<1>1. DOMAIN s = 1..Len(s)
  OBVIOUS
<1>2. QED
  BY <1>1 DEF ToSet

\* A sequence holds nothing twice exactly when no two positions agree.
LEMMA InjectiveSeq ==
  ASSUME NEW T, NEW s \in Seq(T)
  PROVE  IsInjective(s) <=> \A i, j \in 1..Len(s) : s[i] = s[j] => i = j
<1>1. DOMAIN s = 1..Len(s)
  OBVIOUS
<1>2. QED
  BY <1>1 DEF IsInjective

\* What Append adds is one member, in the last place.
LEMMA AppendShape ==
  ASSUME NEW T, NEW s \in Seq(T), NEW x \in T
  PROVE  /\ Append(s, x) \in Seq(T)
         /\ Len(Append(s, x)) = Len(s) + 1
         /\ \A i \in 1..Len(s) : Append(s, x)[i] = s[i]
         /\ Append(s, x)[Len(s) + 1] = x
         /\ ToSet(Append(s, x)) = ToSet(s) \cup {x}
<1>1. /\ Append(s, x) \in Seq(T)
      /\ Len(Append(s, x)) = Len(s) + 1
      /\ \A i \in 1..Len(s) : Append(s, x)[i] = s[i]
      /\ Append(s, x)[Len(s) + 1] = x
  OBVIOUS
<1>2. ASSUME NEW y PROVE y \in ToSet(Append(s, x)) <=> y \in ToSet(s) \/ y = x
  <2>1. y \in ToSet(Append(s, x))
        <=> \E i \in 1..Len(Append(s, x)) : Append(s, x)[i] = y
    BY <1>1, ToSetMember
  <2>2. y \in ToSet(s) <=> \E i \in 1..Len(s) : s[i] = y
    BY ToSetMember
  <2>3. Len(s) \in Nat
    OBVIOUS
  <2>4. QED
    BY <1>1, <2>1, <2>2, <2>3
<1>3. QED
  BY <1>1, <1>2

\* Front drops the last place.
LEMMA FrontShape ==
  ASSUME NEW T, NEW s \in Seq(T), s # <<>>
  PROVE  /\ Front(s) \in Seq(T)
         /\ Len(Front(s)) = Len(s) - 1
         /\ \A i \in 1..Len(s) - 1 : Front(s)[i] = s[i]
<1>1. Len(s) \in Nat \ {0}
  BY EmptySeq
<1> DEFINE n == Len(s) - 1
<1>2. n \in Int /\ 1 \in Int /\ n >= 0
  BY <1>1
<1>3. \A i \in 1..n : s[i] \in T
  OBVIOUS
<1> HIDE DEF n
<1>4. /\ SubSeq(s, 1, n) \in Seq(T)
      /\ Len(SubSeq(s, 1, n)) = IF 1 <= n THEN n - 1 + 1 ELSE 0
      /\ \A i \in 1..n - 1 + 1 : SubSeq(s, 1, n)[i] = s[1 + i - 1]
  BY <1>2, <1>3, SubSeqProperties
<1>5. /\ Len(SubSeq(s, 1, n)) = n
      /\ \A i \in 1..n : SubSeq(s, 1, n)[i] = s[i]
  BY <1>2, <1>4
<1>6. Front(s) = SubSeq(s, 1, n)
  BY DEF Front, n
<1>7. n = Len(s) - 1
  BY DEF n
<1>8. QED
  BY <1>4, <1>5, <1>6, <1>7

\* The members of a list are finitely many.
LEMMA ListFinite ==
  ASSUME NEW T, NEW l \in Seq(T)
  PROVE  IsFiniteSet(ToSet(l))
<1>1. Len(l) \in Nat /\ DOMAIN l = 1..Len(l) /\ l \in [1..Len(l) -> ToSet(l)]
  BY ToSetMember, LenProperties
<1>2. l \in Surjection(1..Len(l), ToSet(l))
  BY <1>1, ToSetMember DEF Surjection
<1>3. IsFiniteSet(1..Len(l))
  BY <1>1, FS_Interval
<1>4. QED
  BY <1>2, <1>3, FS_Surjection

\* Appending an element that a list does not have.
LEMMA AppendNew ==
  ASSUME NEW T, NEW s \in Seq(T), IsInjective(s), NEW x \in T, x \notin ToSet(s)
  PROVE  IsInjective(Append(s, x)) /\ ToSet(Append(s, x)) = ToSet(s) \cup {x}
<1>1. /\ Append(s, x) \in Seq(T) /\ Len(Append(s, x)) = Len(s) + 1 /\ Len(s) \in Nat
      /\ \A i \in 1..Len(s) : Append(s, x)[i] = s[i]
      /\ Append(s, x)[Len(s) + 1] = x
  BY AppendShape
<1>2. /\ \A i, j \in 1..Len(s) : s[i] = s[j] => i = j
      /\ \A i \in 1..Len(s) : s[i] # x
  BY InjectiveSeq, ToSetMember
<1>3. \A i, j \in 1..Len(s) + 1 : Append(s, x)[i] = Append(s, x)[j] => i = j
  BY <1>1, <1>2
<1>4. IsInjective(Append(s, x))
  BY <1>1, <1>3, InjectiveSeq
<1>5. ASSUME NEW y PROVE y \in ToSet(Append(s, x)) <=> y \in ToSet(s) \cup {x}
  <2>1. y \in ToSet(Append(s, x)) <=> \E i \in 1..Len(s) + 1 : Append(s, x)[i] = y
    <3>1. PICK t : t = Append(s, x)
      OBVIOUS
    <3>2. t \in Seq(T) /\ Len(t) = Len(s) + 1
      BY <1>1, <3>1
    <3>3. y \in ToSet(t) <=> \E i \in 1..Len(t) : t[i] = y
      BY <3>2, ToSetMember
    <3>4. QED
      BY <3>1, <3>2, <3>3
  <2>2. y \in ToSet(s) <=> \E i \in 1..Len(s) : s[i] = y
    BY ToSetMember
  <2>3. QED
    BY <1>1, <2>1, <2>2
<1>6. QED
  BY <1>4, <1>5

\* Induction over the first naturals.
LEMMA UpTo ==
  ASSUME NEW n \in Nat, NEW G, 0 \in G, \A i \in 1..n : i - 1 \in G => i \in G
  PROVE  \A i \in 0..n : i \in G
<1> DEFINE Bad == {i \in 0..n : i \notin G}
<1>1. SUFFICES ASSUME Bad # {} PROVE FALSE
  OBVIOUS
<1>2. PICK m \in Bad : \A i \in Bad : m <= i
  <2>1. Bad \in SUBSET Nat
    OBVIOUS
  <2> HIDE DEF Bad
  <2>2. Min(Bad) \in Bad /\ \A i \in Bad : Min(Bad) <= i
    BY <1>1, <2>1, LeastExists
  <2>3. QED BY <2>2
<1>3. m \in 1..n /\ m - 1 \in 0..n /\ m \notin G
  OBVIOUS
<1>4. m - 1 \notin Bad
  <2>1. m - 1 < m
    BY <1>3
  <2> HIDE DEF Bad
  <2>2. QED BY <1>2, <1>3, <2>1
<1>5. QED BY <1>3, <1>4

\* n steps of F from one member of S lead to another.
StaysIn(F, n, S) == \A i \in 1..n : \A x \in S : F[<<i, x>>] \in S

\* f is what n steps of F make of b.
Recurs(f, F, n, b, S) ==
  f \in [0..n -> S] /\ f[0] = b /\ \A i \in 1..n : f[i] = F[<<i, f[i - 1]>>]

\* A recursion whose steps stay in a set has a solution.
LEMMA Recursion ==
  ASSUME NEW S, NEW b \in S, NEW n \in Nat, NEW F, StaysIn(F, n, S)
  PROVE  \E f : Recurs(f, F, n, b, S)
<1> DEFINE Solves(f, m) == f[0] = b /\ \A i \in 1..m : f[i] = F[<<i, f[i - 1]>>]
           G == {m \in 0..n : \E f \in [0..m -> S] : Solves(f, m)}
<1>1. 0 \in G
  <2>1. PICK f : f = [i \in 0..0 |-> b]
    OBVIOUS
  <2>2. f \in [0..0 -> S] /\ f[0] = b /\ 1..0 = {}
    BY <2>1
  <2>3. QED BY <2>2
<1>2. ASSUME NEW m \in 1..n, m - 1 \in G PROVE m \in G
  <2>1. PICK k \in Nat : m = k + 1 /\ k = m - 1
    OBVIOUS
  <2>2. PICK f \in [0..k -> S] : Solves(f, k)
    BY <1>2, <2>1
  <2>3. PICK x \in S : x = F[<<m, f[k]>>]
    BY <2>1 DEF StaysIn
  <2>4. PICK g : g = [i \in 0..m |-> IF i = m THEN x ELSE f[i]]
    OBVIOUS
  <2>5. g \in [0..m -> S] /\ g[m] = x /\ \A i \in 0..k : g[i] = f[i]
    BY <2>1, <2>4
  <2>6. g[0] = b
    BY <2>2, <2>5
  <2>7. ASSUME NEW i \in 1..m PROVE g[i] = F[<<i, g[i - 1]>>]
    <3>1. CASE i = m
      <4>1. i - 1 = k /\ g[k] = f[k]
        BY <2>1, <2>5, <3>1
      <4>2. QED BY <2>3, <2>5, <3>1, <4>1
    <3>2. CASE i # m
      <4>1. i \in 1..k /\ i \in 0..k /\ i - 1 \in 0..k
        BY <2>1, <3>2
      <4>2. g[i] = f[i] /\ g[i - 1] = f[i - 1]
        BY <2>5, <4>1
      <4>3. QED BY <2>2, <4>1, <4>2
    <3>3. QED BY <3>1, <3>2
  <2>8. QED BY <2>5, <2>6, <2>7
<1> HIDE DEF G
<1>3. \A i \in 0..n : i \in G
  BY <1>1, <1>2, UpTo
<1>4. n \in G
  BY <1>3
<1>5. QED BY <1>4 DEF G, Recurs

\* FlattenSeq appends one piece after the other.
LEMMA FlattenSteps ==
  ASSUME NEW T, NEW ss \in Seq(Seq(T))
  PROVE  \E f \in [0..Len(ss) -> Seq(T)] :
           /\ f[0] = <<>> /\ FlattenSeq(ss) = f[Len(ss)]
           /\ \A i \in 1..Len(ss) : f[i] = f[i - 1] \o ss[i]
<1>1. PICK n \in Nat : n = Len(ss)
  OBVIOUS
<1>2. \A i \in 1..n : ss[i] \in Seq(T)
  BY <1>1
<1>3. PICK S : S = Seq(T)
  OBVIOUS
<1>4. PICK h : h = [p \in (1..n) \X S |-> p[2] \o ss[p[1]]]
  OBVIOUS
<1>5. ASSUME NEW i \in 1..n, NEW x \in S PROVE h[<<i, x>>] = x \o ss[i] /\ h[<<i, x>>] \in S
  <2>1. <<i, x>> \in (1..n) \X S /\ <<i, x>>[1] = i /\ <<i, x>>[2] = x
    OBVIOUS
  <2>2. h[<<i, x>>] = x \o ss[i]
    BY <1>4, <2>1
  <2>3. x \in Seq(T) /\ ss[i] \in Seq(T)
    BY <1>2, <1>3
  <2>4. x \o ss[i] \in Seq(T)
    BY <2>3, ConcatProperties
  <2>5. QED BY <1>3, <2>2, <2>4
<1>6. PICK f \in [0..n -> S] : f[0] = <<>> /\ \A i \in 1..n : f[i] = h[<<i, f[i - 1]>>]
  <2>1. StaysIn(h, n, S)
    BY <1>5 DEF StaysIn
  <2>2. <<>> \in S
    BY <1>3
  <2>3. PICK f : Recurs(f, h, n, <<>>, S)
    BY <2>1, <2>2, Recursion
  <2>4. QED BY <2>3 DEF Recurs
<1>7. ASSUME NEW i \in 1..n PROVE i - 1 \in 0..n /\ f[i - 1] \in S /\ f[i] = f[i - 1] \o ss[i]
  <2>1. i - 1 \in 0..n
    OBVIOUS
  <2>2. f[i - 1] \in S
    BY <2>1
  <2>3. QED BY <1>5, <1>6, <2>1, <2>2
<1>8. n > 0 => f[1] = ss[1]
  <2>1. ASSUME n > 0 PROVE f[1] = ss[1]
    <3>1. 1 \in 1..n /\ 1 - 1 = 0
      BY <2>1
    <3>2. f[1] = <<>> \o ss[1]
      BY <1>6, <1>7, <3>1
    <3>3. <<>> \o ss[1] = ss[1]
      BY <1>2, <3>1, ConcatEmptySeq
    <3>4. QED BY <3>2, <3>3
  <2>2. QED BY <2>1
<1>9. FlattenSeq(ss) = f[n]
  <2>1. CASE n = 0
    <3>1. ss = <<>>
      BY <1>1, <2>1, EmptySeq
    <3>2. FlattenSeq(ss) = ss
      BY <1>1, <2>1 DEF FlattenSeq
    <3>3. QED BY <1>6, <2>1, <3>1, <3>2
  <2>2. CASE n # 0
    <3> DEFINE Flattens(g) == g = [i \in 1..n |-> IF i = 1 THEN ss[i] ELSE g[i - 1] \o ss[i]]
               c == CHOOSE g : Flattens(g)
    <3>1. PICK g : g = [i \in 1..n |-> f[i]]
      OBVIOUS
    <3>2. ASSUME NEW i \in 1..n PROVE g[i] = IF i = 1 THEN ss[i] ELSE g[i - 1] \o ss[i]
      <4>1. CASE i = 1
        BY <1>8, <3>1, <4>1
      <4>2. CASE i # 1
        <5>1. i - 1 \in 1..n
          BY <4>2
        <5>2. g[i - 1] = f[i - 1] /\ g[i] = f[i]
          BY <3>1, <5>1
        <5>3. QED BY <1>7, <4>2, <5>2
      <4>3. QED BY <4>1, <4>2
    <3>3. Flattens(g)
      <4>1. g = [i \in 1..n |-> g[i]]
        BY <3>1
      <4>2. QED BY <3>2, <4>1
    <3>4. Flattens(c)
      <4> HIDE DEF Flattens
      <4>1. QED BY <3>3
    <3>5. FlattenSeq(ss) = c[n]
      BY <1>1, <2>2 DEF FlattenSeq
    <3> HIDE DEF c
    <3>6. \A i \in 1..n : c[i] = IF i = 1 THEN ss[i] ELSE c[i - 1] \o ss[i]
      BY <3>4
    <3> HIDE DEF Flattens
    <3>7. PICK G : G = {i \in 0..n : i = 0 \/ c[i] = f[i]}
      OBVIOUS
    <3>8. 0 \in G
      BY <3>7
    <3>9. ASSUME NEW i \in 1..n, i - 1 \in G PROVE i \in G
      <4>1. CASE i = 1
        BY <1>8, <3>6, <3>7, <4>1
      <4>2. CASE i # 1
        <5>1. c[i - 1] = f[i - 1]
          BY <3>7, <3>9, <4>2
        <5>2. c[i] = f[i]
          BY <1>7, <3>6, <4>2, <5>1
        <5>3. QED BY <3>7, <5>2
      <4>3. QED BY <4>1, <4>2
    <3>10. \A i \in 0..n : i \in G
      BY <3>8, <3>9, UpTo
    <3>11. c[n] = f[n]
      BY <2>2, <3>7, <3>10
    <3>12. QED BY <3>5, <3>11
  <2>3. QED BY <2>1, <2>2
<1>10. f \in [0..n -> Seq(T)]
  BY <1>3
<1>11. QED BY <1>1, <1>6, <1>7, <1>9, <1>10

\* The sequence of nothing.
LEMMA EmptyShape ==
  ASSUME NEW T
  PROVE  <<>> \in Seq(T) /\ Len(<<>>) = 0 /\ ToSet(<<>>) = {} /\ IsInjective(<<>>)
<1>1. PICK e \in Seq(T) : e = <<>> /\ Len(e) = 0
  <2>1. <<>> \in Seq(T) /\ Len(<<>>) = 0
    OBVIOUS
  <2>2. QED BY <2>1
<1>2. ToSet(e) = {}
  <2>1. ASSUME NEW x PROVE x \notin ToSet(e)
    <3>1. x \in ToSet(e) <=> \E i \in 1..Len(e) : e[i] = x
      BY ToSetMember
    <3>2. QED BY <1>1, <3>1
  <2>2. QED BY <2>1
<1>3. IsInjective(e)
  <2>1. \A i, j \in 1..Len(e) : e[i] = e[j] => i = j
    BY <1>1
  <2>2. QED BY <2>1, InjectiveSeq
<1>4. QED BY <1>1, <1>2, <1>3

\* What stands in two sequences one after the other.
LEMMA ConcatShape ==
  ASSUME NEW T, NEW s \in Seq(T), NEW t \in Seq(T)
  PROVE  /\ s \o t \in Seq(T) /\ ToSet(s \o t) = ToSet(s) \cup ToSet(t)
         /\ IsInjective(s) /\ IsInjective(t) /\ ToSet(s) \cap ToSet(t) = {} => IsInjective(s \o t)
<1>1. PICK r : r = s \o t
  OBVIOUS
<1>0. PICK m \in Nat, n \in Nat : m = Len(s) /\ n = Len(t)
  OBVIOUS
<1>2. r \in Seq(T) /\ Len(r) = m + n /\ \A i \in 1..m + n : r[i] = IF i <= m THEN s[i] ELSE t[i - m]
  BY <1>0, <1>1, ConcatProperties
<1>3. \A i \in 1..m : i \in 1..m + n /\ r[i] = s[i]
  BY <1>2
<1>4. \A i \in 1..n : m + i \in 1..m + n /\ r[m + i] = t[i]
  <2>1. ASSUME NEW i \in 1..n PROVE m + i \in 1..m + n /\ ~(m + i <= m) /\ (m + i) - m = i
    OBVIOUS
  <2>2. QED BY <1>2, <2>1
<1>5. ASSUME NEW i \in 1..m + n
      PROVE  \/ i \in 1..m /\ r[i] = s[i]
             \/ i > m /\ i - m \in 1..n /\ r[i] = t[i - m]
  BY <1>2
<1>6. ASSUME NEW x PROVE x \in ToSet(r) <=> x \in ToSet(s) \cup ToSet(t)
  <2>1. x \in ToSet(r) <=> \E i \in 1..m + n : r[i] = x
    BY <1>2, ToSetMember
  <2>2. x \in ToSet(s) <=> \E i \in 1..m : s[i] = x
    BY <1>0, ToSetMember
  <2>3. x \in ToSet(t) <=> \E i \in 1..n : t[i] = x
    BY <1>0, ToSetMember
  <2>4. QED BY <2>1, <2>2, <2>3, <1>3, <1>4, <1>5
<1>7. ASSUME IsInjective(s), IsInjective(t), ToSet(s) \cap ToSet(t) = {}
      PROVE  IsInjective(r)
  <2>1. \A i, j \in 1..m : s[i] = s[j] => i = j
    BY <1>0, <1>7, InjectiveSeq
  <2>2. \A i, j \in 1..n : t[i] = t[j] => i = j
    BY <1>0, <1>7, InjectiveSeq
  <2>3. \A i \in 1..m, j \in 1..n : s[i] # t[j]
    <3>1. ASSUME NEW i \in 1..m, NEW j \in 1..n PROVE s[i] # t[j]
      <4>1. s[i] \in ToSet(s) /\ t[j] \in ToSet(t)
        BY <1>0, ToSetMember
      <4>2. QED BY <1>7, <4>1
    <3>2. QED BY <3>1
  <2>4. ASSUME NEW i \in 1..m + n, NEW j \in 1..m + n, r[i] = r[j] PROVE i = j
    <3>1. CASE i <= m /\ j <= m
      BY <2>1, <2>4, <3>1, <1>5
    <3>2. CASE i > m /\ j > m
      <4>1. i - m = j - m
        BY <2>2, <2>4, <3>2, <1>5
      <4>2. QED BY <4>1
    <3>3. CASE i <= m /\ j > m
      <4>1. i \in 1..m /\ r[i] = s[i]
        BY <1>5, <3>3
      <4>2. j - m \in 1..n /\ r[j] = t[j - m]
        BY <1>5, <3>3
      <4>3. QED BY <2>3, <2>4, <4>1, <4>2
    <3>4. CASE i > m /\ j <= m
      <4>1. j \in 1..m /\ r[j] = s[j]
        BY <1>5, <3>4
      <4>2. i - m \in 1..n /\ r[i] = t[i - m]
        BY <1>5, <3>4
      <4>3. QED BY <2>3, <2>4, <4>1, <4>2
    <3>5. QED BY <3>1, <3>2, <3>3, <3>4
  <2>5. QED BY <1>2, <2>4, InjectiveSeq
<1>8. QED BY <1>1, <1>6, <1>7

\* A flattened sequence has what its pieces have, and nothing twice if no piece
\* has and no two pieces share anything.
LEMMA FlattenShape ==
  ASSUME NEW T, NEW ss \in Seq(Seq(T))
  PROVE  /\ FlattenSeq(ss) \in Seq(T)
         /\ ToSet(FlattenSeq(ss)) = UNION {ToSet(ss[i]) : i \in 1..Len(ss)}
         /\ (\A i \in 1..Len(ss) : IsInjective(ss[i]))
              /\ (\A i, j \in 1..Len(ss) : i # j => ToSet(ss[i]) \cap ToSet(ss[j]) = {})
            => IsInjective(FlattenSeq(ss))
<1>1. PICK n \in Nat : n = Len(ss)
  OBVIOUS
<1>2. PICK f \in [0..n -> Seq(T)] :
        f[0] = <<>> /\ FlattenSeq(ss) = f[n] /\ \A i \in 1..n : f[i] = f[i - 1] \o ss[i]
  BY <1>1, FlattenSteps
<1> DEFINE Parts(i) == UNION {ToSet(ss[j]) : j \in 1..i}
<1>0. PICK G : G = {i \in 0..n : ToSet(f[i]) = Parts(i)}
  OBVIOUS
<1>3. ASSUME NEW i \in 1..n PROVE i - 1 \in 0..n /\ f[i - 1] \in Seq(T) /\ ss[i] \in Seq(T)
  <2>1. i - 1 \in 0..n
    OBVIOUS
  <2>2. f[i - 1] \in Seq(T)
    BY <2>1
  <2>3. ss[i] \in Seq(T)
    BY <1>1
  <2>4. QED BY <2>1, <2>2, <2>3
<1>4. 0 \in G
  <2>1. ToSet(<<>>) = {}
    BY EmptyShape
  <2>2. Parts(0) = {}
    OBVIOUS
  <2> HIDE DEF Parts
  <2>3. ToSet(f[0]) = Parts(0)
    BY <1>2, <2>1, <2>2
  <2>4. QED BY <1>0, <2>3
<1>5. ASSUME NEW i \in 1..n, i - 1 \in G PROVE i \in G
  <2>1. ToSet(f[i]) = ToSet(f[i - 1]) \cup ToSet(ss[i])
    <3>1. f[i - 1] \in Seq(T) /\ ss[i] \in Seq(T)
      BY <1>3
    <3>2. ToSet(f[i - 1] \o ss[i]) = ToSet(f[i - 1]) \cup ToSet(ss[i])
      BY <3>1, ConcatShape
    <3>3. f[i] = f[i - 1] \o ss[i]
      BY <1>2
    <3>4. QED BY <3>2, <3>3
  <2>2. \A j \in 1..i : j \in 1..i - 1 \/ j = i
    OBVIOUS
  <2>3. Parts(i) = Parts(i - 1) \cup ToSet(ss[i])
    <3>1. ASSUME NEW x \in Parts(i) PROVE x \in Parts(i - 1) \cup ToSet(ss[i])
      BY <2>2
    <3>2. \A j \in 1..i - 1 : j \in 1..i
      OBVIOUS
    <3>3. ASSUME NEW x \in Parts(i - 1) PROVE x \in Parts(i)
      BY <3>2
    <3>4. i \in 1..i
      OBVIOUS
    <3>5. ASSUME NEW x \in ToSet(ss[i]) PROVE x \in Parts(i)
      BY <3>4
    <3> HIDE DEF Parts
    <3>6. QED BY <3>1, <3>3, <3>5
  <2> HIDE DEF Parts
  <2>4. ToSet(f[i - 1]) = Parts(i - 1)
    BY <1>0, <1>5
  <2>5. ToSet(f[i]) = Parts(i)
    BY <2>1, <2>3, <2>4
  <2>6. QED BY <1>0, <2>5
<1>6. \A i \in 0..n : ToSet(f[i]) = Parts(i)
  <2> HIDE DEF Parts
  <2>1. \A i \in 0..n : i \in G
    BY <1>4, <1>5, UpTo
  <2>2. QED BY <1>0, <2>1
<1>7. ASSUME \A i \in 1..n : IsInjective(ss[i]),
             \A i, j \in 1..n : i # j => ToSet(ss[i]) \cap ToSet(ss[j]) = {}
      PROVE  IsInjective(f[n])
  <2>0. PICK H : H = {i \in 0..n : IsInjective(f[i])}
    OBVIOUS
  <2>1. 0 \in H
    <3>1. IsInjective(<<>>)
      BY EmptyShape
    <3>2. QED BY <1>2, <2>0, <3>1
  <2>2. ASSUME NEW i \in 1..n, i - 1 \in H PROVE i \in H
    <3>1. ToSet(f[i - 1]) = Parts(i - 1)
      BY <1>3, <1>6
    <3>2. Parts(i - 1) \cap ToSet(ss[i]) = {}
      <4>1. \A j \in 1..i - 1 : j \in 1..n /\ j # i
        OBVIOUS
      <4>2. \A j \in 1..i - 1 : ToSet(ss[j]) \cap ToSet(ss[i]) = {}
        BY <1>7, <4>1
      <4>3. QED BY <4>2
    <3>3. IsInjective(f[i - 1]) /\ IsInjective(ss[i])
      BY <1>7, <2>0, <2>2
    <3> HIDE DEF Parts
    <3>4. IsInjective(f[i - 1] \o ss[i])
      BY <1>3, <3>1, <3>2, <3>3, ConcatShape
    <3>5. f[i] = f[i - 1] \o ss[i]
      BY <1>2
    <3>6. IsInjective(f[i]) /\ i \in 0..n
      BY <3>4, <3>5
    <3>7. QED BY <2>0, <3>6
  <2>3. \A i \in 0..n : i \in H
    BY <2>1, <2>2, UpTo
  <2>4. QED BY <2>0, <2>3
<1>8. n \in 0..n
  OBVIOUS
<1>9. FlattenSeq(ss) = f[n] /\ f[n] \in Seq(T) /\ ToSet(f[n]) = Parts(n)
  BY <1>2, <1>6, <1>8
<1>10. QED BY <1>1, <1>7, <1>9

\* InsertAt adds one member, in front of the i-th.
LEMMA InsertShape ==
  ASSUME NEW T, NEW s \in Seq(T), NEW i \in 1..Len(s) + 1, NEW x \in T
  PROVE  /\ InsertAt(s, i, x) \in Seq(T)
         /\ ToSet(InsertAt(s, i, x)) = ToSet(s) \cup {x}
         /\ Len(InsertAt(s, i, x)) = Len(s) + 1
         /\ IsInjective(s) /\ x \notin ToSet(s) => IsInjective(InsertAt(s, i, x))
<1>1. PICK n \in Nat : n = Len(s)
  OBVIOUS
<1>2. PICK front : front = SubSeq(s, 1, i - 1)
  OBVIOUS
<1>3. PICK back : back = SubSeq(s, i, Len(s))
  OBVIOUS
<1>4. front \in Seq(T) /\ Len(front) = i - 1 /\ \A j \in 1..i - 1 : front[j] = s[j]
  <2>1. \A j \in 1..i - 1 : s[j] \in T
    OBVIOUS
  <2>2. QED BY <1>2, <2>1, SubSeqProperties
<1>5. back \in Seq(T) /\ Len(back) = n + 1 - i /\ \A j \in 1..n + 1 - i : back[j] = s[i + j - 1]
  <2>1. \A j \in i..Len(s) : s[j] \in T
    OBVIOUS
  <2>2. QED BY <1>1, <1>3, <2>1, SubSeqProperties
<1>6. <<x>> \in Seq(T) /\ Len(<<x>>) = 1 /\ <<x>>[1] = x
  OBVIOUS
<1>7. PICK mid : mid = front \o <<x>>
  OBVIOUS
<1>8. mid \in Seq(T) /\ Len(mid) = i /\ \A j \in 1..i : mid[j] = IF j < i THEN s[j] ELSE x
  BY <1>4, <1>6, <1>7, ConcatProperties
<1>9. PICK r : r = InsertAt(s, i, x)
  OBVIOUS
<1>10. r = mid \o back
  BY <1>2, <1>3, <1>7, <1>9 DEF InsertAt
<1>11. r \in Seq(T) /\ Len(r) = n + 1
  <2>1. r \in Seq(T) /\ Len(r) = Len(mid) + Len(back)
    BY <1>5, <1>8, <1>10, ConcatProperties
  <2>2. i \in Nat
    OBVIOUS
  <2>3. Len(mid) + Len(back) = n + 1
    BY <1>5, <1>8, <2>2
  <2>4. QED BY <2>1, <2>3
<1>12. ASSUME NEW j \in 1..n + 1
       PROVE  r[j] = IF j < i THEN s[j] ELSE IF j = i THEN x ELSE s[j - 1]
  <2>1. i \in 1..n + 1
    BY <1>1
  <2>2. r[j] = IF j <= i THEN mid[j] ELSE back[j - i]
    BY <1>5, <1>8, <1>10, <1>11, ConcatProperties
  <2>3. CASE j <= i
    BY <1>8, <2>1, <2>2, <2>3
  <2>4. CASE j > i
    <3>1. j - i \in 1..n + 1 - i /\ i + (j - i) - 1 = j - 1
      BY <2>1, <2>4
    <3>2. back[j - i] = s[i + (j - i) - 1]
      BY <1>5, <3>1
    <3>3. QED BY <2>1, <2>2, <2>4, <3>1, <3>2
  <2>5. QED BY <2>1, <2>3, <2>4
<1>13. ASSUME NEW j \in 1..n + 1
       PROVE  \/ j = i /\ r[j] = x
              \/ j < i /\ j \in 1..n /\ r[j] = s[j]
              \/ j > i /\ j - 1 \in 1..n /\ r[j] = s[j - 1]
  <2>1. i \in 1..n + 1
    BY <1>1
  <2>2. QED BY <1>12, <2>1
<1>14. ASSUME NEW y PROVE y \in ToSet(r) <=> y \in ToSet(s) \cup {x}
  <2>1. y \in ToSet(r) <=> \E j \in 1..n + 1 : r[j] = y
    BY <1>11, ToSetMember
  <2>2. y \in ToSet(s) <=> \E j \in 1..n : s[j] = y
    BY <1>1, ToSetMember
  <2>3. ASSUME NEW j \in 1..n PROVE \E k \in 1..n + 1 : r[k] = s[j]
    <3>1. CASE j < i
      <4>1. j \in 1..n + 1 /\ r[j] = s[j]
        BY <1>12, <3>1
      <4>2. QED BY <4>1
    <3>2. CASE j >= i
      <4>1. j + 1 \in 1..n + 1 /\ ~(j + 1 < i) /\ j + 1 # i /\ (j + 1) - 1 = j
        BY <1>1, <3>2
      <4>2. r[j + 1] = s[j]
        BY <1>12, <4>1
      <4>3. QED BY <4>1, <4>2
    <3>3. QED BY <3>1, <3>2
  <2>4. i \in 1..n + 1 /\ r[i] = x
    BY <1>1, <1>12
  <2>5. ASSUME y \in ToSet(r) PROVE y \in ToSet(s) \cup {x}
    <3>1. PICK j \in 1..n + 1 : r[j] = y
      BY <2>1, <2>5
    <3>2. QED BY <1>13, <2>2, <3>1
  <2>6. ASSUME y \in ToSet(s) \cup {x} PROVE y \in ToSet(r)
    BY <2>1, <2>2, <2>3, <2>4, <2>6
  <2>7. QED BY <2>5, <2>6
<1>15. ASSUME IsInjective(s), x \notin ToSet(s) PROVE IsInjective(r)
  <2>1. \A j, k \in 1..n : s[j] = s[k] => j = k
    BY <1>1, <1>15, InjectiveSeq
  <2>2. \A j \in 1..n : s[j] # x
    BY <1>1, <1>15, ToSetMember
  <2>3. ASSUME NEW j \in 1..n + 1, NEW k \in 1..n + 1, r[j] = r[k] PROVE j = k
    <3>1. CASE j = i
      BY <1>13, <2>2, <2>3, <3>1
    <3>2. CASE k = i
      BY <1>13, <2>2, <2>3, <3>2
    <3>3. CASE j # i /\ k # i
      <4>1. PICK p \in 1..n : r[j] = s[p] /\ ((p = j /\ j < i) \/ (p = j - 1 /\ j > i))
        BY <1>13, <3>3
      <4>2. PICK q \in 1..n : r[k] = s[q] /\ ((q = k /\ k < i) \/ (q = k - 1 /\ k > i))
        BY <1>13, <3>3
      <4>3. p = q
        BY <2>1, <2>3, <4>1, <4>2
      <4>4. QED BY <1>1, <4>1, <4>2, <4>3
    <3>4. QED BY <3>1, <3>2, <3>3
  <2>4. QED BY <1>11, <2>3, InjectiveSeq
<1>16. ToSet(r) = ToSet(s) \cup {x}
  BY <1>14
<1>17. QED BY <1>1, <1>9, <1>11, <1>15, <1>16

\* A set is as large as one that it is mapped to one by one.
LEMMA ImageCount ==
  ASSUME NEW S, IsFiniteSet(S), NEW T, NEW f \in [S -> T], \A x \in T : \E s \in S : f[s] = x,
         \A s, t \in S : f[s] = f[t] => s = t
  PROVE  IsFiniteSet(T) /\ Cardinality(T) = Cardinality(S)
<1>1. f \in Injection(S, T)
  BY DEF Injection, IsInjective
<1>2. f \in Surjection(S, T)
  BY DEF Surjection
<1>3. f \in Bijection(S, T)
  BY <1>1, <1>2 DEF Bijection
<1>4. ExistsBijection(S, T)
  BY <1>3 DEF ExistsBijection
<1>5. QED BY <1>4, FS_Bijection

=============================================================================
