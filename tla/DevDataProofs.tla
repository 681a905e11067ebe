---------------------------- MODULE DevDataProofs ----------------------------
(***************************************************************************)
(* Theorems about DevData, for a buffer of any size, any bytes, lengths,   *)
(* positions and failures, and a program that keeps to the rules for the   *)
(* position.                                                               *)
(***************************************************************************)
EXTENDS DevData, SequenceFacts

-----------------------------------------------------------------------------
(* Bytes and Overlay *)

\* How many bytes there are.
LEMMA BytesShape ==
  ASSUME NEW s \in Seq(Byte), NEW p \in Nat, NEW n \in Nat
  PROVE  /\ Bytes(s, p, n) \in Seq(Byte)
         /\ Len(Bytes(s, p, n)) =
              IF p + n <= Len(s) THEN n ELSE IF p <= Len(s) THEN Len(s) - p ELSE 0
         /\ \A i \in 1..Len(Bytes(s, p, n)) : Bytes(s, p, n)[i] = s[p + i]
<1>1. Len(s) \in Nat
  OBVIOUS
<1>2. PICK m \in Nat : m = Least(p + n, Len(s))
  BY <1>1 DEF Least
<1>3. \A i \in p + 1..m : s[i] \in Byte
  BY <1>1, <1>2 DEF Least
<1>4. /\ SubSeq(s, p + 1, m) \in Seq(Byte)
      /\ Len(SubSeq(s, p + 1, m)) = IF p + 1 <= m THEN m - (p + 1) + 1 ELSE 0
      /\ \A i \in 1..m - (p + 1) + 1 : SubSeq(s, p + 1, m)[i] = s[p + 1 + i - 1]
  BY <1>3, SubSeqProperties
<1>5. Bytes(s, p, n) = SubSeq(s, p + 1, m)
  BY <1>2 DEF Bytes
<1>6. Len(SubSeq(s, p + 1, m)) = IF p + n <= Len(s) THEN n ELSE IF p <= Len(s) THEN Len(s) - p ELSE 0
  BY <1>1, <1>2, <1>4 DEF Least
<1>7. \A i \in 1..Len(SubSeq(s, p + 1, m)) : SubSeq(s, p + 1, m)[i] = s[p + i]
  BY <1>1, <1>2, <1>4
<1>8. QED
  BY <1>4, <1>5, <1>6, <1>7

\* The same of named bytes: a read, its place and its length are given at once.
Read(s, p, n, u) == s \in Seq(Byte) /\ p \in Nat /\ n \in Nat /\ u = Bytes(s, p, n)

LEMMA ReadShape ==
  ASSUME NEW s, NEW p, NEW n, NEW u, Read(s, p, n, u)
  PROVE  /\ u \in Seq(Byte) /\ Len(u) \in Nat
         /\ Len(u) = IF p + n <= Len(s) THEN n ELSE IF p <= Len(s) THEN Len(s) - p ELSE 0
         /\ \A i \in 1..Len(u) : u[i] = s[p + i]
<1>1. /\ s \in Seq(Byte) /\ p \in Nat /\ n \in Nat
      /\ u = Bytes(s, p, n)
  BY DEF Read
<1>2. PICK a \in Seq(Byte), q \in Nat, m \in Nat : a = s /\ q = p /\ m = n
  BY <1>1
<1>3. PICK v : v = Bytes(a, q, m)
  OBVIOUS
<1>4. /\ v \in Seq(Byte)
      /\ Len(v) = IF q + m <= Len(a) THEN m ELSE IF q <= Len(a) THEN Len(a) - q ELSE 0
      /\ \A i \in 1..Len(v) : v[i] = a[q + i]
  BY <1>3, BytesShape
<1>5. u = v
  BY <1>1, <1>2, <1>3
<1>6. Len(u) \in Nat
  BY <1>4, <1>5
<1>7. QED
  BY <1>2, <1>4, <1>5, <1>6

\* What is written covers what was there.
LEMMA OverlayShape ==
  ASSUME NEW s \in Seq(Byte), NEW p \in Nat, NEW t \in Seq(Byte)
  PROVE  /\ Overlay(s, p, t, Hole) \in Seq(Byte)
         /\ Len(Overlay(s, p, t, Hole)) =
              IF t = <<>> THEN Len(s) ELSE IF p + Len(t) > Len(s) THEN p + Len(t) ELSE Len(s)
         /\ \A i \in 1..Len(Overlay(s, p, t, Hole)) :
              Overlay(s, p, t, Hole)[i] = IF i \in (p + 1)..(p + Len(t)) THEN t[i - p]
                                          ELSE IF i <= Len(s) THEN s[i] ELSE Hole
<1>1. Len(s) \in Nat /\ Len(t) \in Nat /\ Hole \in Byte
  BY DeviceAssumption
<1>2. CASE t = <<>>
  BY <1>1, <1>2 DEF Overlay
<1>3. CASE t # <<>>
  <2>1. PICK m \in Nat : m = IF p + Len(t) > Len(s) THEN p + Len(t) ELSE Len(s)
    BY <1>1
  <2> DEFINE e == [i \in 1..m |-> IF i \in (p + 1)..(p + Len(t)) THEN t[i - p]
                                  ELSE IF i <= Len(s) THEN s[i] ELSE Hole]
  <2>2. Overlay(s, p, t, Hole) = e
    BY <1>3, <2>1 DEF Overlay
  <2>3. \A i \in 1..m : (IF i \in (p + 1)..(p + Len(t)) THEN t[i - p]
                         ELSE IF i <= Len(s) THEN s[i] ELSE Hole) \in Byte
    BY <1>1, <2>1
  <2>4. e \in Seq(Byte) /\ Len(e) = m
    BY <2>3
  <2>5. QED BY <1>3, <2>1, <2>2, <2>4
<1>4. QED BY <1>2, <1>3

\* A read of n bytes is one of k and one of the others.
LEMMA BytesSplit ==
  ASSUME NEW s \in Seq(Byte), NEW p \in Nat, NEW n \in Nat, NEW k \in 0..n,
         Len(Bytes(s, p, k)) = k
  PROVE  Bytes(s, p, n) = Bytes(s, p, k) \o Bytes(s, p + k, n - k)
<1>1. Len(s) \in Nat /\ k \in Nat /\ n - k \in Nat /\ p + k \in Nat
  OBVIOUS
<1> DEFINE a == Bytes(s, p, n)
           b == Bytes(s, p, k)
           c == Bytes(s, p + k, n - k)
<1>2. /\ a \in Seq(Byte) /\ \A i \in 1..Len(a) : a[i] = s[p + i]
      /\ Len(a) = IF p + n <= Len(s) THEN n ELSE IF p <= Len(s) THEN Len(s) - p ELSE 0
  BY BytesShape
<1>3. /\ b \in Seq(Byte) /\ \A i \in 1..Len(b) : b[i] = s[p + i]
      /\ Len(b) = IF p + k <= Len(s) THEN k ELSE IF p <= Len(s) THEN Len(s) - p ELSE 0
  BY <1>1, BytesShape
<1>4. /\ c \in Seq(Byte) /\ \A i \in 1..Len(c) : c[i] = s[p + k + i]
      /\ Len(c) = IF p + k + (n - k) <= Len(s) THEN n - k ELSE IF p + k <= Len(s) THEN Len(s) - (p + k) ELSE 0
  BY <1>1, BytesShape
<1>5. Len(b) = k
  OBVIOUS
<1> HIDE DEF a, b, c
<1>6. /\ b \o c \in Seq(Byte) /\ Len(b \o c) = Len(b) + Len(c)
      /\ \A i \in 1..Len(b) + Len(c) : (b \o c)[i] = IF i <= Len(b) THEN b[i] ELSE c[i - Len(b)]
  BY <1>3, <1>4, ConcatProperties
<1>7. Len(a) = Len(b \o c)
  <2>1. PICK l \in Nat : l = Len(s)
    OBVIOUS
  <2>2. k <= n /\ p + k + (n - k) = p + n /\ n - k + k = n
    BY <1>1
  <2>3. k = IF p + k <= l THEN k ELSE IF p <= l THEN l - p ELSE 0
    BY <1>3, <1>5, <2>1
  <2>4. Len(a) = IF p + n <= l THEN n ELSE IF p <= l THEN l - p ELSE 0
    BY <1>2, <2>1
  <2>5. Len(c) = IF p + n <= l THEN n - k ELSE IF p + k <= l THEN l - (p + k) ELSE 0
    BY <1>4, <2>1, <2>2
  <2>6. Len(a) = k + Len(c)
    BY <1>1, <2>1, <2>2, <2>3, <2>4, <2>5
  <2>7. QED BY <1>5, <1>6, <2>6
<1>8. ASSUME NEW i \in 1..Len(a) PROVE a[i] = (b \o c)[i]
  <2>1. CASE i <= k
    <3>1. i \in 1..Len(b) /\ i \in 1..Len(b) + Len(c)
      <4>1. Len(c) \in Nat /\ Len(b) \in Nat /\ i \in Nat /\ 1 <= i
        BY <1>2, <1>3, <1>4
      <4>2. QED BY <1>5, <2>1, <4>1
    <3>2. b[i] = s[p + i] /\ a[i] = s[p + i]
      BY <1>2, <1>3, <3>1
    <3>3. (b \o c)[i] = b[i]
      BY <1>5, <1>6, <2>1, <3>1
    <3>4. QED BY <3>2, <3>3
  <2>2. CASE i > k
    <3>1. i - k \in 1..Len(c) /\ p + k + (i - k) = p + i
      <4>1. PICK l \in Nat, m \in Nat, q \in Nat, h \in Nat :
              l = Len(c) /\ m = Len(a) /\ q = k /\ h = i /\ 1 <= h /\ h <= m /\ h > q
        <5>1. Len(c) \in Nat /\ Len(a) \in Nat
          BY <1>2, <1>4
        <5>2. i \in Nat /\ 1 <= i /\ i <= Len(a) /\ i > k /\ k \in Nat
          BY <1>1, <2>2, <5>1
        <5>3. QED BY <5>1, <5>2
      <4>2. m = q + l
        BY <1>5, <1>6, <1>7, <4>1
      <4>3. h - q \in 1..l /\ p + q + (h - q) = p + h
        BY <4>1, <4>2
      <4>4. QED BY <4>1, <4>3
    <3>2. c[i - k] = s[p + i]
      BY <3>1, <1>4
    <3>3. (b \o c)[i] = c[i - k]
      BY <2>2, <1>1, <1>5, <1>6, <1>7
    <3>4. a[i] = s[p + i]
      BY <1>2
    <3>5. QED BY <3>2, <3>3, <3>4
  <2>3. i \in Nat
    BY <1>2
  <2>4. i <= k \/ i > k
    BY <2>3, <1>1
  <2>5. QED BY <2>1, <2>2, <2>4
<1>9. QED
  BY <1>2, <1>6, <1>7, <1>8, SeqEqual DEF a, b, c

Split(s, p, n, k) ==
  s \in Seq(Byte) /\ p \in Nat /\ n \in Nat /\ k \in 0..n /\ Len(Bytes(s, p, k)) = k

LEMMA ReadSplit ==
  ASSUME NEW s, NEW p, NEW n, NEW k, Split(s, p, n, k)
  PROVE  Bytes(s, p, n) = Bytes(s, p, k) \o Bytes(s, p + k, n - k)
<1>1. /\ s \in Seq(Byte) /\ p \in Nat /\ n \in Nat
      /\ k \in 0..n /\ Len(Bytes(s, p, k)) = k
  BY DEF Split
<1>2. PICK a \in Seq(Byte), q \in Nat, m \in Nat : a = s /\ q = p /\ m = n
  BY <1>1
<1>3. PICK j \in 0..m : j = k
  BY <1>1, <1>2
<1>4. Len(Bytes(a, q, j)) = j
  BY <1>1, <1>2, <1>3
<1>5. Bytes(a, q, m) = Bytes(a, q, j) \o Bytes(a, q + j, m - j)
  BY <1>4, BytesSplit
<1>6. QED
  BY <1>2, <1>3, <1>5

\* A read that meets the end gets what a longer one would get.
LEMMA BytesShort ==
  ASSUME NEW s \in Seq(Byte), NEW p \in Nat, NEW n \in Nat, NEW k \in 0..n,
         Len(Bytes(s, p, k)) < k
  PROVE  Bytes(s, p, n) = Bytes(s, p, k)
<1>1. Len(s) \in Nat /\ k \in Nat
  OBVIOUS
<1>2. /\ Bytes(s, p, n) \in Seq(Byte) /\ \A i \in 1..Len(Bytes(s, p, n)) : Bytes(s, p, n)[i] = s[p + i]
      /\ Len(Bytes(s, p, n)) = IF p + n <= Len(s) THEN n ELSE IF p <= Len(s) THEN Len(s) - p ELSE 0
  BY BytesShape
<1>3. /\ Bytes(s, p, k) \in Seq(Byte) /\ \A i \in 1..Len(Bytes(s, p, k)) : Bytes(s, p, k)[i] = s[p + i]
      /\ Len(Bytes(s, p, k)) = IF p + k <= Len(s) THEN k ELSE IF p <= Len(s) THEN Len(s) - p ELSE 0
  BY <1>1, BytesShape
<1>4. Len(Bytes(s, p, n)) = Len(Bytes(s, p, k))
  BY <1>1, <1>2, <1>3
<1>5. QED
  BY <1>2, <1>3, <1>4, SeqEqual

\* A transfer that stops has got the first of the bytes.
LEMMA BytesPrefix ==
  ASSUME NEW s \in Seq(Byte), NEW p \in Nat, NEW n \in Nat, NEW m \in 0..Len(Bytes(s, p, n))
  PROVE  /\ SubSeq(Bytes(s, p, n), 1, m) = Bytes(s, p, m)
         /\ Len(Bytes(s, p, m)) = m
<1>1. Len(s) \in Nat
  OBVIOUS
<1> DEFINE a == Bytes(s, p, n)
           b == Bytes(s, p, m)
<1>2. /\ a \in Seq(Byte) /\ \A i \in 1..Len(a) : a[i] = s[p + i]
      /\ Len(a) = IF p + n <= Len(s) THEN n ELSE IF p <= Len(s) THEN Len(s) - p ELSE 0
  BY BytesShape
<1>3. m \in Nat /\ m <= Len(a)
  BY <1>2
<1>4. /\ b \in Seq(Byte) /\ \A i \in 1..Len(b) : b[i] = s[p + i]
      /\ Len(b) = IF p + m <= Len(s) THEN m ELSE IF p <= Len(s) THEN Len(s) - p ELSE 0
  BY <1>3, BytesShape
<1> HIDE DEF a, b
<1>5. Len(b) = m
  BY <1>1, <1>2, <1>3, <1>4
<1>6. \A i \in 1..m : a[i] \in Byte
  BY <1>2, <1>3
<1>7. /\ SubSeq(a, 1, m) \in Seq(Byte)
      /\ Len(SubSeq(a, 1, m)) = m
      /\ \A i \in 1..m : SubSeq(a, 1, m)[i] = a[i]
  <2>1. /\ SubSeq(a, 1, m) \in Seq(Byte)
        /\ Len(SubSeq(a, 1, m)) = IF 1 <= m THEN m - 1 + 1 ELSE 0
        /\ \A i \in 1..m - 1 + 1 : SubSeq(a, 1, m)[i] = a[1 + i - 1]
    BY <1>3, <1>6, SubSeqProperties
  <2>2. QED BY <2>1, <1>3
<1>8. \A i \in 1..m : SubSeq(a, 1, m)[i] = b[i]
  BY <1>2, <1>3, <1>4, <1>5, <1>7
<1>9. SubSeq(a, 1, m) = b
  BY <1>4, <1>5, <1>7, <1>8, SeqEqual
<1>10. QED
  BY <1>5, <1>9 DEF a, b

Held(s, p, b) == Bytes(s, p, Len(b)) = b

\* What is read from a buffer is what the file has behind the buffer's place.
LEMMA HeldBytes ==
  ASSUME NEW s \in Seq(Byte), NEW p \in Nat, NEW b \in Seq(Byte), NEW j \in 0..Len(b), NEW n \in Nat,
         Held(s, p, b)
  PROVE  /\ Bytes(b, j, n) \in Seq(Byte)
         /\ Len(Bytes(b, j, n)) = Least(n, Len(b) - j)
         /\ Bytes(b, j, n) = Bytes(s, p + j, Least(n, Len(b) - j))
<1>1. Len(s) \in Nat /\ Len(b) \in Nat /\ j \in Nat /\ j <= Len(b) /\ p + j \in Nat /\ Len(b) - j \in Nat
  OBVIOUS
<1>2. PICK m \in Nat : m = Least(n, Len(b) - j)
  BY <1>1 DEF Least
<1>3. m <= n /\ m <= Len(b) - j
  BY <1>1, <1>2 DEF Least
<1> DEFINE d == Bytes(s, p, Len(b))
<1>a. /\ \A i \in 1..Len(d) : d[i] = s[p + i]
      /\ Len(d) = IF p + Len(b) <= Len(s) THEN Len(b) ELSE IF p <= Len(s) THEN Len(s) - p ELSE 0
  <2>1. Read(s, p, Len(b), d)
    BY <1>1 DEF Read
  <2>2. PICK l, e : l = Len(b) /\ e = d
    OBVIOUS
  <2>3. Read(s, p, l, e)
    BY <2>1, <2>2
  <2>4. /\ \A i \in 1..Len(e) : e[i] = s[p + i]
        /\ Len(e) = IF p + l <= Len(s) THEN l ELSE IF p <= Len(s) THEN Len(s) - p ELSE 0
    BY <2>3, ReadShape
  <2>5. QED BY <2>2, <2>4
<1>b. d = b
  BY DEF Held
<1> HIDE DEF d
<1>4. /\ \A i \in 1..Len(b) : b[i] = s[p + i]
      /\ Len(b) = IF p + Len(b) <= Len(s) THEN Len(b) ELSE IF p <= Len(s) THEN Len(s) - p ELSE 0
  BY <1>a, <1>b
<1>5. /\ Bytes(b, j, n) \in Seq(Byte) /\ \A i \in 1..Len(Bytes(b, j, n)) : Bytes(b, j, n)[i] = b[j + i]
      /\ Len(Bytes(b, j, n)) = IF j + n <= Len(b) THEN n ELSE IF j <= Len(b) THEN Len(b) - j ELSE 0
  BY <1>1, BytesShape
<1>6. Len(Bytes(b, j, n)) = m
  BY <1>1, <1>2, <1>5 DEF Least
<1>7. /\ Bytes(s, p + j, m) \in Seq(Byte) /\ \A i \in 1..Len(Bytes(s, p + j, m)) : Bytes(s, p + j, m)[i] = s[p + j + i]
      /\ Len(Bytes(s, p + j, m)) = IF p + j + m <= Len(s) THEN m ELSE IF p + j <= Len(s) THEN Len(s) - (p + j) ELSE 0
  <2>1. Read(s, p + j, m, Bytes(s, p + j, m))
    BY <1>1 DEF Read
  <2>2. QED BY <2>1, ReadShape
<1>8. Len(Bytes(s, p + j, m)) = m
  BY <1>1, <1>3, <1>4, <1>7
<1>9. ASSUME NEW i \in 1..m PROVE Bytes(b, j, n)[i] = Bytes(s, p + j, m)[i]
  <2>1. Bytes(b, j, n)[i] = b[j + i] /\ j + i \in 1..Len(b)
    <3>1. j + i \in 1..Len(b)
      BY <1>1, <1>3
    <3>2. QED BY <1>5, <1>6, <3>1
  <2>2. b[j + i] = s[p + (j + i)]
    BY <2>1, <1>4
  <2>3. p + (j + i) = p + j + i
    BY <1>1
  <2>4. Bytes(s, p + j, m)[i] = s[p + j + i]
    BY <1>7, <1>8
  <2>5. QED BY <2>1, <2>2, <2>3, <2>4
<1>10. Bytes(b, j, n) = Bytes(s, p + j, m)
  BY <1>5, <1>6, <1>7, <1>8, <1>9, SeqEqual
<1>11. QED
  BY <1>2, <1>5, <1>6, <1>10

LEMMA BytesWithin ==
  ASSUME NEW b \in Seq(Byte), NEW j \in 0..Len(b), NEW n \in Nat
  PROVE  Len(Bytes(b, j, n)) = Least(n, Len(b) - j)
<1>1. Len(b) \in Nat /\ j \in Nat /\ j <= Len(b)
  OBVIOUS
<1>2. Len(Bytes(b, j, n)) = IF j + n <= Len(b) THEN n ELSE IF j <= Len(b) THEN Len(b) - j ELSE 0
  BY <1>1, BytesShape
<1>3. QED BY <1>1, <1>2 DEF Least

\* What has been written is there.
LEMMA OverlayHolds ==
  ASSUME NEW s \in Seq(Byte), NEW p \in Nat, NEW t \in Seq(Byte)
  PROVE  Held(Overlay(s, p, t, Hole), p, t)
<1>1. Len(s) \in Nat /\ Len(t) \in Nat
  OBVIOUS
<1>2. PICK o \in Seq(Byte) : o = Overlay(s, p, t, Hole)
  BY OverlayShape
<1>3. /\ Len(o) = IF t = <<>> THEN Len(s) ELSE IF p + Len(t) > Len(s) THEN p + Len(t) ELSE Len(s)
      /\ \A i \in 1..Len(o) :
           o[i] = IF i \in (p + 1)..(p + Len(t)) THEN t[i - p] ELSE IF i <= Len(s) THEN s[i] ELSE Hole
  BY <1>2, OverlayShape
<1>4. PICK b \in Seq(Byte) : b = Bytes(o, p, Len(t))
  BY <1>1, BytesShape
<1>5. /\ \A i \in 1..Len(b) : b[i] = o[p + i]
      /\ Len(b) = IF p + Len(t) <= Len(o) THEN Len(t) ELSE IF p <= Len(o) THEN Len(o) - p ELSE 0
  BY <1>1, <1>4, BytesShape
<1>6. CASE t = <<>>
  <2>1. Len(t) = 0 /\ Len(o) \in Nat
    BY <1>6
  <2>2. Len(b) = 0
    BY <2>1, <1>5
  <2>3. QED BY <2>2, <1>6, <1>4, <1>2, EmptySeq DEF Held
<1>7. CASE t # <<>>
  <2>1. Len(b) = Len(t) /\ p + Len(t) <= Len(o) /\ Len(o) \in Nat
    BY <1>1, <1>3, <1>5, <1>7
  <2>2. ASSUME NEW i \in 1..Len(t) PROVE b[i] = t[i]
    <3>1. p + i \in 1..Len(o) /\ p + i \in (p + 1)..(p + Len(t)) /\ p + i - p = i /\ i \in 1..Len(b)
      BY <1>1, <2>1
    <3>2. o[p + i] = t[p + i - p]
      BY <3>1, <1>3
    <3>3. QED BY <3>1, <3>2, <1>5
  <2>3. b = t
    BY <2>1, <2>2, SeqEqual
  <2>4. QED BY <2>3, <1>4, <1>2 DEF Held
<1>8. QED BY <1>6, <1>7

\* To write what is there changes nothing.
LEMMA OverlayHeld ==
  ASSUME NEW s \in Seq(Byte), NEW p \in Nat, NEW t \in Seq(Byte), Held(s, p, t)
  PROVE  Overlay(s, p, t, Hole) = s
<1>1. Len(s) \in Nat /\ Len(t) \in Nat
  OBVIOUS
<1>2. CASE t = <<>>
  BY <1>2 DEF Overlay
<1>3. CASE t # <<>>
  <2>1. PICK o \in Seq(Byte) : o = Overlay(s, p, t, Hole)
    BY OverlayShape
  <2>2. /\ Len(o) = IF p + Len(t) > Len(s) THEN p + Len(t) ELSE Len(s)
        /\ \A i \in 1..Len(o) :
             o[i] = IF i \in (p + 1)..(p + Len(t)) THEN t[i - p] ELSE IF i <= Len(s) THEN s[i] ELSE Hole
    BY <1>3, <2>1, OverlayShape
  <2>3. PICK b \in Seq(Byte) : b = Bytes(s, p, Len(t))
    BY <1>1, BytesShape
  <2>4. /\ \A i \in 1..Len(b) : b[i] = s[p + i]
        /\ Len(b) = IF p + Len(t) <= Len(s) THEN Len(t) ELSE IF p <= Len(s) THEN Len(s) - p ELSE 0
    BY <1>1, <2>3, BytesShape
  <2>5. b = t /\ Len(t) > 0
    BY <1>3, <2>3, EmptySeq DEF Held
  <2>6. p + Len(t) <= Len(s) /\ Len(b) = Len(t)
    BY <1>1, <2>4, <2>5
  <2>7. Len(o) = Len(s)
    BY <1>1, <2>2, <2>6
  <2>8. ASSUME NEW i \in 1..Len(o) PROVE o[i] = s[i]
    <3>1. CASE i \in (p + 1)..(p + Len(t))
      <4>1. i - p \in 1..Len(b) /\ p + (i - p) = i
        BY <3>1, <2>6, <1>1
      <4>2. b[i - p] = s[p + (i - p)]
        BY <4>1, <2>4
      <4>3. o[i] = t[i - p]
        BY <3>1, <2>2
      <4>4. QED BY <4>1, <4>2, <4>3, <2>5
    <3>2. CASE i \notin (p + 1)..(p + Len(t))
      BY <3>2, <2>2, <2>7
    <3>3. QED BY <3>1, <3>2
  <2>9. QED BY <2>1, <2>7, <2>8, SeqEqual
<1>4. QED BY <1>2, <1>3

IsOverlay(o, s, p, t) ==
  /\ o \in Seq(Byte) /\ Len(t) > 0
  /\ Len(o) = IF p + Len(t) > Len(s) THEN p + Len(t) ELSE Len(s)
  /\ \A i \in 1..Len(o) :
       o[i] = IF i \in (p + 1)..(p + Len(t)) THEN t[i - p] ELSE IF i <= Len(s) THEN s[i] ELSE Hole

LEMMA OverlayIs ==
  ASSUME NEW s \in Seq(Byte), NEW p \in Nat, NEW t \in Seq(Byte), t # <<>>
  PROVE  IsOverlay(Overlay(s, p, t, Hole), s, p, t)
BY OverlayShape, EmptySeq DEF IsOverlay

\* Two writes, the second behind the first, are one.
LEMMA OverlayConcat ==
  ASSUME NEW s \in Seq(Byte), NEW p \in Nat, NEW t \in Seq(Byte), NEW u \in Seq(Byte)
  PROVE  Overlay(Overlay(s, p, t, Hole), p + Len(t), u, Hole) = Overlay(s, p, t \o u, Hole)
<1>1. Len(s) \in Nat /\ Len(t) \in Nat /\ Len(u) \in Nat /\ p + Len(t) \in Nat
  OBVIOUS
<1>2. CASE u = <<>>
  BY <1>2, ConcatEmptySeq DEF Overlay
<1>3. CASE t = <<>>
  <2>1. Len(t) = 0 /\ p + 0 = p
    BY <1>3
  <2>2. Overlay(s, p, t, Hole) = s
    BY <1>3 DEF Overlay
  <2>3. QED BY <2>1, <2>2, <1>3, ConcatEmptySeq
<1>4. CASE t # <<>> /\ u # <<>>
  <2>1. PICK ls \in Nat, lt \in Nat, lu \in Nat : ls = Len(s) /\ lt = Len(t) /\ lu = Len(u)
    BY <1>1
  <2>2. PICK o \in Seq(Byte) : o = Overlay(s, p, t, Hole)
    BY OverlayShape
  <2>3. PICK q \in Seq(Byte) : q = Overlay(o, p + lt, u, Hole)
    BY <1>1, OverlayShape
  <2>4. PICK v \in Seq(Byte) : v = t \o u
    BY ConcatProperties
  <2>5. /\ Len(v) = lt + lu /\ lt > 0 /\ lu > 0
        /\ \A i \in 1..lt + lu : v[i] = IF i <= lt THEN t[i] ELSE u[i - lt]
    BY <1>4, <2>1, <2>4, ConcatProperties, EmptySeq
  <2>6. v # <<>>
    BY <2>5, EmptySeq
  <2>7. PICK r \in Seq(Byte) : r = Overlay(s, p, v, Hole)
    BY OverlayShape
  <2>8. PICK lo \in Nat, lq \in Nat, lr \in Nat : lo = Len(o) /\ lq = Len(q) /\ lr = Len(r)
    OBVIOUS
  <2>9. /\ lo = IF p + lt > ls THEN p + lt ELSE ls
        /\ \A i \in 1..lo :
             o[i] = IF i \in (p + 1)..(p + lt) THEN t[i - p] ELSE IF i <= ls THEN s[i] ELSE Hole
    <3>1. IsOverlay(o, s, p, t)
      BY <1>4, <2>2, OverlayIs
    <3>2. QED BY <3>1, <2>1, <2>8 DEF IsOverlay
  <2>10. /\ lq = IF p + lt + lu > lo THEN p + lt + lu ELSE lo
         /\ \A i \in 1..lq :
              q[i] = IF i \in (p + lt + 1)..(p + lt + lu) THEN u[i - (p + lt)]
                     ELSE IF i <= lo THEN o[i] ELSE Hole
    <3>1. p + lt \in Nat
      OBVIOUS
    <3>2. IsOverlay(q, o, p + lt, u)
      BY <3>1, <1>4, <2>3, OverlayIs
    <3>3. QED BY <3>2, <2>1, <2>8 DEF IsOverlay
  <2>11. /\ lr = IF p + (lt + lu) > ls THEN p + (lt + lu) ELSE ls
         /\ \A i \in 1..lr :
              r[i] = IF i \in (p + 1)..(p + (lt + lu)) THEN v[i - p] ELSE IF i <= ls THEN s[i] ELSE Hole
    <3>1. IsOverlay(r, s, p, v)
      BY <2>6, <2>7, OverlayIs
    <3>2. QED BY <3>1, <2>1, <2>5, <2>8 DEF IsOverlay
  <2>12. p + (lt + lu) = p + lt + lu
    OBVIOUS
  <2>13. lq = lr
    BY <2>9, <2>10, <2>11, <2>12
  <2>14. ASSUME NEW i \in 1..lq PROVE q[i] = r[i]
    <3>1. i \in Nat /\ i >= 1 /\ i <= lq
      OBVIOUS
    <3>2. CASE i > p + lt /\ i <= p + lt + lu
      <4>1. q[i] = u[i - (p + lt)]
        <5>1. i \in (p + lt + 1)..(p + lt + lu)
          BY <3>1, <3>2
        <5>2. QED BY <5>1, <2>10
      <4>2. i - p \in 1..lt + lu /\ ~(i - p <= lt) /\ i - p - lt = i - (p + lt)
        BY <3>1, <3>2
      <4>3. v[i - p] = u[i - p - lt]
        BY <4>2, <2>5
      <4>4. r[i] = v[i - p]
        BY <3>1, <3>2, <2>11, <2>12, <2>13
      <4>5. QED BY <4>1, <4>2, <4>3, <4>4
    <3>3. CASE i > p /\ i <= p + lt
      <4>1. i \in 1..lo /\ i \notin (p + lt + 1)..(p + lt + lu) /\ i <= lo
        BY <3>1, <3>3, <2>9
      <4>2. q[i] = o[i]
        BY <4>1, <2>10
      <4>3. o[i] = t[i - p]
        BY <4>1, <3>3, <2>9
      <4>4. i - p \in 1..lt + lu /\ i - p <= lt
        BY <3>1, <3>3
      <4>5. v[i - p] = t[i - p]
        BY <4>4, <2>5
      <4>6. r[i] = v[i - p]
        BY <3>1, <3>3, <2>11, <2>12, <2>13
      <4>7. QED BY <4>2, <4>3, <4>5, <4>6
    <3>4. CASE i <= p \/ i > p + lt + lu
      <4>1. i \notin (p + lt + 1)..(p + lt + lu) /\ i \notin (p + 1)..(p + lt) /\ i \notin (p + 1)..(p + lt + lu)
        <5>1. PICK e \in Nat, g \in Nat : e = p + lt /\ g = p + lt + lu /\ p <= e /\ e <= g
          OBVIOUS
        <5>2. i <= p \/ i > g
          BY <3>4, <5>1
        <5>3. i \notin (e + 1)..g /\ i \notin (p + 1)..e /\ i \notin (p + 1)..g
          BY <3>1, <5>1, <5>2
        <5>4. QED BY <5>1, <5>3
      <4>2. q[i] = IF i <= lo THEN o[i] ELSE Hole
        BY <4>1, <2>10
      <4>3. i <= lo => o[i] = IF i <= ls THEN s[i] ELSE Hole
        BY <3>1, <4>1, <2>9
      <4>4. r[i] = IF i <= ls THEN s[i] ELSE Hole
        BY <3>1, <4>1, <2>11, <2>12, <2>13
      <4>5. i <= ls => i <= lo
        <5>1. lo = IF p + lt > ls THEN p + lt ELSE ls
          BY <2>9
        <5>2. QED BY <3>1, <5>1
      <4>6. QED BY <4>2, <4>3, <4>4, <4>5
    <3>5. QED BY <3>1, <3>2, <3>3, <3>4
  <2>15. q = r
    BY <2>8, <2>13, <2>14, SeqEqual
  <2>16. QED BY <2>1, <2>2, <2>3, <2>4, <2>7, <2>15
<1>5. QED BY <1>2, <1>3, <1>4

\* To write into a buffer and then the buffer is to write into the file.
LEMMA OverlayWithin ==
  ASSUME NEW s \in Seq(Byte), NEW p \in Nat, NEW t \in Seq(Byte), NEW j \in 0..Len(t), NEW u \in Seq(Byte)
  PROVE  Overlay(s, p, Overlay(t, j, u, Hole), Hole) = Overlay(Overlay(s, p, t, Hole), p + j, u, Hole)
<1>1. Len(s) \in Nat /\ Len(t) \in Nat /\ Len(u) \in Nat /\ j \in Nat /\ j <= Len(t) /\ p + j \in Nat
  OBVIOUS
<1>2. CASE u = <<>>
  BY <1>2 DEF Overlay
<1>3. CASE t = <<>> /\ u # <<>>
  <2>1. j = 0 /\ p + 0 = p /\ Len(t) = 0
    BY <1>3, <1>1
  <2>2. Overlay(s, p, t, Hole) = s
    BY <1>3 DEF Overlay
  <2>3. PICK o \in Seq(Byte) : o = Overlay(t, 0, u, Hole)
    BY OverlayShape
  <2>4. IsOverlay(o, t, 0, u)
    BY <2>3, <1>3, OverlayIs
  <2>5. Len(o) = Len(u)
    BY <2>1, <2>4, <1>1 DEF IsOverlay
  <2>6. ASSUME NEW i \in 1..Len(u) PROVE o[i] = u[i]
    BY <2>4, <2>5, <1>1 DEF IsOverlay
  <2>7. o = u
    BY <2>5, <2>6, SeqEqual
  <2>8. QED BY <2>1, <2>2, <2>3, <2>7
<1>4. CASE t # <<>> /\ u # <<>>
  <2>1. PICK ls \in Nat, lt \in Nat, lu \in Nat : ls = Len(s) /\ lt = Len(t) /\ lu = Len(u)
    BY <1>1
  <2>2. PICK v \in Seq(Byte) : v = Overlay(t, j, u, Hole)
    BY <1>1, OverlayShape
  <2>3. PICK q \in Seq(Byte) : q = Overlay(s, p, v, Hole)
    BY OverlayShape
  <2>4. PICK o \in Seq(Byte) : o = Overlay(s, p, t, Hole)
    BY OverlayShape
  <2>5. PICK r \in Seq(Byte) : r = Overlay(o, p + j, u, Hole)
    BY <1>1, OverlayShape
  <2>6. PICK lv \in Nat, lq \in Nat, lo \in Nat, lr \in Nat :
          lv = Len(v) /\ lq = Len(q) /\ lo = Len(o) /\ lr = Len(r)
    OBVIOUS
  <2>7. /\ lu > 0
        /\ lv = IF j + lu > lt THEN j + lu ELSE lt
        /\ \A i \in 1..lv :
             v[i] = IF i \in (j + 1)..(j + lu) THEN u[i - j] ELSE IF i <= lt THEN t[i] ELSE Hole
    <3>1. IsOverlay(v, t, j, u)
      BY <1>1, <1>4, <2>2, OverlayIs
    <3>2. QED BY <3>1, <2>1, <2>6 DEF IsOverlay
  <2>8. v # <<>>
    <3>1. j \in Nat
      BY <1>1
    <3>2. lv > 0
      BY <3>1, <2>7
    <3>3. Len(v) > 0
      BY <3>2, <2>6
    <3>4. QED BY <3>3, EmptySeq
  <2>9. /\ lq = IF p + lv > ls THEN p + lv ELSE ls
        /\ \A i \in 1..lq :
             q[i] = IF i \in (p + 1)..(p + lv) THEN v[i - p] ELSE IF i <= ls THEN s[i] ELSE Hole
    <3>1. IsOverlay(q, s, p, v)
      BY <2>8, <2>3, OverlayIs
    <3>2. QED BY <3>1, <2>1, <2>6 DEF IsOverlay
  <2>10. /\ lt > 0
         /\ lo = IF p + lt > ls THEN p + lt ELSE ls
         /\ \A i \in 1..lo :
              o[i] = IF i \in (p + 1)..(p + lt) THEN t[i - p] ELSE IF i <= ls THEN s[i] ELSE Hole
    <3>1. IsOverlay(o, s, p, t)
      BY <1>4, <2>4, OverlayIs
    <3>2. QED BY <3>1, <2>1, <2>6 DEF IsOverlay
  <2>11. /\ lr = IF p + j + lu > lo THEN p + j + lu ELSE lo
         /\ \A i \in 1..lr :
              r[i] = IF i \in (p + j + 1)..(p + j + lu) THEN u[i - (p + j)] ELSE IF i <= lo THEN o[i] ELSE Hole
    <3>1. IsOverlay(r, o, p + j, u)
      BY <1>1, <1>4, <2>5, OverlayIs
    <3>2. QED BY <3>1, <2>1, <2>6 DEF IsOverlay
  <2>12. j \in Nat /\ j <= lt
    BY <1>1, <2>1
  <2>13. lq = lr
    BY <2>7, <2>9, <2>10, <2>11, <2>12
  <2>14. ASSUME NEW i \in 1..lq PROVE q[i] = r[i]
    <3>1. i \in Nat /\ i >= 1 /\ i <= lq /\ i <= lr
      BY <2>13
    <3>2. CASE i > p + j /\ i <= p + j + lu
      <4>1. i \in (p + 1)..(p + lv) /\ i - p \in 1..lv /\ i - p \in (j + 1)..(j + lu)
        <5>1. lv = IF j + lu > lt THEN j + lu ELSE lt
          BY <2>7
        <5>2. QED BY <3>1, <3>2, <5>1, <2>12
      <4>2. q[i] = v[i - p] /\ v[i - p] = u[i - p - j]
        BY <4>1, <2>7, <2>9
      <4>3. i \in (p + j + 1)..(p + j + lu) /\ i \in 1..lr /\ i - (p + j) = i - p - j
        BY <3>1, <3>2, <2>12
      <4>4. r[i] = u[i - (p + j)]
        BY <4>3, <2>11
      <4>5. QED BY <4>2, <4>3, <4>4
    <3>3. CASE i > p /\ i <= p + lt /\ ~(i > p + j /\ i <= p + j + lu)
      <4>1. i \in (p + 1)..(p + lv) /\ i - p \in 1..lv /\ i - p \notin (j + 1)..(j + lu) /\ i - p <= lt
        BY <3>1, <3>3, <2>7, <2>12
      <4>2. q[i] = v[i - p] /\ v[i - p] = t[i - p]
        BY <4>1, <2>7, <2>9
      <4>3. i \notin (p + j + 1)..(p + j + lu) /\ i \in 1..lo /\ i \in 1..lr /\ i <= lo
        BY <3>1, <3>3, <2>10, <2>11, <2>12
      <4>4. r[i] = o[i] /\ o[i] = t[i - p]
        BY <4>3, <3>3, <2>10, <2>11
      <4>5. QED BY <4>2, <4>4
    <3>4. CASE (i <= p \/ i > p + lt) /\ ~(i > p + j /\ i <= p + j + lu)
      <4>1. i \notin (p + 1)..(p + lv)
        <5>1. lv = IF j + lu > lt THEN j + lu ELSE lt
          BY <2>7
        <5>2. QED BY <3>1, <3>4, <5>1, <2>12
      <4>2. q[i] = IF i <= ls THEN s[i] ELSE Hole
        BY <4>1, <2>9
      <4>3. i \notin (p + j + 1)..(p + j + lu) /\ i \notin (p + 1)..(p + lt) /\ i \in 1..lr
        BY <3>1, <3>4, <2>12
      <4>4. r[i] = IF i <= lo THEN o[i] ELSE Hole
        BY <4>3, <2>11
      <4>5. i <= lo => o[i] = IF i <= ls THEN s[i] ELSE Hole
        BY <3>1, <4>3, <2>10
      <4>6. i <= ls => i <= lo
        <5>1. lo = IF p + lt > ls THEN p + lt ELSE ls
          BY <2>10
        <5>2. QED BY <3>1, <5>1
      <4>7. QED BY <4>2, <4>4, <4>5, <4>6
    <3>5. QED BY <3>1, <3>2, <3>3, <3>4
  <2>15. q = r
    BY <2>6, <2>13, <2>14, SeqEqual
  <2>16. QED BY <2>2, <2>3, <2>4, <2>5, <2>15
<1>5. QED BY <1>2, <1>3, <1>4

\* A part of a sequence.
LEMMA PartShape ==
  ASSUME NEW s \in Seq(Byte), NEW b \in 0..Len(s), NEW a \in 0..b
  PROVE  /\ SubSeq(s, a + 1, b) \in Seq(Byte)
         /\ Len(SubSeq(s, a + 1, b)) = b - a
         /\ \A i \in 1..b - a : SubSeq(s, a + 1, b)[i] = s[a + i]
<1>1. Len(s) \in Nat /\ a \in Nat /\ b \in Nat /\ a <= b /\ b <= Len(s)
  OBVIOUS
<1>2. \A i \in a + 1..b : s[i] \in Byte
  BY <1>1
<1>3. /\ SubSeq(s, a + 1, b) \in Seq(Byte)
      /\ Len(SubSeq(s, a + 1, b)) = IF a + 1 <= b THEN b - (a + 1) + 1 ELSE 0
      /\ \A i \in 1..b - (a + 1) + 1 : SubSeq(s, a + 1, b)[i] = s[a + 1 + i - 1]
  BY <1>1, <1>2, SubSeqProperties
<1>4. \A i \in 1..b - a : SubSeq(s, a + 1, b)[i] = s[a + i]
  BY <1>1, <1>3
<1>5. Len(SubSeq(s, a + 1, b)) = b - a
  BY <1>1, <1>3
<1>6. QED BY <1>3, <1>4, <1>5

\* A part of a part.
LEMMA PartOfPart ==
  ASSUME NEW s \in Seq(Byte), NEW b \in 0..Len(s), NEW a \in 0..b, NEW j \in 0..b - a, NEW i \in 0..j
  PROVE  SubSeq(SubSeq(s, a + 1, b), i + 1, j) = SubSeq(s, a + i + 1, a + j)
<1>1. Len(s) \in Nat /\ a \in Nat /\ b \in Nat /\ a <= b /\ b <= Len(s)
      /\ j \in Nat /\ i \in Nat /\ j <= b - a /\ i <= j /\ a + j \in 0..Len(s) /\ a + i \in 0..a + j
  OBVIOUS
<1>2. PICK t \in Seq(Byte) : t = SubSeq(s, a + 1, b)
  BY PartShape
<1>3. Len(t) = b - a /\ \A k \in 1..b - a : t[k] = s[a + k]
  BY <1>2, PartShape
<1>4. j \in 0..Len(t)
  BY <1>3
<1>5. PICK u \in Seq(Byte) : u = SubSeq(t, i + 1, j)
  BY <1>4, PartShape
<1>6. Len(u) = j - i /\ \A k \in 1..j - i : u[k] = t[i + k]
  BY <1>4, <1>5, PartShape
<1>7. PICK v \in Seq(Byte) : v = SubSeq(s, a + i + 1, a + j)
  BY <1>1, PartShape
<1>8. Len(v) = a + j - (a + i) /\ \A k \in 1..a + j - (a + i) : v[k] = s[a + i + k]
  BY <1>1, <1>7, PartShape
<1>9. Len(u) = Len(v) /\ a + j - (a + i) = j - i
  BY <1>1, <1>6, <1>8
<1>10. ASSUME NEW k \in 1..j - i PROVE u[k] = v[k]
  <2>1. i + k \in 1..b - a /\ a + (i + k) = a + i + k
    BY <1>1
  <2>2. t[i + k] = s[a + (i + k)]
    BY <2>1, <1>3
  <2>3. QED BY <2>1, <2>2, <1>6, <1>8, <1>9
<1>11. u = v
  BY <1>6, <1>9, <1>10, SeqEqual
<1>12. QED BY <1>2, <1>5, <1>7, <1>11

\* Two parts, one behind the other.
LEMMA PartsConcat ==
  ASSUME NEW s \in Seq(Byte), NEW b \in 0..Len(s), NEW a \in 0..b
  PROVE  SubSeq(s, 1, a) \o SubSeq(s, a + 1, b) = SubSeq(s, 1, b)
<1>1. 1 \in 1..Len(s) + 1 /\ a \in 1 - 1..Len(s) /\ b \in a..Len(s)
  OBVIOUS
<1>2. QED BY <1>1, ConcatAdjacentSubSeq

\* A write that stopped half-way and is repeated.
LEMMA OverlayPrefix ==
  ASSUME NEW s \in Seq(Byte), NEW p \in Nat, NEW t \in Seq(Byte), NEW k \in 0..Len(t)
  PROVE  Overlay(Overlay(s, p, SubSeq(t, 1, k), Hole), p, t, Hole) = Overlay(s, p, t, Hole)
<1>1. Len(s) \in Nat /\ Len(t) \in Nat /\ k \in Nat /\ k <= Len(t)
  OBVIOUS
<1>2. PICK u \in Seq(Byte) : u = SubSeq(t, 1, k)
  <2>1. SubSeq(t, 0 + 1, k) \in Seq(Byte)
    BY <1>1, PartShape
  <2>2. 0 + 1 = 1
    OBVIOUS
  <2>3. SubSeq(t, 1, k) \in Seq(Byte)
    BY <2>1, <2>2
  <2>4. QED BY <2>3
<1>3. Len(u) = k
  <2>1. Len(SubSeq(t, 0 + 1, k)) = k - 0
    BY <1>1, PartShape
  <2>2. 0 + 1 = 1 /\ k - 0 = k
    BY <1>1
  <2>3. Len(SubSeq(t, 1, k)) = k
    BY <2>1, <2>2
  <2>4. QED BY <2>3, <1>2
<1>4. CASE u = <<>>
  BY <1>2, <1>4 DEF Overlay
<1>5. CASE u # <<>>
  <2>1. PICK ls \in Nat, lt \in Nat : ls = Len(s) /\ lt = Len(t)
    BY <1>1
  <2>2. PICK o \in Seq(Byte) : o = Overlay(s, p, u, Hole)
    BY OverlayShape
  <2>3. PICK q \in Seq(Byte) : q = Overlay(o, p, t, Hole)
    BY OverlayShape
  <2>4. PICK r \in Seq(Byte) : r = Overlay(s, p, t, Hole)
    BY OverlayShape
  <2>5. PICK lo \in Nat, lq \in Nat, lr \in Nat : lo = Len(o) /\ lq = Len(q) /\ lr = Len(r)
    OBVIOUS
  <2>6. k > 0 /\ t # <<>>
    BY <1>1, <1>3, <1>5, EmptySeq
  <2>7. /\ lo = IF p + k > ls THEN p + k ELSE ls
        /\ \A i \in 1..lo :
             o[i] = IF i \in (p + 1)..(p + k) THEN u[i - p] ELSE IF i <= ls THEN s[i] ELSE Hole
    <3>1. IsOverlay(o, s, p, u)
      BY <1>5, <2>2, OverlayIs
    <3>2. QED BY <3>1, <1>3, <2>1, <2>5 DEF IsOverlay
  <2>8. /\ lq = IF p + lt > lo THEN p + lt ELSE lo
        /\ \A i \in 1..lq :
             q[i] = IF i \in (p + 1)..(p + lt) THEN t[i - p] ELSE IF i <= lo THEN o[i] ELSE Hole
    <3>1. IsOverlay(q, o, p, t)
      BY <2>6, <2>3, OverlayIs
    <3>2. QED BY <3>1, <2>1, <2>5 DEF IsOverlay
  <2>9. /\ lr = IF p + lt > ls THEN p + lt ELSE ls
        /\ \A i \in 1..lr :
             r[i] = IF i \in (p + 1)..(p + lt) THEN t[i - p] ELSE IF i <= ls THEN s[i] ELSE Hole
    <3>1. IsOverlay(r, s, p, t)
      BY <2>6, <2>4, OverlayIs
    <3>2. QED BY <3>1, <2>1, <2>5 DEF IsOverlay
  <2>10. k <= lt /\ lq = lr
    <3>1. k \in Nat /\ k <= lt
      BY <1>1, <2>1
    <3>2. lq = lr
      BY <3>1, <2>7, <2>8, <2>9
    <3>3. QED BY <3>1, <3>2
  <2>11. ASSUME NEW i \in 1..lq PROVE q[i] = r[i]
    <3>1. i \in Nat /\ i >= 1 /\ i <= lq /\ i \in 1..lr
      BY <2>10
    <3>2. CASE i \in (p + 1)..(p + lt)
      BY <3>1, <3>2, <2>8, <2>9
    <3>3. CASE i \notin (p + 1)..(p + lt)
      <4>1. i \notin (p + 1)..(p + k)
        BY <3>1, <3>3, <1>1, <2>10
      <4>2. q[i] = IF i <= lo THEN o[i] ELSE Hole
        BY <3>3, <2>8
      <4>3. i <= lo => o[i] = IF i <= ls THEN s[i] ELSE Hole
        BY <3>1, <4>1, <2>7
      <4>4. r[i] = IF i <= ls THEN s[i] ELSE Hole
        BY <3>1, <3>3, <2>9
      <4>5. i <= ls => i <= lo
        BY <3>1, <1>1, <2>7
      <4>6. QED BY <4>2, <4>3, <4>4, <4>5
    <3>4. QED BY <3>2, <3>3
  <2>12. q = r
    BY <2>5, <2>10, <2>11, SeqEqual
  <2>13. QED BY <1>2, <2>2, <2>3, <2>4, <2>12
<1>6. QED BY <1>4, <1>5

-----------------------------------------------------------------------------
(* The state of a call *)

Calls == [disk : Seq(Byte), kpos : Nat, spos : Nat, buf : Seq(Byte), bpos : Nat,
          modf : BOOLEAN, ubuf : Seq(Byte),
          room : Nat, got : Seq(Byte), ok : BOOLEAN, lost : BOOLEAN]

\* The file as its user sees it, and the position behind what has been taken from
\* the buffer.
All(c) == IF c.modf THEN Overlay(c.disk, c.spos, c.buf, Hole) ELSE c.disk
At(c)  == c.spos + c.bpos

\* The buffer is in its bounds, and holds what the disk holds when it is unmodified.
Sound(c) ==
  /\ c \in Calls
  /\ Len(c.buf) <= BUFSIZE /\ c.bpos <= Len(c.buf)
  /\ ~c.modf => Held(c.disk, c.spos, c.buf)

\* The system's position is the buffer's end.
Behind(c) == ~c.modf => c.kpos = c.spos + Len(c.buf)

\* What a procedure that keeps the characters put back leaves as it was.
Same(d, c) == d.ubuf = c.ubuf /\ d.lost = c.lost

LEMMA LeastOf == ASSUME NEW m \in Nat, NEW n \in Nat PROVE Least(m, n) \in Nat /\ Least(m, n) <= m /\ Least(m, n) <= n
                                                           /\ (Least(m, n) = m \/ Least(m, n) = n)
BY DEF Least

\* The first k bytes.
LEMMA FirstShape ==
  ASSUME NEW s \in Seq(Byte), NEW k \in 0..Len(s)
  PROVE  SubSeq(s, 1, k) \in Seq(Byte) /\ Len(SubSeq(s, 1, k)) = k
<1>1. Len(s) \in Nat /\ k \in Nat /\ 0 \in 0..k /\ 0 + 1 = 1 /\ k - 0 = k
  OBVIOUS
<1>2. SubSeq(s, 0 + 1, k) \in Seq(Byte) /\ Len(SubSeq(s, 0 + 1, k)) = k - 0
  BY <1>1, PartShape
<1>3. QED BY <1>1, <1>2

LEMMA fWriteDoes ==
  ASSUME NEW c \in Calls, NEW s \in Seq(Byte)
  PROVE  \E k \in 0..Len(s) :
           /\ fWrite(c, s) \in Calls
           /\ fWrite(c, s).disk = Overlay(c.disk, c.kpos, SubSeq(s, 1, k), Hole)
           /\ fWrite(c, s).kpos = c.kpos + k
           /\ fWrite(c, s).ok = (k = Len(s))
           /\ fWrite(c, s).spos = c.spos /\ fWrite(c, s).buf = c.buf /\ fWrite(c, s).bpos = c.bpos
           /\ fWrite(c, s).modf = c.modf /\ fWrite(c, s).got = c.got
           /\ Same(fWrite(c, s), c)
<1>1. Len(s) \in Nat /\ c.room \in Nat /\ c.disk \in Seq(Byte) /\ c.kpos \in Nat
  BY DEF Calls
<1>2. PICK k \in Nat : k = Least(Len(s), c.room)
  BY <1>1, LeastOf
<1>3. k <= Len(s) /\ k <= c.room
  BY <1>1, <1>2, LeastOf
<1>4. PICK t \in Seq(Byte) : t = SubSeq(s, 1, k)
  <2>1. k \in 0..Len(s)
    BY <1>1, <1>3
  <2>2. QED BY <2>1, FirstShape
<1>5. PICK o \in Seq(Byte) : o = Overlay(c.disk, c.kpos, t, Hole)
  BY <1>1, OverlayShape
<1>6. PICK r \in Nat : r = c.room - k
  BY <1>1, <1>3
<1>7. PICK q \in Nat : q = c.kpos + k
  BY <1>1
<1>8. PICK b \in BOOLEAN : b = (k = Len(s))
  OBVIOUS
<1>9. fWrite(c, s) = [c EXCEPT !.disk = o, !.kpos = q, !.room = r, !.ok = b]
  BY <1>2, <1>4, <1>5, <1>6, <1>7, <1>8 DEF fWrite
<1>10. fWrite(c, s) \in Calls
  BY <1>9 DEF Calls
<1>11. PICK f : f = fWrite(c, s)
  OBVIOUS
<1>12. f.disk = o /\ f.kpos = q /\ f.ok = b
  BY <1>9, <1>11 DEF Calls
<1>13. f.spos = c.spos /\ f.buf = c.buf /\ f.bpos = c.bpos /\ f.modf = c.modf /\ f.got = c.got
  BY <1>9, <1>11 DEF Calls
<1>14. Same(f, c)
  BY <1>9, <1>11 DEF Calls, Same
<1>15. k \in 0..Len(s)
  BY <1>1, <1>3
<1>16. o = Overlay(c.disk, c.kpos, SubSeq(s, 1, k), Hole)
  BY <1>4, <1>5
<1>17. QED
  BY <1>7, <1>8, <1>10, <1>11, <1>12, <1>13, <1>14, <1>15, <1>16

LEMMA HeldEmpty == ASSUME NEW s \in Seq(Byte), NEW p \in Nat PROVE Held(s, p, <<>>)
<1>1. PICK b \in Seq(Byte) : b = Bytes(s, p, 0)
  BY BytesShape
<1>2. Len(b) = IF p + 0 <= Len(s) THEN 0 ELSE IF p <= Len(s) THEN Len(s) - p ELSE 0
  BY <1>1, BytesShape
<1>3. Len(s) \in Nat
  OBVIOUS
<1>4. Len(b) = 0
  BY <1>2, <1>3
<1>5. b = <<>> /\ Len(<<>>) = 0
  BY <1>4, EmptySeq
<1>6. QED BY <1>1, <1>5 DEF Held

\* The buffer is emptied, and what was written into it is on the disk; or the device
\* has failed, and the buffer still holds it.
LEMMA bFlushDoes ==
  ASSUME NEW c, Sound(c)
  PROVE  /\ Sound(bFlush(c)) /\ All(bFlush(c)) = All(c) /\ Same(bFlush(c), c)
         /\ bFlush(c).got = c.got
         /\ bFlush(c).ok =>
              /\ ~bFlush(c).modf /\ bFlush(c).disk = All(c)
              /\ bFlush(c).buf = <<>> /\ bFlush(c).bpos = 0
              /\ c.modf => bFlush(c).kpos = c.spos + Len(c.buf) /\ bFlush(c).spos = c.spos + Len(c.buf)
              /\ ~c.modf => bFlush(c).kpos = c.kpos /\ bFlush(c).spos = c.spos
         /\ ~bFlush(c).ok =>
              /\ c.modf /\ bFlush(c).modf
              /\ bFlush(c).spos = c.spos /\ bFlush(c).buf = c.buf /\ bFlush(c).bpos = c.bpos
<1>1. /\ c \in Calls /\ c.disk \in Seq(Byte) /\ c.kpos \in Nat /\ c.spos \in Nat
      /\ c.buf \in Seq(Byte) /\ c.modf \in BOOLEAN /\ c.bpos \in Nat
      /\ Len(c.buf) \in Nat /\ Len(c.buf) <= BUFSIZE /\ c.bpos <= Len(c.buf)
      /\ BUFSIZE \in Nat
  BY DeviceAssumption DEF Sound, Calls
<1>2. <<>> \in Seq(Byte) /\ Len(<<>>) = 0 /\ 0 \in Nat
  BY EmptySeq
<1>3. PICK z : z = bFlush(c)
  OBVIOUS
<1>4. CASE ~c.modf
  <2>1. z = [c EXCEPT !.buf = <<>>, !.bpos = 0, !.ok = TRUE]
    BY <1>3, <1>4 DEF bFlush
  <2>2. z \in Calls
    BY <1>1, <1>2, <2>1 DEF Calls
  <2>3. z.disk = c.disk /\ z.kpos = c.kpos /\ z.spos = c.spos /\ z.buf = <<>> /\ z.bpos = 0
    BY <1>1, <2>1 DEF Calls
  <2>4. z.modf = c.modf /\ z.got = c.got /\ z.ok = TRUE
    BY <1>1, <2>1 DEF Calls
  <2>5. Same(z, c)
    BY <1>1, <2>1 DEF Calls, Same
  <2>6. Held(z.disk, z.spos, z.buf)
    BY <1>1, <2>3, HeldEmpty
  <2>7. Len(z.buf) = 0 /\ z.bpos = 0
    BY <1>2, <2>3
  <2>8. Sound(z)
    BY <1>1, <2>2, <2>6, <2>7 DEF Sound
  <2>9. All(z) = All(c) /\ All(c) = z.disk
    BY <1>4, <2>3, <2>4 DEF All
  <2>10. QED BY <1>3, <1>4, <2>3, <2>4, <2>5, <2>8, <2>9
<1>5. CASE c.modf
  <2>1. PICK e : e = [c EXCEPT !.kpos = c.spos]
    OBVIOUS
  <2>2. e \in Calls
    BY <1>1, <2>1 DEF Calls
  <2>3. e.disk = c.disk /\ e.kpos = c.spos /\ e.spos = c.spos /\ e.buf = c.buf /\ e.bpos = c.bpos
    BY <1>1, <2>1 DEF Calls
  <2>4. e.modf = c.modf /\ e.got = c.got
    BY <1>1, <2>1 DEF Calls
  <2>5. Same(e, c)
    BY <1>1, <2>1 DEF Calls, Same
  <2>6. PICK w : w = fWrite(e, c.buf)
    OBVIOUS
  <2>7. PICK k \in 0..Len(c.buf) :
           /\ w \in Calls
           /\ w.disk = Overlay(e.disk, e.kpos, SubSeq(c.buf, 1, k), Hole)
           /\ w.kpos = e.kpos + k
           /\ w.ok = (k = Len(c.buf))
           /\ w.spos = e.spos /\ w.buf = e.buf /\ w.bpos = e.bpos
           /\ w.modf = e.modf /\ w.got = e.got
           /\ Same(w, e)
    BY <1>1, <2>2, <2>6, fWriteDoes
  <2>8. Same(w, c)
    BY <2>5, <2>7 DEF Same
  <2>9. All(c) = Overlay(c.disk, c.spos, c.buf, Hole)
    BY <1>5 DEF All
  <2>10. CASE ~w.ok
    <3>1. z = w
      BY <1>3, <1>5, <2>1, <2>6, <2>10 DEF bFlush
    <3>2. w.spos = c.spos /\ w.buf = c.buf /\ w.bpos = c.bpos /\ w.got = c.got /\ w.modf
      BY <1>5, <2>3, <2>4, <2>7
    <3>3. Sound(w)
      BY <1>1, <2>7, <3>2 DEF Sound
    <3>4. w.disk = Overlay(c.disk, c.spos, SubSeq(c.buf, 1, k), Hole)
      BY <2>3, <2>7
    <3>5. All(w) = Overlay(w.disk, c.spos, c.buf, Hole)
      BY <3>2 DEF All
    <3>6. All(w) = All(c)
      BY <1>1, <2>9, <3>4, <3>5, OverlayPrefix
    <3>7. QED BY <1>3, <1>5, <2>8, <2>10, <3>1, <3>2, <3>3, <3>6
  <2>11. CASE w.ok
    <3>1. z = [w EXCEPT !.spos = w.kpos, !.modf = FALSE, !.buf = <<>>, !.bpos = 0]
      BY <1>3, <1>5, <2>1, <2>6, <2>11 DEF bFlush
    <3>2. w \in Calls /\ w.kpos \in Nat /\ w.disk \in Seq(Byte)
      BY <2>7 DEF Calls
    <3>3. z \in Calls
      BY <3>1, <3>2, <1>2 DEF Calls
    <3>4. z.disk = w.disk /\ z.kpos = w.kpos /\ z.spos = w.kpos /\ z.buf = <<>> /\ z.bpos = 0
      BY <3>1, <3>2 DEF Calls
    <3>5. z.modf = FALSE /\ z.got = w.got /\ z.ok = w.ok
      BY <3>1, <3>2 DEF Calls
    <3>6. Same(z, w)
      BY <3>1, <3>2 DEF Calls, Same
    <3>7. Same(z, c)
      BY <3>6, <2>8 DEF Same
    <3>8. SubSeq(c.buf, 1, k) = c.buf /\ w.kpos = c.spos + Len(c.buf)
      <4>1. k = Len(c.buf)
        BY <2>7, <2>11
      <4>2. QED BY <4>1, <1>1, <2>3, <2>7, SubSeqFull
    <3>9. z.disk = All(c)
      BY <2>3, <2>7, <2>9, <3>4, <3>8
    <3>10. Held(z.disk, z.spos, z.buf)
      BY <3>2, <3>4, HeldEmpty
    <3>11. Len(z.buf) = 0 /\ z.bpos = 0
      BY <1>2, <3>4
    <3>12. Sound(z)
      BY <1>1, <3>3, <3>10, <3>11 DEF Sound
    <3>13. All(z) = All(c)
      BY <3>5, <3>9 DEF All
    <3>14. QED BY <1>3, <1>5, <2>4, <2>7, <2>11, <3>4, <3>5, <3>7, <3>8, <3>9, <3>12, <3>13
  <2>12. w.ok \in BOOLEAN
    BY <2>7
  <2>13. QED BY <2>10, <2>11
<1>6. QED BY <1>4, <1>5

\* A read of what a longer read obtains.
LEMMA BytesCut ==
  ASSUME NEW s \in Seq(Byte), NEW p \in Nat, NEW b \in Nat, NEW n \in 0..b
  PROVE  Bytes(s, p, Least(n, Len(Bytes(s, p, b)))) = Bytes(s, p, n)
<1>1. n \in Nat /\ n <= b /\ Len(s) \in Nat
  OBVIOUS
<1>2. PICK l \in Nat : l = Len(Bytes(s, p, b))
  <2>1. Bytes(s, p, b) \in Seq(Byte)
    BY BytesShape
  <2>2. Len(Bytes(s, p, b)) \in Nat
    BY <2>1
  <2>3. QED BY <2>2
<1>3. l = IF p + b <= Len(s) THEN b ELSE IF p <= Len(s) THEN Len(s) - p ELSE 0
  BY <1>2, BytesShape
<1>4. CASE n <= l
  BY <1>1, <1>2, <1>4 DEF Least
<1>5. CASE l < n
  <2>1. Least(n, l) = l
    BY <1>1, <1>5 DEF Least
  <2>2. l \in 0..n
    BY <1>1, <1>5
  <2>3. l \in 0..Len(Bytes(s, p, b))
    BY <1>2
  <2>4. Len(Bytes(s, p, l)) = l
    BY <2>3, BytesPrefix
  <2>5. PICK u \in Seq(Byte) : u = Bytes(s, p, n)
    BY <1>1, BytesShape
  <2>6. PICK v \in Seq(Byte) : v = Bytes(s, p, l)
    BY BytesShape
  <2>7. /\ \A i \in 1..Len(u) : u[i] = s[p + i]
        /\ Len(u) = IF p + n <= Len(s) THEN n ELSE IF p <= Len(s) THEN Len(s) - p ELSE 0
    <3>1. Read(s, p, n, u)
      BY <1>1, <2>5 DEF Read
    <3>2. QED BY <3>1, ReadShape
  <2>8. /\ \A i \in 1..Len(v) : v[i] = s[p + i]
        /\ Len(v) = l
    BY <2>4, <2>6, BytesShape
  <2>9. Len(u) = l
    BY <1>1, <1>3, <1>5, <2>7
  <2>10. u = v
    BY <2>7, <2>8, <2>9, SeqEqual
  <2>11. QED BY <1>2, <2>1, <2>5, <2>6, <2>10
<1>6. QED BY <1>1, <1>4, <1>5

\* The file shows what the buffer holds.
LEMMA AllHolds ==
  ASSUME NEW c, Sound(c)
  PROVE  /\ All(c) \in Seq(Byte) /\ Held(All(c), c.spos, c.buf)
         /\ All(c) = Overlay(c.disk, c.spos, c.buf, Hole)
<1>1. c.disk \in Seq(Byte) /\ c.spos \in Nat /\ c.buf \in Seq(Byte) /\ c.modf \in BOOLEAN
  BY DEF Sound, Calls
<1>2. CASE c.modf
  BY <1>1, <1>2, OverlayShape, OverlayHolds DEF All
<1>3. CASE ~c.modf
  <2>1. Held(c.disk, c.spos, c.buf)
    BY <1>3 DEF Sound
  <2>2. Overlay(c.disk, c.spos, c.buf, Hole) = c.disk
    BY <1>1, <2>1, OverlayHeld
  <2>3. QED BY <1>1, <1>3, <2>1, <2>2 DEF All
<1>4. QED BY <1>2, <1>3

\* What is taken from the buffer is what the file has at the position.
LEMMA FromBufferDoes ==
  ASSUME NEW c, Sound(c), NEW n \in Nat
  PROVE  \E k \in 0..n :
           /\ k = Least(n, Len(c.buf) - c.bpos)
           /\ Sound(FromBuffer(c, n)) /\ All(FromBuffer(c, n)) = All(c) /\ Same(FromBuffer(c, n), c)
           /\ FromBuffer(c, n).ok
           /\ FromBuffer(c, n).got = c.got \o Bytes(All(c), At(c), k)
           /\ Len(Bytes(All(c), At(c), k)) = k
           /\ FromBuffer(c, n).bpos = c.bpos + k
           /\ FromBuffer(c, n).disk = c.disk /\ FromBuffer(c, n).kpos = c.kpos
           /\ FromBuffer(c, n).spos = c.spos /\ FromBuffer(c, n).buf = c.buf
           /\ FromBuffer(c, n).modf = c.modf
<1>1. /\ c \in Calls /\ c.spos \in Nat /\ c.buf \in Seq(Byte) /\ c.bpos \in Nat /\ c.got \in Seq(Byte)
      /\ Len(c.buf) \in Nat /\ c.bpos <= Len(c.buf) /\ Len(c.buf) - c.bpos \in Nat
  <2>1. /\ c \in Calls /\ c.spos \in Nat /\ c.buf \in Seq(Byte) /\ c.bpos \in Nat /\ c.got \in Seq(Byte)
        /\ c.bpos <= Len(c.buf)
    BY DEF Sound, Calls
  <2>2. QED BY <2>1
<1>2. PICK k \in Nat : k = Least(n, Len(c.buf) - c.bpos)
  BY <1>1, LeastOf
<1>3. k <= n /\ k <= Len(c.buf) - c.bpos
  BY <1>1, <1>2, LeastOf
<1>4. PICK t \in Seq(Byte) : t = Bytes(c.buf, c.bpos, n)
  BY <1>1, BytesShape
<1>5. c.bpos \in 0..Len(c.buf)
  BY <1>1
<1>6. Len(t) = k /\ t = Bytes(All(c), c.spos + c.bpos, k)
  <2>1. All(c) \in Seq(Byte) /\ Held(All(c), c.spos, c.buf)
    BY AllHolds
  <2>2. PICK a \in Seq(Byte), h \in Seq(Byte), o \in Nat :
          a = All(c) /\ h = c.buf /\ o = c.spos
    BY <1>1, <2>1
  <2>3. PICK q \in 0..Len(h) : q = c.bpos
    BY <1>5, <2>2
  <2>4. Held(a, o, h)
    BY <2>1, <2>2
  <2>5. Len(Bytes(h, q, n)) = Least(n, Len(h) - q)
    BY BytesWithin
  <2>6. Bytes(h, q, n) = Bytes(a, o + q, Least(n, Len(h) - q))
    BY <2>4, HeldBytes
  <2>7. QED BY <1>2, <1>4, <2>2, <2>3, <2>5, <2>6
<1>7. PICK g \in Seq(Byte) : g = c.got \o t
  BY <1>1, ConcatProperties
<1>8. PICK q \in Nat : q = c.bpos + k
  BY <1>1
<1>9. PICK y : y = FromBuffer(c, n)
  OBVIOUS
<1>10. y = [c EXCEPT !.got = g, !.bpos = q, !.ok = TRUE]
  BY <1>4, <1>6, <1>7, <1>8, <1>9 DEF FromBuffer
<1>11. y \in Calls
  BY <1>1, <1>10 DEF Calls
<1>12. y.got = g /\ y.bpos = q /\ y.ok /\ y.disk = c.disk /\ y.kpos = c.kpos
  BY <1>1, <1>10 DEF Calls
<1>13. y.spos = c.spos /\ y.buf = c.buf /\ y.modf = c.modf
  BY <1>1, <1>10 DEF Calls
<1>14. Same(y, c)
  BY <1>1, <1>10 DEF Calls, Same
<1>15. y.bpos <= Len(y.buf)
  <2>1. q <= Len(c.buf)
    BY <1>1, <1>3, <1>8
  <2>2. QED BY <2>1, <1>12, <1>13
<1>16. Sound(y)
  BY <1>11, <1>12, <1>13, <1>15 DEF Sound
<1>17. All(y) = All(c)
  BY <1>12, <1>13 DEF All
<1>18. k \in 0..n
  BY <1>3
<1>19. t = Bytes(All(c), At(c), k) /\ Len(Bytes(All(c), At(c), k)) = k
  BY <1>6 DEF At
<1>20. QED
  BY <1>2, <1>7, <1>8, <1>9, <1>12, <1>13, <1>14, <1>16, <1>17, <1>18, <1>19

LEMMA fReadDoes ==
  ASSUME NEW c \in Calls, NEW n \in Nat
  PROVE  \E m \in 0..Len(Bytes(c.disk, c.kpos, n)) :
           /\ Moved(c, n) = m
           /\ fRead(c, n) \in Calls
           /\ fRead(c, n).kpos = c.kpos + m
           /\ fRead(c, n).ok = (m = Len(Bytes(c.disk, c.kpos, n)))
           /\ fRead(c, n).disk = c.disk /\ fRead(c, n).spos = c.spos /\ fRead(c, n).buf = c.buf
           /\ fRead(c, n).bpos = c.bpos /\ fRead(c, n).modf = c.modf /\ fRead(c, n).got = c.got
           /\ Same(fRead(c, n), c)
           /\ SubSeq(Readable(c, n), 1, m) = Bytes(c.disk, c.kpos, m)
           /\ Len(Bytes(c.disk, c.kpos, m)) = m
<1>1. c.room \in Nat /\ c.disk \in Seq(Byte) /\ c.kpos \in Nat
  BY DEF Calls
<1>2. PICK r \in Seq(Byte) : r = Bytes(c.disk, c.kpos, n)
  BY <1>1, BytesShape
<1>3. PICK l \in Nat : l = Len(r)
  OBVIOUS
<1>4. PICK m \in Nat : m = Least(l, c.room)
  BY <1>1, LeastOf
<1>5. m <= l /\ m <= c.room
  BY <1>1, <1>4, LeastOf
<1>6. Moved(c, n) = m /\ Readable(c, n) = r
  BY <1>2, <1>3, <1>4 DEF Moved, Readable
<1>7. PICK q \in Nat : q = c.kpos + m
  BY <1>1
<1>8. PICK e \in Nat : e = c.room - m
  BY <1>1, <1>5
<1>9. PICK b \in BOOLEAN : b = (m = l)
  OBVIOUS
<1>10. PICK f : f = fRead(c, n)
  OBVIOUS
<1>11. f = [c EXCEPT !.kpos = q, !.room = e, !.ok = b]
  BY <1>3, <1>6, <1>7, <1>8, <1>9, <1>10 DEF fRead
<1>12. f \in Calls
  BY <1>11 DEF Calls
<1>13. f.kpos = q /\ f.ok = b /\ f.disk = c.disk /\ f.spos = c.spos /\ f.buf = c.buf
  BY <1>11 DEF Calls
<1>14. f.bpos = c.bpos /\ f.modf = c.modf /\ f.got = c.got
  BY <1>11 DEF Calls
<1>15. Same(f, c)
  BY <1>11 DEF Calls, Same
<1>16. m \in 0..Len(Bytes(c.disk, c.kpos, n))
  BY <1>2, <1>3, <1>5
<1>17. SubSeq(r, 1, m) = Bytes(c.disk, c.kpos, m) /\ Len(Bytes(c.disk, c.kpos, m)) = m
  BY <1>1, <1>2, <1>16, BytesPrefix
<1>18. QED
  BY <1>2, <1>3, <1>6, <1>7, <1>9, <1>10, <1>12, <1>13, <1>14, <1>15, <1>16, <1>17

\* The buffer is filled at the system's position.
LEMMA FillDoes ==
  ASSUME NEW c \in Calls, NEW n \in 0..BUFSIZE, ~c.modf, c.bpos = 0
  PROVE  /\ Sound(Fill(c, n)) /\ Behind(Fill(c, n)) /\ All(Fill(c, n)) = c.disk /\ Same(Fill(c, n), c)
         /\ Fill(c, n).ok => /\ Fill(c, n).got = c.got \o Bytes(c.disk, c.kpos, n)
                             /\ Fill(c, n).bpos = Len(Bytes(c.disk, c.kpos, n))
                             /\ At(Fill(c, n)) = c.kpos + Len(Bytes(c.disk, c.kpos, n))
         /\ ~Fill(c, n).ok => At(Fill(c, n)) = c.kpos
<1>1. BUFSIZE \in Nat /\ n \in Nat /\ c.disk \in Seq(Byte) /\ c.kpos \in Nat /\ c.modf = FALSE
  BY DeviceAssumption DEF Calls
<1>2. PICK t : t = [c EXCEPT !.spos = c.kpos]
  OBVIOUS
<1>3. t \in Calls
  BY <1>1, <1>2 DEF Calls
<1>4. /\ t.disk = c.disk /\ t.kpos = c.kpos /\ t.spos = c.kpos /\ t.bpos = c.bpos
      /\ t.modf = c.modf /\ t.got = c.got
  BY <1>1, <1>2 DEF Calls
<1>5. Same(t, c)
  BY <1>1, <1>2 DEF Calls, Same
<1>6. PICK f : f = fRead(t, BUFSIZE)
  OBVIOUS
<1>7. PICK m \in 0..Len(Bytes(t.disk, t.kpos, BUFSIZE)) :
           /\ Moved(t, BUFSIZE) = m
           /\ f \in Calls
           /\ f.kpos = t.kpos + m
           /\ f.ok = (m = Len(Bytes(t.disk, t.kpos, BUFSIZE)))
           /\ f.disk = t.disk /\ f.spos = t.spos /\ f.buf = t.buf
           /\ f.bpos = t.bpos /\ f.modf = t.modf /\ f.got = t.got
           /\ Same(f, t)
           /\ SubSeq(Readable(t, BUFSIZE), 1, m) = Bytes(t.disk, t.kpos, m)
           /\ Len(Bytes(t.disk, t.kpos, m)) = m
  BY <1>1, <1>3, <1>6, fReadDoes
<1>8. PICK l \in Nat : l = Len(Bytes(c.disk, c.kpos, BUFSIZE)) /\ l <= BUFSIZE
  <2>1. Bytes(c.disk, c.kpos, BUFSIZE) \in Seq(Byte)
    BY <1>1, BytesShape
  <2>2. PICK l \in Nat : l = Len(Bytes(c.disk, c.kpos, BUFSIZE))
    BY <2>1
  <2>3. Len(c.disk) \in Nat
    BY <1>1
  <2>4. l = IF c.kpos + BUFSIZE <= Len(c.disk) THEN BUFSIZE
            ELSE IF c.kpos <= Len(c.disk) THEN Len(c.disk) - c.kpos ELSE 0
    BY <1>1, <2>2, BytesShape
  <2>5. l <= BUFSIZE
    BY <1>1, <2>3, <2>4
  <2>6. QED BY <2>2, <2>5
<1>9. m \in Nat /\ m <= l
  BY <1>4, <1>7, <1>8
<1>10. PICK b \in Seq(Byte) : b = Bytes(c.disk, c.kpos, m)
  BY <1>1, <1>9, BytesShape
<1>11. Len(b) = m
  BY <1>4, <1>7, <1>10
<1>12. PICK r : r = [f EXCEPT !.buf = b]
  OBVIOUS
<1>13. r \in Calls
  BY <1>7, <1>12 DEF Calls
<1>14. /\ r.disk = c.disk /\ r.kpos = c.kpos + m /\ r.spos = c.kpos /\ r.buf = b /\ r.bpos = 0
       /\ r.modf = FALSE /\ r.got = c.got
  <2>1. r.disk = f.disk /\ r.kpos = f.kpos /\ r.spos = f.spos /\ r.buf = b /\ r.bpos = f.bpos
    BY <1>7, <1>12 DEF Calls
  <2>2. r.modf = f.modf /\ r.got = f.got
    BY <1>7, <1>12 DEF Calls
  <2>3. QED BY <2>1, <2>2, <1>1, <1>4, <1>7
<1>15. r.ok = (m = l)
  <2>1. r.ok = f.ok
    BY <1>7, <1>12 DEF Calls
  <2>2. QED BY <2>1, <1>4, <1>7, <1>8
<1>16. Same(r, c)
  <2>1. Same(r, f)
    BY <1>7, <1>12 DEF Calls, Same
  <2>2. QED BY <2>1, <1>5, <1>7 DEF Same
<1>17. Held(r.disk, r.spos, r.buf)
  BY <1>10, <1>11, <1>14 DEF Held
<1>18. Len(r.buf) <= BUFSIZE /\ r.bpos <= Len(r.buf)
  BY <1>1, <1>8, <1>9, <1>11, <1>14
<1>19. Sound(r)
  BY <1>13, <1>17, <1>18 DEF Sound
<1>20. Behind(r) /\ All(r) = c.disk
  BY <1>11, <1>14 DEF Behind, All
<1>21. r = [fRead(t, BUFSIZE) EXCEPT !.buf = SubSeq(Readable(t, BUFSIZE), 1, Moved(t, BUFSIZE))]
  BY <1>4, <1>6, <1>7, <1>10, <1>12
<1>22. Fill(c, n) = IF r.ok THEN FromBuffer(r, n) ELSE r
  BY <1>2, <1>21 DEF Fill
<1>23. CASE ~r.ok
  <2>1. At(r) = c.kpos
    BY <1>1, <1>14 DEF At
  <2>2. QED BY <1>16, <1>19, <1>20, <1>22, <1>23, <2>1
<1>24. CASE r.ok
  <2>1. m = l
    BY <1>15, <1>24
  <2>2. PICK y : y = FromBuffer(r, n)
    OBVIOUS
  <2>3. PICK k \in 0..n :
           /\ k = Least(n, Len(r.buf) - r.bpos)
           /\ Sound(y) /\ All(y) = All(r) /\ Same(y, r)
           /\ y.ok
           /\ y.got = r.got \o Bytes(All(r), At(r), k)
           /\ Len(Bytes(All(r), At(r), k)) = k
           /\ y.bpos = r.bpos + k
           /\ y.disk = r.disk /\ y.kpos = r.kpos
           /\ y.spos = r.spos /\ y.buf = r.buf
           /\ y.modf = r.modf
    BY <1>1, <1>19, <2>2, FromBufferDoes
  <2>4. At(r) = c.kpos /\ Len(r.buf) - r.bpos = l /\ k \in Nat
    BY <1>1, <1>8, <1>11, <1>14, <2>1 DEF At
  <2>5. Bytes(c.disk, c.kpos, k) = Bytes(c.disk, c.kpos, n)
    <3>1. k = Least(n, Len(Bytes(c.disk, c.kpos, BUFSIZE)))
      BY <1>8, <2>3, <2>4
    <3>2. QED BY <1>1, <3>1, BytesCut
  <2>6. y.got = c.got \o Bytes(c.disk, c.kpos, n) /\ Len(Bytes(c.disk, c.kpos, n)) = k
    BY <1>14, <1>20, <2>3, <2>4, <2>5
  <2>7. y.bpos = k /\ At(y) = c.kpos + k
    BY <1>1, <1>14, <2>3, <2>4 DEF At
  <2>8. Behind(y)
    BY <1>20, <2>3 DEF Behind
  <2>9. Same(y, c)
    BY <1>16, <2>3 DEF Same
  <2>10. QED BY <1>20, <1>22, <1>24, <2>2, <2>3, <2>6, <2>7, <2>8, <2>9
<1>25. r.ok \in BOOLEAN
  BY <1>15
<1>26. QED BY <1>23, <1>24

\* Whole buffers, when the rest is longer than one.
LEMMA WholeBuffers ==
  ASSUME NEW n \in Nat
  PROVE  /\ Whole(n) \in 0..n /\ n - Whole(n) \in 0..BUFSIZE
         /\ Whole(n) # 0 => n > BUFSIZE
<1>1. BUFSIZE \in Nat \ {0}
  BY DeviceAssumption
<1>2. CASE n > BUFSIZE
  <2>1. PICK r \in Int : r = n % BUFSIZE
    BY <1>1
  <2>2. r >= 0 /\ r < BUFSIZE
    BY <1>1, <2>1
  <2>3. Whole(n) = n - r
    BY <1>2, <2>1 DEF Whole
  <2>4. QED BY <1>1, <1>2, <2>2, <2>3
<1>3. CASE ~(n > BUFSIZE)
  BY <1>1, <1>3 DEF Whole
<1>4. QED BY <1>2, <1>3

\* A read that met the end, repeated for what it got.
LEMMA BytesCutShort ==
  ASSUME NEW s \in Seq(Byte), NEW p \in Nat, NEW n \in Nat
  PROVE  Bytes(s, p, Len(Bytes(s, p, n))) = Bytes(s, p, n)
<1>1. PICK r \in Seq(Byte) : r = Bytes(s, p, n)
  BY BytesShape
<1>2. Len(r) \in Nat /\ Len(r) \in 0..Len(Bytes(s, p, n))
  BY <1>1
<1>3. SubSeq(r, 1, Len(r)) = Bytes(s, p, Len(r))
  BY <1>1, <1>2, BytesPrefix
<1>4. SubSeq(r, 1, Len(r)) = r
  BY SubSeqFull
<1>5. QED BY <1>1, <1>3, <1>4

\* Concatenation, for the lemmas that only use what the next two say of it.
Cat(s, t) == s \o t

LEMMA CatAssoc ==
  ASSUME NEW s \in Seq(Byte), NEW t \in Seq(Byte), NEW u \in Seq(Byte)
  PROVE  Cat(Cat(s, t), u) = Cat(s, Cat(t, u))
BY ConcatAssociative DEF Cat

LEMMA CatLen ==
  ASSUME NEW s \in Seq(Byte), NEW t \in Seq(Byte)
  PROVE  Cat(s, t) \in Seq(Byte) /\ Len(Cat(s, t)) = Len(s) + Len(t)
BY ConcatProperties DEF Cat

LEMMA ConcatLen ==
  ASSUME NEW s \in Seq(Byte), NEW t \in Seq(Byte)
  PROVE  s \o t \in Seq(Byte) /\ Len(s \o t) = Len(s) + Len(t)
BY ConcatProperties

\* What has been obtained piece by piece.
Joined(s, p, n, k, o, e) ==
  /\ s \in Seq(Byte) /\ p \in Nat /\ n \in Nat /\ k \in Nat /\ o \in Nat /\ e \in Nat
  /\ o = p + k /\ n = k + e /\ Len(Bytes(s, p, k)) = k

LEMMA BytesJoin ==
  ASSUME NEW s, NEW p, NEW n, NEW k, NEW o, NEW e, Joined(s, p, n, k, o, e)
  PROVE  Bytes(s, p, n) = Cat(Bytes(s, p, k), Bytes(s, o, e))
<1>0. /\ s \in Seq(Byte) /\ p \in Nat /\ n \in Nat /\ k \in Nat /\ o \in Nat /\ e \in Nat
      /\ o = p + k /\ n = k + e /\ Len(Bytes(s, p, k)) = k
  BY DEF Joined
<1>1. k \in 0..n /\ n - k = e
  BY <1>0
<1>2. Bytes(s, p, n) = Bytes(s, p, k) \o Bytes(s, p + k, n - k)
  <2>1. Split(s, p, n, k)
    BY <1>0, <1>1 DEF Split
  <2>2. QED BY <2>1, ReadSplit
<1>3. QED BY <1>0, <1>1, <1>2 DEF Cat

Obtained2(g, s, p, n, k, o, w) ==
  /\ g \in Seq(Byte) /\ s \in Seq(Byte) /\ p \in Nat /\ n \in Nat /\ k \in Nat /\ o \in Nat /\ w \in Nat
  /\ o = p + k /\ k + w <= n /\ Len(Bytes(s, p, k)) = k /\ Len(Bytes(s, o, w)) < w

LEMMA TwoPieces ==
  ASSUME NEW g, NEW s, NEW p, NEW n, NEW k, NEW o, NEW w, Obtained2(g, s, p, n, k, o, w)
  PROVE  /\ Cat(Cat(g, Bytes(s, p, k)), Bytes(s, o, w)) = Cat(g, Bytes(s, p, n))
         /\ Len(Bytes(s, p, n)) = k + Len(Bytes(s, o, w))
<1>0. /\ g \in Seq(Byte) /\ s \in Seq(Byte) /\ p \in Nat /\ n \in Nat /\ k \in Nat /\ o \in Nat /\ w \in Nat
      /\ o = p + k /\ k + w <= n /\ Len(Bytes(s, p, k)) = k /\ Len(Bytes(s, o, w)) < w
  BY DEF Obtained2
<1>1. PICK e \in Nat : n = k + e /\ w <= e
  <2>1. n - k \in Nat /\ n = k + (n - k) /\ w <= n - k
    BY <1>0
  <2>2. QED BY <2>1
<1>2. PICK b \in Seq(Byte) : b = Bytes(s, p, k)
  BY <1>0, BytesShape
<1>3. PICK v \in Seq(Byte) : v = Bytes(s, o, w)
  BY <1>0, BytesShape
<1>4. Bytes(s, o, e) = v
  BY <1>0, <1>1, <1>3, BytesShort
<1>5. Bytes(s, p, n) = Cat(Bytes(s, p, k), Bytes(s, o, e))
  <2>1. Joined(s, p, n, k, o, e)
    BY <1>0, <1>1 DEF Joined
  <2>2. QED BY <2>1, BytesJoin
<1>6. Bytes(s, p, n) = Cat(b, v)
  BY <1>2, <1>4, <1>5
<1>7. Cat(Cat(g, b), v) = Cat(g, Cat(b, v))
  BY <1>0, CatAssoc
<1>8. Len(Cat(b, v)) = Len(b) + Len(v)
  BY <1>0, CatLen
<1>9. QED BY <1>0, <1>2, <1>3, <1>6, <1>7, <1>8

Obtained3(g, s, p, n, k, o, w, q, e) ==
  /\ g \in Seq(Byte) /\ s \in Seq(Byte) /\ p \in Nat /\ n \in Nat /\ k \in Nat /\ o \in Nat /\ w \in Nat
  /\ q \in Nat /\ e \in Nat
  /\ o = p + k /\ q = o + w /\ n = k + w + e /\ Len(Bytes(s, p, k)) = k /\ Len(Bytes(s, o, w)) = w

LEMMA ThreePieces ==
  ASSUME NEW g, NEW s, NEW p, NEW n, NEW k, NEW o, NEW w, NEW q, NEW e,
         Obtained3(g, s, p, n, k, o, w, q, e)
  PROVE  /\ Cat(Cat(Cat(g, Bytes(s, p, k)), Bytes(s, o, w)), Bytes(s, q, e)) = Cat(g, Bytes(s, p, n))
         /\ p + Len(Bytes(s, p, n)) = q + Len(Bytes(s, q, e))
<1>0. /\ g \in Seq(Byte) /\ s \in Seq(Byte) /\ p \in Nat /\ n \in Nat /\ k \in Nat /\ o \in Nat /\ w \in Nat
      /\ q \in Nat /\ e \in Nat
      /\ o = p + k /\ q = o + w /\ n = k + w + e /\ Len(Bytes(s, p, k)) = k /\ Len(Bytes(s, o, w)) = w
  BY DEF Obtained3
<1>1. PICK f \in Nat : f = w + e
  BY <1>0
<1>2. PICK b \in Seq(Byte) : b = Bytes(s, p, k)
  BY <1>0, BytesShape
<1>3. PICK v \in Seq(Byte) : v = Bytes(s, o, w)
  BY <1>0, BytesShape
<1>4. PICK x \in Seq(Byte) : x = Bytes(s, q, e)
  BY <1>0, BytesShape
<1>5. Bytes(s, o, f) = Cat(Bytes(s, o, w), Bytes(s, q, e))
  <2>1. Joined(s, o, f, w, q, e)
    BY <1>0, <1>1 DEF Joined
  <2>2. QED BY <2>1, BytesJoin
<1>6. Joined(s, p, n, k, o, f)
  BY <1>0, <1>1 DEF Joined
<1>7. Bytes(s, p, n) = Cat(Bytes(s, p, k), Bytes(s, o, f))
  BY <1>6, BytesJoin
<1>8. PICK y \in Seq(Byte) : y = Cat(v, x) /\ Len(y) = Len(v) + Len(x)
  BY <1>0, CatLen
<1>9. Bytes(s, p, n) = Cat(b, y)
  BY <1>2, <1>3, <1>4, <1>5, <1>7, <1>8
<1>10. Cat(Cat(Cat(g, b), v), x) = Cat(g, Cat(b, y))
  <2>1. PICK h \in Seq(Byte) : h = Cat(g, b)
    BY <1>0, CatLen
  <2>2. Cat(Cat(h, v), x) = Cat(h, Cat(v, x))
    BY <1>0, CatAssoc
  <2>3. Cat(Cat(g, b), y) = Cat(g, Cat(b, y))
    BY <1>0, CatAssoc
  <2>4. QED BY <1>8, <2>1, <2>2, <2>3
<1>11. Len(Cat(b, y)) = Len(b) + Len(y) /\ Len(b) = k /\ Len(v) = w /\ Len(x) \in Nat
  <2>1. Len(Cat(b, y)) = Len(b) + Len(y)
    BY <1>0, CatLen
  <2>2. Len(b) = k /\ Len(v) = w
    BY <1>0, <1>2, <1>3
  <2>3. QED BY <2>1, <2>2
<1>12. Len(Bytes(s, p, n)) = k + w + Len(x)
  <2>1. Len(Bytes(s, p, n)) = k + (w + Len(x))
    BY <1>8, <1>9, <1>11
  <2>2. QED BY <1>11, <2>1
<1>13. p + Len(Bytes(s, p, n)) = q + Len(x)
  <2>1. PICK l \in Nat : l = Len(x)
    BY <1>11
  <2>2. p \in Nat /\ k \in Nat /\ w \in Nat /\ q = p + k + w
    BY <1>0
  <2>3. p + (k + w + l) = q + l
    BY <2>2
  <2>4. QED BY <1>12, <2>1, <2>3
<1>14. QED BY <1>2, <1>3, <1>4, <1>9, <1>10, <1>13

\* What a read has done to d, that was c.
Has(d, c, n) == d.got = c.got \o Bytes(All(c), At(c), n)
Took(c, n) == Len(Bytes(All(c), At(c), n))

ReadRight(d, c, n) ==
  /\ Sound(d) /\ All(d) = All(c) /\ d.ubuf = c.ubuf
  /\ ~d.lost => Behind(d)
  /\ d.lost => n > BUFSIZE /\ d.buf = <<>>
  /\ d.ok /\ d.lost => Has(d, c, n) /\ Took(c, n) < n
  /\ d.ok /\ ~d.lost => /\ Has(d, c, n) /\ At(d) = At(c) + Took(c, n)
                        /\ n = 1 /\ Took(c, n) = 1 => d.bpos > 0
  /\ ~d.ok /\ ~d.lost => At(d) \in At(c)..At(c) + n /\ (n = 1 => At(d) = At(c))

\* A read across the end of the buffer gets what the file has, unless the device fails.
LEMMA bReadDoes ==
  ASSUME NEW c, Sound(c), Behind(c), ~c.lost, NEW n \in Nat
  PROVE  ReadRight(bRead(c, n), c, n)
<1>1. /\ BUFSIZE \in Nat /\ BUFSIZE > 0
      /\ c \in Calls /\ c.spos \in Nat /\ c.buf \in Seq(Byte) /\ c.bpos \in Nat /\ c.got \in Seq(Byte)
      /\ Len(c.buf) \in Nat /\ c.bpos <= Len(c.buf) /\ Len(c.buf) - c.bpos \in Nat
      /\ c.lost = FALSE
  <2>1. /\ c \in Calls /\ c.spos \in Nat /\ c.buf \in Seq(Byte) /\ c.bpos \in Nat /\ c.got \in Seq(Byte)
        /\ c.bpos <= Len(c.buf) /\ c.lost \in BOOLEAN
    BY DEF Sound, Calls
  <2>2. Len(c.buf) \in Nat
    BY <2>1
  <2>3. QED BY <2>1, <2>2, DeviceAssumption
<1>a. PICK cs \in Nat, cl \in Nat, cp \in Nat, cg \in Seq(Byte) :
        cs = c.spos /\ cl = Len(c.buf) /\ cp = c.bpos /\ cg = c.got
  BY <1>1
<1>2. PICK a \in Seq(Byte), p \in Nat : a = All(c) /\ p = At(c) /\ p = cs + cp
  <2>1. All(c) \in Seq(Byte)
    BY AllHolds
  <2>2. At(c) = cs + cp
    BY <1>a DEF At
  <2>3. PICK p \in Nat : p = cs + cp
    OBVIOUS
  <2>4. QED BY <2>1, <2>2, <2>3
<1>b. cp <= cl /\ cl - cp \in Nat
  BY <1>1, <1>a
<1>3. PICK y : y = FromBuffer(c, n)
  OBVIOUS
<1>4. PICK k \in 0..n :
           /\ k = Least(n, Len(c.buf) - c.bpos)
           /\ Sound(y) /\ All(y) = All(c) /\ Same(y, c)
           /\ y.ok
           /\ y.got = c.got \o Bytes(All(c), At(c), k)
           /\ Len(Bytes(All(c), At(c), k)) = k
           /\ y.bpos = c.bpos + k
           /\ y.disk = c.disk /\ y.kpos = c.kpos
           /\ y.spos = c.spos /\ y.buf = c.buf
           /\ y.modf = c.modf
  BY <1>3, FromBufferDoes
<1>5. k \in Nat /\ k <= n /\ n - k \in Nat /\ p + k \in Nat
  OBVIOUS
<1>6. PICK b \in Seq(Byte) : b = Bytes(a, p, k)
  BY <1>5, BytesShape
<1>7. y.got = c.got \o b /\ Len(b) = k
  BY <1>2, <1>4, <1>6
<1>8. PICK t \in Seq(Byte) : t = Bytes(a, p, n)
  BY BytesShape
<1>9. t = b \o Bytes(a, p + k, n - k)
  <2>1. Len(Bytes(a, p, k)) = k
    BY <1>2, <1>4
  <2>2. Bytes(a, p, n) = Bytes(a, p, k) \o Bytes(a, p + k, n - k)
    <3>1. PICK o \in Nat, e \in Nat : o = p + k /\ e = n - k
      BY <1>5
    <3>2. n = k + e
      BY <1>5, <3>1
    <3>3. Joined(a, p, n, k, o, e)
      BY <1>5, <2>1, <3>1, <3>2 DEF Joined
    <3>4. Bytes(a, p, n) = Cat(Bytes(a, p, k), Bytes(a, o, e))
      BY <3>3, BytesJoin
    <3>5. QED BY <3>1, <3>4 DEF Cat
  <2>3. QED BY <1>6, <1>8, <2>2
<1>10. n - (Len(y.got) - Len(c.got)) = n - k
  <2>1. Len(cg) \in Nat
    OBVIOUS
  <2>2. Len(cg \o b) = Len(cg) + Len(b)
    BY CatLen DEF Cat
  <2>3. Len(y.got) = Len(cg) + k
    BY <1>7, <1>a, <2>2
  <2>4. Len(y.got) - Len(cg) = k
    BY <1>5, <2>1, <2>3
  <2>5. QED BY <1>a, <2>4
<1>11. y.lost = FALSE /\ y.ubuf = c.ubuf /\ At(y) = p + k
  <2>1. y.lost = FALSE /\ y.ubuf = c.ubuf
    BY <1>1, <1>4 DEF Same
  <2>2. At(y) = cs + (cp + k)
    BY <1>4, <1>a DEF At
  <2>3. cs + (cp + k) = p + k
    BY <1>2, <1>5
  <2>4. QED BY <2>1, <2>2, <2>3
<1>12. CASE n - k = 0
  <2>1. n = k /\ p + n = p + k
    BY <1>5, <1>12
  <2>2. bRead(c, n) = y
    BY <1>3, <1>10, <1>12 DEF bRead
  <2>3. Has(y, c, n) /\ Took(c, n) = n
    BY <1>2, <1>4, <2>1 DEF Has, Took
  <2>4. Behind(y)
    BY <1>4 DEF Behind
  <2>5. n = 1 => y.bpos > 0
    <3>1. y.bpos = cp + k
      BY <1>4, <1>a
    <3>2. QED BY <2>1, <3>1
  <2>6. QED BY <1>2, <1>4, <1>11, <2>1, <2>2, <2>3, <2>4, <2>5 DEF ReadRight
<1>13. CASE n - k # 0
  <2>1. k = cl - cp /\ k < n
    <3>1. k = Least(n, cl - cp)
      BY <1>4, <1>a
    <3>2. k # n
      BY <1>5, <1>13
    <3>3. QED BY <1>b, <1>5, <3>1, <3>2 DEF Least
  <2>2. y.bpos = Len(c.buf) /\ p + k = c.spos + Len(c.buf)
    <3>1. cp + k = cl /\ p + k = cs + cl
      BY <1>2, <1>b, <2>1
    <3>2. QED BY <1>4, <1>a, <3>1
  <2>3. PICK z : z = bFlush(y)
    OBVIOUS
  <2>4. /\ Sound(z) /\ All(z) = All(y) /\ Same(z, y)
        /\ z.got = y.got
        /\ z.ok =>
              /\ ~z.modf /\ z.disk = All(y)
              /\ z.buf = <<>> /\ z.bpos = 0
              /\ y.modf => z.kpos = y.spos + Len(y.buf) /\ z.spos = y.spos + Len(y.buf)
              /\ ~y.modf => z.kpos = y.kpos /\ z.spos = y.spos
        /\ ~z.ok =>
              /\ y.modf /\ z.modf
              /\ z.spos = y.spos /\ z.buf = y.buf /\ z.bpos = y.bpos
    BY <1>4, <2>3, bFlushDoes
  <2>5. z.lost = FALSE /\ z.ubuf = c.ubuf
    BY <1>11, <2>4 DEF Same
  <2>6. z \in Calls /\ z.ok \in BOOLEAN /\ z.modf \in BOOLEAN
    BY <2>4 DEF Sound, Calls
  <2>7. CASE ~z.ok
    <3>1. bRead(c, n) = z
      BY <1>3, <1>10, <1>13, <2>3, <2>7 DEF bRead
    <3>2. At(z) = p + k
      BY <1>11, <2>4, <2>7 DEF At
    <3>3. Behind(z)
      BY <2>4, <2>7 DEF Behind
    <3>4. At(z) \in p..p + n /\ (n = 1 => At(z) = p)
      BY <1>5, <2>1, <3>2
    <3>5. QED BY <1>2, <1>4, <2>4, <2>5, <2>7, <3>1, <3>3, <3>4 DEF ReadRight
  <2>8. CASE z.ok
    <3>1. z.kpos = p + k /\ z.disk = a /\ z.modf = FALSE /\ z.buf = <<>> /\ z.bpos = 0
      <4>1. y.modf => z.kpos = p + k
        BY <1>4, <2>2, <2>4, <2>8
      <4>2. ~y.modf => z.kpos = p + k
        BY <1>4, <2>2, <2>4, <2>8 DEF Behind
      <4>3. QED BY <1>2, <1>4, <2>4, <2>6, <2>8, <4>1, <4>2
    <3>2. PICK w \in Nat : w = Whole(n - k) /\ w <= n - k /\ n - k - w \in 0..BUFSIZE /\ (w # 0 => n - k > BUFSIZE)
      <4>1. PICK e \in Nat : e = n - k
        BY <1>5
      <4>2. Whole(e) \in 0..e /\ e - Whole(e) \in 0..BUFSIZE /\ (Whole(e) # 0 => e > BUFSIZE)
        BY WholeBuffers
      <4>3. PICK w \in Nat : w = Whole(e)
        BY <4>2
      <4>4. w <= e /\ e - w \in 0..BUFSIZE /\ (w # 0 => e > BUFSIZE)
        BY <4>2, <4>3
      <4>5. QED BY <4>1, <4>3, <4>4
    <3>3. PICK f : f = fRead(z, w)
      OBVIOUS
    <3>4. PICK m \in 0..Len(Bytes(z.disk, z.kpos, w)) :
           /\ Moved(z, w) = m
           /\ f \in Calls
           /\ f.kpos = z.kpos + m
           /\ f.ok = (m = Len(Bytes(z.disk, z.kpos, w)))
           /\ f.disk = z.disk /\ f.spos = z.spos /\ f.buf = z.buf
           /\ f.bpos = z.bpos /\ f.modf = z.modf /\ f.got = z.got
           /\ Same(f, z)
           /\ SubSeq(Readable(z, w), 1, m) = Bytes(z.disk, z.kpos, m)
           /\ Len(Bytes(z.disk, z.kpos, m)) = m
      BY <2>6, <3>3, fReadDoes
    <3>5. PICK u \in Seq(Byte) : u = Bytes(a, p + k, w)
      BY <1>5, BytesShape
    <3>6. PICK l \in Nat : l = Len(u)
      OBVIOUS
    <3>7. m \in Nat /\ m <= l /\ f.ok = (m = l)
      BY <3>1, <3>4, <3>5, <3>6
    <3>8. l <= w
      <4>1. Len(u) = IF p + k + w <= Len(a) THEN w ELSE IF p + k <= Len(a) THEN Len(a) - (p + k) ELSE 0
        BY <1>5, <3>5, BytesShape
      <4>2. Len(a) \in Nat
        OBVIOUS
      <4>3. QED BY <1>5, <3>6, <4>1, <4>2
    <3>9. PICK v \in Seq(Byte) : v = Bytes(a, p + k, m)
      BY <1>5, <3>7, BytesShape
    <3>10. SubSeq(Readable(z, w), 1, m) = v /\ Len(v) = m
      BY <3>1, <3>4, <3>9
    <3>11. PICK g \in Seq(Byte) : g = (c.got \o b) \o v
      <4>1. c.got \o b \in Seq(Byte)
        BY <1>1, ConcatProperties
      <4>2. QED BY <4>1, ConcatProperties
    <3>12. PICK r : r = [f EXCEPT !.got = g]
      OBVIOUS
    <3>13. r = [fRead(z, w) EXCEPT !.got = @ \o SubSeq(Readable(z, w), 1, Moved(z, w))]
      <4>1. f.got = c.got \o b
        BY <1>7, <2>4, <3>4
      <4>2. QED BY <3>3, <3>4, <3>10, <3>11, <3>12, <4>1
    <3>14. r \in Calls /\ r.got = g
      BY <3>4, <3>12 DEF Calls
    <3>15. r.disk = a /\ r.kpos = p + k + m /\ r.buf = <<>> /\ r.bpos = 0 /\ r.modf = FALSE
      <4>1. r.disk = f.disk /\ r.kpos = f.kpos /\ r.buf = f.buf /\ r.bpos = f.bpos /\ r.modf = f.modf
        BY <3>4, <3>12 DEF Calls
      <4>2. QED BY <3>1, <3>4, <4>1
    <3>16. r.ok = (m = l) /\ r.lost = FALSE /\ r.ubuf = c.ubuf
      <4>1. r.ok = f.ok /\ r.lost = f.lost /\ r.ubuf = f.ubuf
        BY <3>4, <3>12 DEF Calls
      <4>2. QED BY <2>5, <3>4, <3>7, <4>1 DEF Same
    <3>17. CASE m # l \/ m # w
      <4>1. PICK d : d = [r EXCEPT !.lost = TRUE]
        OBVIOUS
      <4>2. bRead(c, n) = d
        <5>1. ~r.ok \/ Moved(z, w) # w
          BY <3>4, <3>16, <3>17
        <5>2. QED BY <1>3, <1>10, <1>13, <2>3, <2>8, <3>2, <3>13, <4>1, <5>1 DEF bRead
      <4>3. d \in Calls /\ d.got = g /\ d.disk = a /\ d.buf = <<>> /\ d.bpos = 0 /\ d.modf = FALSE
        <5>1. d \in Calls
          BY <3>14, <4>1 DEF Calls
        <5>2. d.got = r.got /\ d.disk = r.disk /\ d.buf = r.buf /\ d.bpos = r.bpos /\ d.modf = r.modf
          BY <3>14, <4>1 DEF Calls
        <5>3. QED BY <3>14, <3>15, <5>1, <5>2
      <4>4. d.ok = (m = l) /\ d.lost = TRUE /\ d.ubuf = c.ubuf
        <5>1. d.ok = r.ok /\ d.ubuf = r.ubuf /\ d.lost = TRUE
          BY <3>14, <4>1 DEF Calls
        <5>2. QED BY <3>16, <5>1
      <4>5. Held(d.disk, d.spos, d.buf)
        BY <4>3, HeldEmpty DEF Calls
      <4>6. Len(d.buf) = 0
        BY <4>3, EmptySeq
      <4>7. Sound(d)
        BY <1>1, <4>3, <4>5, <4>6 DEF Sound
      <4>8. All(d) = All(c)
        BY <1>2, <4>3 DEF All
      <4>9. n > BUFSIZE
        <5>1. w # 0
          BY <3>7, <3>8, <3>17
        <5>2. PICK e \in Nat : e = n - k /\ e <= n
          BY <1>5
        <5>3. e > BUFSIZE
          BY <3>2, <5>1, <5>2
        <5>4. BUFSIZE \in Nat
          BY DeviceAssumption
        <5>5. QED BY <5>2, <5>3, <5>4
      <4>10. ASSUME m = l PROVE Has(d, c, n) /\ Took(c, n) < n
        <5>1. l < w
          BY <3>7, <3>8, <3>17, <4>10
        <5>2. w \in 0..n - k
          BY <1>5, <3>2
        <5>3. u = v /\ m = l
          BY <3>5, <3>6, <3>9, <4>10, <5>1, BytesCutShort
        <5>a. PICK o \in Nat : o = p + k
          BY <1>5
        <5>4. Len(Bytes(a, p, k)) = k /\ Len(Bytes(a, o, w)) < w
          BY <1>2, <1>4, <3>5, <3>6, <5>1, <5>a
        <5>b. k + w <= n
          BY <1>5, <5>2
        <5>c. k \in Nat
          BY <1>5
        <5>d. /\ Cat(Cat(cg, Bytes(a, p, k)), Bytes(a, o, w)) = Cat(cg, Bytes(a, p, n))
              /\ Len(Bytes(a, p, n)) = k + Len(Bytes(a, o, w))
          <6>1. Obtained2(cg, a, p, n, k, o, w)
            BY <5>4, <5>a, <5>b, <5>c DEF Obtained2
          <6>2. QED BY <6>1, TwoPieces
        <5>5. /\ (cg \o Bytes(a, p, k)) \o Bytes(a, p + k, w) = cg \o Bytes(a, p, n)
              /\ Len(Bytes(a, p, n)) = k + Len(Bytes(a, p + k, w))
          BY <5>a, <5>d DEF Cat
        <5>6. g = c.got \o t
          BY <1>a, <1>6, <1>8, <3>5, <3>11, <5>3, <5>5
        <5>7. Len(t) = k + m
          BY <1>8, <3>5, <3>6, <5>3, <5>5
        <5>8. k + m < n
          BY <1>5, <3>2, <3>7, <4>10, <5>1
        <5>9. QED BY <1>2, <1>8, <4>3, <5>6, <5>7, <5>8 DEF Has, Took
      <4>11. QED BY <4>2, <4>3, <4>4, <4>7, <4>8, <4>9, <4>10 DEF ReadRight
    <3>18. CASE m = l /\ m = w
      <4>1. n - k - w \in 0..BUFSIZE /\ r.modf = FALSE
        BY <3>2, <3>15
      <4>2. PICK d : d = Fill(r, n - k - w)
        OBVIOUS
      <4>3. bRead(c, n) = d
        <5>1. ~(~r.ok \/ Moved(z, w) # w)
          BY <3>4, <3>16, <3>18
        <5>2. QED BY <1>3, <1>10, <1>13, <2>3, <2>8, <3>2, <3>13, <4>2, <5>1 DEF bRead
      <4>4. /\ Sound(d) /\ Behind(d) /\ All(d) = r.disk /\ Same(d, r)
            /\ d.ok => /\ d.got = r.got \o Bytes(r.disk, r.kpos, n - k - w)
                       /\ d.bpos = Len(Bytes(r.disk, r.kpos, n - k - w))
                       /\ At(d) = r.kpos + Len(Bytes(r.disk, r.kpos, n - k - w))
            /\ ~d.ok => At(d) = r.kpos
        BY <3>14, <3>15, <4>1, <4>2, FillDoes
      <4>5. r.kpos = p + k + w /\ p + k + w \in Nat /\ w \in 0..n - k /\ n - k - w \in Nat
        <5>1. r.kpos = p + k + w
          BY <3>15, <3>18
        <5>2. PICK e \in Nat, q \in Nat : e = n - k /\ q = p + k /\ w <= e
          BY <1>5, <3>2
        <5>3. q + w \in Nat /\ w \in 0..e /\ e - w \in Nat
          BY <5>2
        <5>4. QED BY <5>1, <5>2, <5>3
      <4>6. PICK x \in Seq(Byte) : x = Bytes(a, p + k + w, n - k - w)
        BY <4>5, BytesShape
      <4>7. Len(Bytes(a, p, k)) = k /\ Len(Bytes(a, p + k, w)) = w
        BY <1>2, <1>4, <3>9, <3>10, <3>18
      <4>8. /\ ((cg \o Bytes(a, p, k)) \o Bytes(a, p + k, w)) \o Bytes(a, p + k + w, n - k - w) = cg \o Bytes(a, p, n)
            /\ Len(Bytes(a, p, n)) = k + w + Len(Bytes(a, p + k + w, n - k - w))
        <5>1. PICK o \in Nat, q \in Nat, e \in Nat : o = p + k /\ q = p + k + w /\ e = n - k - w
          BY <1>5, <4>5
        <5>2. n = k + w + e /\ k \in Nat /\ q = o + w
          BY <1>5, <4>5, <5>1
        <5>3. Len(Bytes(a, o, w)) = w
          BY <4>7, <5>1
        <5>4. Obtained3(cg, a, p, n, k, o, w, q, e)
          BY <4>7, <5>1, <5>2, <5>3 DEF Obtained3
        <5>a. Cat(Cat(Cat(cg, Bytes(a, p, k)), Bytes(a, o, w)), Bytes(a, q, e)) = Cat(cg, Bytes(a, p, n))
          BY <5>4, ThreePieces
        <5>b. p + Len(Bytes(a, p, n)) = q + Len(Bytes(a, q, e))
          BY <5>4, ThreePieces
        <5>c. Len(t) \in Nat /\ Len(x) \in Nat /\ p + Len(t) = q + Len(x)
          BY <1>8, <4>6, <5>1, <5>b
        <5>d. Len(t) = k + w + Len(x)
          BY <1>5, <5>1, <5>c
        <5>e. Len(Bytes(a, p, n)) = k + w + Len(Bytes(a, q, e))
          BY <1>8, <4>6, <5>1, <5>d
        <5>5. QED BY <5>1, <5>a, <5>e DEF Cat
      <4>9. g \o x = c.got \o t
        BY <1>a, <1>6, <1>8, <3>9, <3>11, <3>18, <4>6, <4>8
      <4>10. Len(t) = k + w + Len(x)
        BY <1>8, <4>6, <4>8
      <4>11. d.lost = FALSE /\ d.ubuf = c.ubuf /\ All(d) = All(c)
        BY <1>2, <3>15, <3>16, <4>4 DEF Same
      <4>12. d.ok \in BOOLEAN
        BY <4>4 DEF Sound, Calls
      <4>13. CASE d.ok
        <5>1. d.got = g \o x /\ d.bpos = Len(x) /\ At(d) = p + k + w + Len(x)
          BY <3>14, <3>15, <4>4, <4>5, <4>6, <4>13
        <5>2. Has(d, c, n) /\ Took(c, n) = k + w + Len(x)
          BY <1>2, <1>8, <4>9, <4>10, <5>1 DEF Has, Took
        <5>3. Len(x) \in Nat
          OBVIOUS
        <5>4. At(d) = At(c) + Took(c, n)
          <6>1. p + k + w + Len(x) = p + (k + w + Len(x))
            <7>1. PICK hp \in Nat, hk \in Nat, hw \in Nat, hx \in Nat : hp = p /\ hk = k /\ hw = w /\ hx = Len(x)
              BY <1>5, <3>2, <5>3
            <7>2. hp + hk + hw + hx = hp + (hk + hw + hx)
              OBVIOUS
            <7>3. QED BY <7>1, <7>2
          <6>2. QED BY <1>2, <5>1, <5>2, <6>1
        <5>5. ASSUME n = 1, Took(c, n) = 1 PROVE d.bpos > 0
          <6>1. k = 0
            BY <1>5, <2>1, <5>5
          <6>2. w = 0
            BY <1>1, <3>2, <5>5, <6>1
          <6>3. Len(x) = 1
            BY <5>2, <5>3, <5>5, <6>1, <6>2
          <6>4. QED BY <5>1, <6>3
        <5>6. QED BY <4>3, <4>4, <4>11, <4>13, <5>2, <5>4, <5>5 DEF ReadRight
      <4>14. CASE ~d.ok
        <5>1. At(d) = p + k + w
          BY <4>4, <4>5, <4>14
        <5>a. k + w <= n
          BY <1>5, <3>2
        <5>b. ASSUME n = 1 PROVE k = 0 /\ w = 0
          BY <1>1, <1>5, <2>1, <3>2, <5>b
        <5>2. At(d) \in p..p + n /\ (n = 1 => At(d) = p)
          <6>1. PICK i \in Nat : i = k + w
            BY <1>5
          <6>2. i <= n /\ At(d) = p + i /\ (n = 1 => i = 0)
            BY <1>5, <5>1, <5>a, <5>b, <6>1
          <6>3. QED BY <6>2
        <5>3. QED BY <1>2, <4>3, <4>4, <4>11, <4>14, <5>2 DEF ReadRight
      <4>15. QED BY <4>12, <4>13, <4>14
    <3>19. QED BY <3>7, <3>17, <3>18
  <2>9. QED BY <2>6, <2>7, <2>8
<1>14. QED BY <1>12, <1>13

-----------------------------------------------------------------------------
(* Writing *)

\* The last buffer of a write begins at a multiple of the buffer's size.
LEMMA LastBuffer ==
  ASSUME NEW l \in Nat \ {0}
  PROVE  /\ ((l - 1) \div BUFSIZE) * BUFSIZE \in 0..l - 1
         /\ l - ((l - 1) \div BUFSIZE) * BUFSIZE <= BUFSIZE
<1>1. BUFSIZE \in Nat \ {0} /\ l - 1 \in Nat
  BY DeviceAssumption
<1>2. PICK b \in Nat, m \in Nat : b = BUFSIZE /\ m = l - 1 /\ b > 0
  BY <1>1
<1>3. PICK q \in Int : q = m \div b
  BY <1>2
<1>4. q >= 0 /\ q * b <= m /\ m < q * b + b
  BY <1>2, <1>3
<1>5. PICK d \in Int : d = q * b
  BY <1>2
<1>6. d >= 0
  BY <1>2, <1>4, <1>5
<1>7. d \in 0..l - 1 /\ l - d <= b
  BY <1>2, <1>4, <1>5, <1>6
<1>8. QED BY <1>2, <1>3, <1>5, <1>7

\* A write of the first n bytes and of k others behind them.
Written(a, p, s, n, k, o, m) ==
  /\ a \in Seq(Byte) /\ p \in Nat /\ s \in Seq(Byte) /\ n \in Nat /\ k \in Nat /\ o \in Nat /\ m \in Nat
  /\ o = p + n /\ m = n + k /\ m <= Len(s)

LEMMA WriteOn ==
  ASSUME NEW a, NEW p, NEW s, NEW n, NEW k, NEW o, NEW m, Written(a, p, s, n, k, o, m)
  PROVE  Overlay(Overlay(a, p, SubSeq(s, 1, n), Hole), o, SubSeq(SubSeq(s, n + 1, Len(s)), 1, k), Hole)
           = Overlay(a, p, SubSeq(s, 1, m), Hole)
<1>1. /\ a \in Seq(Byte) /\ p \in Nat /\ s \in Seq(Byte) /\ n \in Nat /\ k \in Nat /\ o \in Nat /\ m \in Nat
      /\ o = p + n /\ m = n + k /\ m <= Len(s) /\ Len(s) \in Nat
  <2>1. s \in Seq(Byte)
    BY DEF Written
  <2>2. Len(s) \in Nat
    BY <2>1
  <2>3. QED BY <2>2 DEF Written
<1>2. n \in 0..Len(s) /\ m \in 0..Len(s) /\ n \in 0..m /\ Len(s) \in 0..Len(s) /\ n \in 0..Len(s)
  BY <1>1
<1>3. PICK t \in Seq(Byte) : t = SubSeq(s, 1, n) /\ Len(t) = n
  BY <1>1, <1>2, FirstShape
<1>4. PICK u \in Seq(Byte) : u = SubSeq(s, n + 1, m)
  BY <1>1, <1>2, PartShape
<1>5. t \o u = SubSeq(s, 1, m)
  BY <1>1, <1>2, <1>3, <1>4, PartsConcat
<1>6. SubSeq(SubSeq(s, n + 1, Len(s)), 1, k) = u
  <2>1. k \in 0..Len(s) - n /\ 0 \in 0..k /\ 0 + 1 = 1 /\ n + 0 + 1 = n + 1
    BY <1>1
  <2>2. SubSeq(SubSeq(s, n + 1, Len(s)), 0 + 1, k) = SubSeq(s, n + 0 + 1, n + k)
    BY <1>1, <1>2, <2>1, PartOfPart
  <2>3. QED BY <1>1, <1>4, <2>1, <2>2
<1>7. Overlay(Overlay(a, p, t, Hole), p + Len(t), u, Hole) = Overlay(a, p, t \o u, Hole)
  BY <1>1, OverlayConcat
<1>8. QED
  BY <1>1, <1>3, <1>5, <1>6, <1>7

LEMMA WriteRest ==
  ASSUME NEW a, NEW p, NEW s, NEW n, NEW k, NEW o, NEW m, Written(a, p, s, n, k, o, m)
  PROVE  Overlay(Overlay(a, p, SubSeq(s, 1, m), Hole), o + k, SubSeq(SubSeq(s, n + 1, Len(s)), k + 1, Len(s) - n), Hole)
           = Overlay(a, p, s, Hole)
<1>1. /\ a \in Seq(Byte) /\ p \in Nat /\ s \in Seq(Byte) /\ n \in Nat /\ k \in Nat /\ o \in Nat /\ m \in Nat
      /\ o = p + n /\ m = n + k /\ m <= Len(s) /\ Len(s) \in Nat
  <2>1. s \in Seq(Byte)
    BY DEF Written
  <2>2. Len(s) \in Nat
    BY <2>1
  <2>3. QED BY <2>2 DEF Written
<1>2. n \in 0..Len(s) /\ m \in 0..Len(s) /\ Len(s) \in 0..Len(s) /\ o + k = p + m
  BY <1>1
<1>3. PICK t \in Seq(Byte) : t = SubSeq(s, 1, m) /\ Len(t) = m
  BY <1>1, <1>2, FirstShape
<1>4. PICK u \in Seq(Byte) : u = SubSeq(s, m + 1, Len(s))
  BY <1>1, <1>2, PartShape
<1>5. t \o u = s
  <2>1. t \o u = SubSeq(s, 1, Len(s))
    BY <1>1, <1>2, <1>3, <1>4, PartsConcat
  <2>2. SubSeq(s, 1, Len(s)) = s
    BY <1>1, SubSeqFull
  <2>3. QED BY <2>1, <2>2
<1>6. SubSeq(SubSeq(s, n + 1, Len(s)), k + 1, Len(s) - n) = u
  <2>1. k \in 0..Len(s) - n /\ Len(s) - n \in 0..Len(s) - n /\ n + (Len(s) - n) = Len(s) /\ n + k + 1 = m + 1
    BY <1>1
  <2>2. SubSeq(SubSeq(s, n + 1, Len(s)), k + 1, Len(s) - n) = SubSeq(s, n + k + 1, n + (Len(s) - n))
    BY <1>1, <1>2, <2>1, PartOfPart
  <2>3. QED BY <1>4, <2>1, <2>2
<1>7. Overlay(Overlay(a, p, t, Hole), p + Len(t), u, Hole) = Overlay(a, p, t \o u, Hole)
  BY <1>1, OverlayConcat
<1>8. QED
  BY <1>2, <1>3, <1>5, <1>6, <1>7

\* What goes into the buffer is seen in the file.
LEMMA IntoBufferDoes ==
  ASSUME NEW c, Sound(c), NEW s \in Seq(Byte), c.bpos + Len(s) <= BUFSIZE
  PROVE  /\ Sound(IntoBuffer(c, s)) /\ Behind(IntoBuffer(c, s)) /\ Same(IntoBuffer(c, s), c)
         /\ All(IntoBuffer(c, s)) = Overlay(All(c), At(c), s, Hole)
         /\ IntoBuffer(c, s).spos = c.spos /\ IntoBuffer(c, s).bpos = c.bpos + Len(s)
         /\ IntoBuffer(c, s).modf = TRUE /\ IntoBuffer(c, s).kpos = c.kpos /\ IntoBuffer(c, s).ok = c.ok
<1>1. PICK cs \in Nat, cb \in Seq(Byte), cp \in Nat, cd \in Seq(Byte) :
        cs = c.spos /\ cb = c.buf /\ cp = c.bpos /\ cd = c.disk
  BY DEF Sound, Calls
<1>2. PICK l \in Nat, n \in Nat, b \in Nat : l = Len(cb) /\ n = Len(s) /\ b = BUFSIZE
  BY DeviceAssumption
<1>3. cp <= l /\ l <= b /\ cp + n <= b
  BY <1>1, <1>2 DEF Sound
<1>4. PICK o \in Seq(Byte) : o = Overlay(cb, cp, s, Hole)
  BY OverlayShape
<1>5. Len(o) = IF s = <<>> THEN l ELSE IF cp + n > l THEN cp + n ELSE l
  BY <1>2, <1>4, OverlayShape
<1>6. s = <<>> => n = 0
  BY <1>2
<1>7. Len(o) <= b /\ cp + n <= Len(o)
  BY <1>3, <1>5, <1>6
<1>8. PICK q \in Nat : q = cp + n
  OBVIOUS
<1>9. PICK y : y = IntoBuffer(c, s)
  OBVIOUS
<1>10. y = [c EXCEPT !.buf = o, !.bpos = q, !.modf = TRUE]
  BY <1>1, <1>2, <1>4, <1>8, <1>9 DEF IntoBuffer
<1>11. c \in Calls
  BY DEF Sound
<1>12. y \in Calls
  BY <1>10, <1>11 DEF Calls
<1>13. y.buf = o /\ y.bpos = q /\ y.modf = TRUE /\ y.disk = c.disk /\ y.kpos = c.kpos /\ y.spos = c.spos /\ y.ok = c.ok
  BY <1>10, <1>11 DEF Calls
<1>14. Same(y, c)
  BY <1>10, <1>11 DEF Calls, Same
<1>15. Sound(y)
  BY <1>2, <1>7, <1>8, <1>12, <1>13 DEF Sound
<1>16. Behind(y)
  BY <1>13 DEF Behind
<1>17. All(y) = Overlay(cd, cs, Overlay(cb, cp, s, Hole), Hole)
  BY <1>1, <1>4, <1>13 DEF All
<1>18. All(c) = Overlay(cd, cs, cb, Hole)
  BY <1>1, AllHolds
<1>19. cp \in 0..Len(cb)
  BY <1>2, <1>3
<1>20. Overlay(cd, cs, Overlay(cb, cp, s, Hole), Hole) = Overlay(Overlay(cd, cs, cb, Hole), cs + cp, s, Hole)
  BY <1>19, OverlayWithin
<1>21. All(y) = Overlay(All(c), At(c), s, Hole)
  BY <1>1, <1>17, <1>18, <1>20 DEF At
<1>22. QED
  BY <1>1, <1>2, <1>8, <1>9, <1>13, <1>14, <1>15, <1>16, <1>21

\* What a write has done to d, that was c: all of it, or so many bytes.
Wrote(d, c, s, k) ==
  /\ k \in 0..Len(s) /\ All(d) = Overlay(All(c), At(c), SubSeq(s, 1, k), Hole)
  /\ ~d.lost => At(d) = At(c) + k

WriteRight(d, c, s) ==
  /\ Sound(d) /\ d.ubuf = c.ubuf
  /\ ~d.lost => Behind(d)
  /\ d.lost => d.buf = <<>>
  /\ d.ok => ~d.lost /\ Wrote(d, c, s, Len(s))
  /\ ~d.ok => \E k \in Nat : Wrote(d, c, s, k)

\* A write across the end of the buffer changes the file as it should, unless the
\* device fails: then a part of it has been made.
LEMMA bWriteDoes ==
  ASSUME NEW c, Sound(c), Behind(c), ~c.lost, NEW s \in Seq(Byte)
  PROVE  WriteRight(bWrite(c, s), c, s)
<1>1. PICK cs \in Nat, cb \in Seq(Byte), cp \in Nat :
        cs = c.spos /\ cb = c.buf /\ cp = c.bpos
  BY DEF Sound, Calls
<1>2. PICK l \in Nat, b \in Nat, e \in Nat : l = Len(cb) /\ b = BUFSIZE /\ e = Len(s) /\ b > 0
  BY DeviceAssumption
<1>3. cp <= l /\ l <= b /\ c \in Calls /\ c.lost = FALSE
  BY <1>1, <1>2 DEF Sound, Calls
<1>4. PICK a \in Seq(Byte), p \in Nat : a = All(c) /\ p = At(c) /\ p = cs + cp
  <2>1. All(c) \in Seq(Byte)
    BY AllHolds
  <2>2. At(c) = cs + cp
    BY <1>1 DEF At
  <2>3. PICK p \in Nat : p = cs + cp
    OBVIOUS
  <2>4. QED BY <2>1, <2>2, <2>3
<1>a. cp <= b /\ b - cp \in Nat
  <2>1. cp <= l /\ l <= b
    BY <1>3
  <2>2. QED BY <2>1
<1>5. PICK n \in Nat : n = Least(e, b - cp)
  BY <1>a DEF Least
<1>6. n <= e /\ cp + n <= b /\ (n < e => cp + n = b)
  BY <1>a, <1>5 DEF Least
<1>7. n \in 0..Len(s) /\ Len(s) \in 0..Len(s)
  BY <1>2, <1>6
<1>8. PICK t \in Seq(Byte) : t = SubSeq(s, 1, n) /\ Len(t) = n
  BY <1>7, FirstShape
<1>9. PICK u \in Seq(Byte) : u = SubSeq(s, n + 1, Len(s)) /\ Len(u) = Len(s) - n
  BY <1>7, PartShape
<1>10. PICK y : y = IF n = 0 THEN c ELSE IntoBuffer(c, t)
  OBVIOUS
<1>11. /\ Sound(y) /\ Behind(y) /\ Same(y, c) /\ All(y) = Overlay(a, p, t, Hole)
       /\ y.spos = cs /\ y.bpos = cp + n
  <2>1. CASE n = 0
    <3>1. t = <<>> /\ y = c
      BY <1>8, <1>10, <2>1, EmptySeq
    <3>2. Overlay(a, p, t, Hole) = a
      BY <3>1 DEF Overlay
    <3>3. cp = cp + n
      BY <2>1
    <3>4. Same(c, c)
      BY DEF Same
    <3>5. QED BY <1>1, <1>4, <3>1, <3>2, <3>3, <3>4
  <2>2. CASE n # 0
    <3>1. c.bpos + Len(t) <= BUFSIZE /\ y = IntoBuffer(c, t)
      BY <1>1, <1>2, <1>6, <1>8, <1>10, <2>2
    <3>2. /\ Sound(y) /\ Behind(y) /\ Same(y, c)
          /\ All(y) = Overlay(All(c), At(c), t, Hole)
          /\ y.spos = c.spos /\ y.bpos = c.bpos + Len(t)
      BY <3>1, IntoBufferDoes
    <3>3. QED BY <1>1, <1>4, <1>8, <3>2
  <2>3. QED BY <2>1, <2>2
<1>12. At(y) = p + n
  <2>1. At(y) = cs + (cp + n)
    BY <1>11 DEF At
  <2>2. cs + (cp + n) = p + n
    BY <1>4
  <2>3. QED BY <2>1, <2>2
<1>13. y \in Calls /\ y.lost = FALSE /\ y.ubuf = c.ubuf
  BY <1>3, <1>11 DEF Same, Sound
<1>14. n = Least(Len(s), BUFSIZE - c.bpos)
  BY <1>1, <1>2, <1>5
<1>15. CASE u = <<>>
  <2>1. n = e /\ n = Len(s)
    <3>1. Len(u) = 0
      BY <1>15
    <3>2. QED BY <1>2, <1>9, <3>1
  <2>2. t = s
    BY <1>8, <2>1, SubSeqFull
  <2>3. PICK d : d = [y EXCEPT !.ok = TRUE]
    OBVIOUS
  <2>4. bWrite(c, s) = d
    BY <1>8, <1>9, <1>10, <1>14, <1>15, <2>3 DEF bWrite
  <2>5. d \in Calls
    BY <1>13, <2>3 DEF Calls
  <2>6. /\ d.ok = TRUE /\ d.disk = y.disk /\ d.kpos = y.kpos /\ d.spos = y.spos /\ d.buf = y.buf
        /\ d.bpos = y.bpos /\ d.modf = y.modf
    BY <1>13, <2>3 DEF Calls
  <2>7. d.ubuf = y.ubuf /\ d.lost = y.lost
    BY <1>13, <2>3 DEF Calls
  <2>8. Sound(d)
    BY <1>11, <2>5, <2>6 DEF Sound
  <2>9. Behind(d)
    BY <1>11, <2>6 DEF Behind
  <2>10. All(d) = All(y) /\ At(d) = At(y)
    BY <2>6 DEF All, At
  <2>11. SubSeq(s, 1, Len(s)) = s
    BY SubSeqFull
  <2>12. Wrote(d, c, s, Len(s))
    BY <1>4, <1>7, <1>11, <1>12, <2>1, <2>2, <2>10, <2>11 DEF Wrote
  <2>13. QED BY <1>13, <2>4, <2>6, <2>7, <2>8, <2>9, <2>12 DEF WriteRight
<1>16. CASE u # <<>>
  <2>1. PICK r \in Nat : r = Len(u) /\ r > 0 /\ r = e - n
    <3>1. PICK r \in Nat : r = Len(u)
      OBVIOUS
    <3>2. r > 0
      BY <1>16, <3>1, EmptySeq
    <3>3. r = e - n
      BY <1>2, <1>9, <3>1
    <3>4. QED BY <3>1, <3>2, <3>3
  <2>2. cp + n = b /\ y.bpos = Len(y.buf) /\ Len(y.buf) = b
    <3>1. cp + n = b
      BY <1>6, <2>1
    <3>2. y.bpos <= Len(y.buf) /\ Len(y.buf) <= BUFSIZE /\ y.buf \in Seq(Byte)
      BY <1>11 DEF Sound, Calls
    <3>3. Len(y.buf) \in Nat
      BY <3>2
    <3>4. y.bpos = b
      BY <1>11, <3>1
    <3>5. QED BY <1>2, <3>1, <3>2, <3>3, <3>4
  <2>3. cs + Len(y.buf) = p + n
    BY <1>4, <2>2
  <2>4. PICK z : z = bFlush(y)
    OBVIOUS
  <2>5. /\ Sound(z) /\ All(z) = All(y) /\ Same(z, y)
        /\ z.got = y.got
        /\ z.ok =>
              /\ ~z.modf /\ z.disk = All(y)
              /\ z.buf = <<>> /\ z.bpos = 0
              /\ y.modf => z.kpos = y.spos + Len(y.buf) /\ z.spos = y.spos + Len(y.buf)
              /\ ~y.modf => z.kpos = y.kpos /\ z.spos = y.spos
        /\ ~z.ok =>
              /\ y.modf /\ z.modf
              /\ z.spos = y.spos /\ z.buf = y.buf /\ z.bpos = y.bpos
    BY <1>11, <2>4, bFlushDoes
  <2>6. z \in Calls /\ z.ok \in BOOLEAN /\ z.modf \in BOOLEAN /\ z.lost = FALSE /\ z.ubuf = c.ubuf
    BY <1>13, <2>5 DEF Sound, Calls, Same
  <2>7. CASE ~z.ok
    <3>1. bWrite(c, s) = z
      BY <1>8, <1>9, <1>10, <1>14, <1>16, <2>4, <2>7 DEF bWrite
    <3>2. At(z) = p + n
      BY <1>12, <2>5, <2>7 DEF At
    <3>3. Wrote(z, c, s, n)
      BY <1>4, <1>7, <1>8, <1>11, <2>5, <3>2 DEF Wrote
    <3>4. Behind(z)
      BY <2>5, <2>7 DEF Behind
    <3>5. QED BY <2>5, <2>6, <2>7, <3>1, <3>3, <3>4 DEF WriteRight
  <2>8. CASE z.ok
    <3>1. z.kpos = p + n /\ z.disk = Overlay(a, p, t, Hole) /\ z.modf = FALSE /\ z.buf = <<>> /\ z.bpos = 0
      <4>1. y.modf => z.kpos = p + n
        BY <1>11, <2>3, <2>5, <2>8
      <4>2. ~y.modf => z.kpos = p + n
        BY <1>11, <2>3, <2>5, <2>8 DEF Behind
      <4>3. QED BY <1>11, <2>5, <2>6, <2>8, <4>1, <4>2
    <3>a. /\ ((Len(u) - 1) \div BUFSIZE) * BUFSIZE \in 0..Len(u) - 1
          /\ Len(u) - ((Len(u) - 1) \div BUFSIZE) * BUFSIZE <= BUFSIZE
      <4>1. Len(u) \in Nat \ {0}
        BY <2>1
      <4>2. QED BY <4>1, LastBuffer
    <3>b. PICK g \in Nat : g = ((Len(u) - 1) \div BUFSIZE) * BUFSIZE
      BY <3>a
    <3>2. g <= r - 1 /\ r - g <= b
      <4>1. g \in 0..Len(u) - 1 /\ Len(u) - g <= BUFSIZE
        BY <3>a, <3>b
      <4>2. QED BY <1>2, <2>1, <4>1
    <3>3. g \in 0..Len(u) /\ n + g \in Nat /\ n + g <= e /\ p + n \in Nat /\ p + n + g = p + (n + g)
      BY <1>2, <2>1, <3>2
    <3>4. PICK v \in Seq(Byte) : v = SubSeq(u, 1, g) /\ Len(v) = g
      BY <3>3, FirstShape
    <3>5. PICK f : f = fWrite(z, v)
      OBVIOUS
    <3>6. PICK k \in 0..Len(v) :
           /\ f \in Calls
           /\ f.disk = Overlay(z.disk, z.kpos, SubSeq(v, 1, k), Hole)
           /\ f.kpos = z.kpos + k
           /\ f.ok = (k = Len(v))
           /\ f.spos = z.spos /\ f.buf = z.buf /\ f.bpos = z.bpos
           /\ f.modf = z.modf /\ f.got = z.got
           /\ Same(f, z)
      BY <2>6, <3>5, fWriteDoes
    <3>7. PICK j \in Nat : j = k /\ j <= g
      BY <3>4
    <3>8. SubSeq(v, 1, k) = SubSeq(u, 1, k)
      <4>1. g \in 0..Len(u) /\ 0 \in 0..g /\ j \in 0..g - 0 /\ 0 \in 0..j /\ 0 + 1 = 1 /\ 0 + 0 + 1 = 1 /\ 0 + j = j
        BY <3>3, <3>7
      <4>2. SubSeq(SubSeq(u, 0 + 1, g), 0 + 1, j) = SubSeq(u, 0 + 0 + 1, 0 + j)
        BY <4>1, PartOfPart
      <4>3. QED BY <3>4, <3>7, <4>1, <4>2
    <3>9. PICK o \in Nat, m \in Nat : o = p + n /\ m = n + j /\ m <= e
      BY <1>6, <3>3, <3>7
    <3>10. Written(a, p, s, n, j, o, m)
      BY <1>2, <3>9 DEF Written
    <3>11. f.disk = Overlay(a, p, SubSeq(s, 1, m), Hole)
      <4>1. Overlay(Overlay(a, p, SubSeq(s, 1, n), Hole), o, SubSeq(SubSeq(s, n + 1, Len(s)), 1, j), Hole)
               = Overlay(a, p, SubSeq(s, 1, m), Hole)
        BY <3>10, WriteOn
      <4>2. QED BY <1>8, <1>9, <3>1, <3>6, <3>7, <3>8, <3>9, <4>1
    <3>12. f.modf = FALSE /\ f.buf = <<>> /\ f.bpos = 0 /\ f.kpos = o + j /\ f.lost = FALSE /\ f.ubuf = c.ubuf
      BY <2>6, <3>1, <3>6, <3>7, <3>9 DEF Same
    <3>13. f.disk \in Seq(Byte) /\ f.kpos \in Nat /\ f.spos \in Nat /\ f.ok \in BOOLEAN
      BY <3>6 DEF Calls
    <3>14. CASE ~f.ok
      <4>1. PICK d : d = [f EXCEPT !.lost = TRUE]
        OBVIOUS
      <4>2. bWrite(c, s) = d
        BY <1>8, <1>9, <1>10, <1>14, <1>16, <2>4, <2>8, <3>b, <3>4, <3>5, <3>14, <4>1 DEF bWrite
      <4>3. d \in Calls /\ d.disk = f.disk /\ d.spos = f.spos /\ d.buf = f.buf /\ d.bpos = f.bpos /\ d.modf = f.modf
        <5>1. d \in Calls
          BY <3>6, <4>1 DEF Calls
        <5>2. d.disk = f.disk /\ d.spos = f.spos /\ d.buf = f.buf /\ d.bpos = f.bpos /\ d.modf = f.modf
          BY <3>6, <4>1 DEF Calls
        <5>3. QED BY <5>1, <5>2
      <4>4. d.ok = f.ok /\ d.ubuf = f.ubuf /\ d.lost = TRUE
        BY <3>6, <4>1 DEF Calls
      <4>5. Held(d.disk, d.spos, d.buf) /\ Len(d.buf) = 0
        BY <3>12, <3>13, <4>3, HeldEmpty, EmptySeq
      <4>6. Sound(d)
        BY <1>2, <3>12, <4>3, <4>5 DEF Sound
      <4>7. All(d) = f.disk
        BY <3>12, <4>3 DEF All
      <4>8. m \in 0..Len(s)
        BY <1>2, <3>9
      <4>9. Wrote(d, c, s, m)
        BY <1>4, <3>11, <4>4, <4>7, <4>8 DEF Wrote
      <4>10. QED BY <3>12, <3>14, <4>2, <4>3, <4>4, <4>6, <4>9 DEF WriteRight
    <3>15. CASE f.ok
      <4>1. j = g
        BY <3>4, <3>6, <3>7, <3>15
      <4>2. PICK x \in Seq(Byte) : x = SubSeq(u, g + 1, Len(u)) /\ Len(x) = Len(u) - g
        <5>1. Len(u) \in 0..Len(u) /\ g \in 0..Len(u)
          BY <3>3
        <5>2. QED BY <5>1, PartShape
      <4>3. PICK h : h = [f EXCEPT !.spos = f.kpos]
        OBVIOUS
      <4>4. h \in Calls
        BY <3>6, <3>13, <4>3 DEF Calls
      <4>5. /\ h.disk = f.disk /\ h.spos = f.kpos /\ h.buf = f.buf /\ h.bpos = f.bpos
            /\ h.modf = f.modf /\ h.ok = f.ok
        BY <3>6, <4>3 DEF Calls
      <4>6. Same(h, f)
        BY <3>6, <4>3 DEF Calls, Same
      <4>7. Held(h.disk, h.spos, h.buf) /\ Len(h.buf) = 0
        BY <3>12, <3>13, <4>5, HeldEmpty, EmptySeq
      <4>8. Sound(h)
        BY <1>2, <3>12, <4>4, <4>5, <4>7 DEF Sound
      <4>9. PICK d : d = IntoBuffer(h, x)
        OBVIOUS
      <4>10. bWrite(c, s) = d
        BY <1>8, <1>9, <1>10, <1>14, <1>16, <2>4, <2>8, <3>b, <3>4, <3>5, <3>15, <4>2, <4>3, <4>9 DEF bWrite
      <4>11. h.bpos + Len(x) <= BUFSIZE
        BY <1>2, <2>1, <3>2, <3>12, <4>2, <4>5
      <4>12. /\ Sound(d) /\ Behind(d) /\ Same(d, h)
             /\ All(d) = Overlay(All(h), At(h), x, Hole)
             /\ d.spos = h.spos /\ d.bpos = h.bpos + Len(x)
             /\ d.modf = TRUE /\ d.kpos = h.kpos /\ d.ok = h.ok
        BY <4>8, <4>9, <4>11, IntoBufferDoes
      <4>13. d.ubuf = c.ubuf /\ d.lost = FALSE /\ d.ok
        BY <3>12, <3>15, <4>5, <4>6, <4>12 DEF Same
      <4>14. All(h) = Overlay(a, p, SubSeq(s, 1, m), Hole) /\ At(h) = o + j
        <5>1. o + j + 0 = o + j
          OBVIOUS
        <5>2. QED BY <3>11, <3>12, <4>5, <5>1 DEF All, At
      <4>15. x = SubSeq(SubSeq(s, n + 1, Len(s)), j + 1, Len(s) - n)
        BY <1>9, <4>1, <4>2
      <4>16. All(d) = Overlay(a, p, s, Hole)
        BY <3>10, <4>12, <4>14, <4>15, WriteRest
      <4>17. At(d) = p + Len(s)
        <5>1. d.spos = o + j /\ d.bpos = Len(x)
          BY <3>12, <4>2, <4>5, <4>12
        <5>2. Len(x) = r - g
          BY <2>1, <4>2
        <5>3. o + j + (r - g) = p + e
          BY <1>6, <2>1, <3>2, <3>9, <4>1
        <5>4. QED BY <1>2, <5>1, <5>2, <5>3 DEF At
      <4>18. SubSeq(s, 1, Len(s)) = s
        BY SubSeqFull
      <4>19. Wrote(d, c, s, Len(s))
        BY <1>4, <1>7, <4>16, <4>17, <4>18 DEF Wrote
      <4>20. QED BY <4>10, <4>12, <4>13, <4>19 DEF WriteRight
    <3>16. QED BY <3>13, <3>14, <3>15
  <2>9. QED BY <2>6, <2>7, <2>8
<1>17. QED BY <1>15, <1>16

-----------------------------------------------------------------------------
(* Characters that are put back *)

\* At most one, the one before the position.
PutBack(c) ==
  /\ Len(c.ubuf) <= 1
  /\ c.ubuf # <<>> => c.bpos > 0 /\ c.ubuf = Bytes(All(c), At(c) - 1, 1)

Pos(c) == At(c) - Len(c.ubuf)

\* What read does to d, that was c, from position p of file a.
ReadAt(d, c, a, p, n) ==
  /\ Sound(d) /\ All(d) = a /\ d.ubuf = <<>>
  /\ ~d.lost => Behind(d)
  /\ d.lost => n > BUFSIZE /\ d.buf = <<>>
  /\ d.ok => d.got = c.got \o Bytes(a, p, n)
  /\ d.ok /\ d.lost => Len(Bytes(a, p, n)) < n
  /\ d.ok /\ ~d.lost => /\ At(d) = p + Len(Bytes(a, p, n))
                        /\ n = 1 /\ Len(Bytes(a, p, n)) = 1 => d.bpos > 0
  /\ ~d.ok /\ ~d.lost => At(d) \in p..p + n /\ (n = 1 => At(d) = p)

\* One character put back is taken first.
LEMMA readFirst ==
  ASSUME NEW c \in Calls, NEW n \in Nat \ {0}, Len(c.ubuf) <= 1
  PROVE  read(c, n) = LET y == [c EXCEPT !.ubuf = <<>>, !.got = @ \o c.ubuf, !.ok = TRUE]
                      IN  IF n > Len(c.ubuf) THEN bRead(y, n - Len(c.ubuf)) ELSE y
<1>1. PICK u \in Seq(Byte), l \in Nat : u = c.ubuf /\ l = Len(u) /\ l <= 1
  <2>1. PICK u \in Seq(Byte) : u = c.ubuf
    BY DEF Calls
  <2>2. Len(u) \in Nat
    OBVIOUS
  <2>3. QED BY <2>1, <2>2
<1>2. Reverse(u) = u
  <2>1. Reverse(u) = [i \in 1..Len(u) |-> u[(Len(u) - i) + 1]]
    BY DEF Reverse
  <2>2. \A i \in 1..Len(u) : (Len(u) - i) + 1 = i
    BY <1>1
  <2>3. Reverse(u) = [i \in 1..Len(u) |-> u[i]]
    BY <2>1, <2>2
  <2>4. u = [i \in 1..Len(u) |-> u[i]]
    OBVIOUS
  <2>5. QED BY <2>3, <2>4
<1>3. Least(n, Len(c.ubuf)) = l
  BY <1>1 DEF Least
<1>4. SubSeq(Reverse(c.ubuf), 1, Least(n, Len(c.ubuf))) = c.ubuf
  <2>1. SubSeq(u, 1, Len(u)) = u
    BY SubSeqFull
  <2>2. QED BY <1>1, <1>2, <1>3, <2>1
<1>5. SubSeq(c.ubuf, 1, Len(c.ubuf) - Len(c.ubuf)) = <<>>
  <2>1. l - l = 0 /\ 0 \in 0..Len(u)
    BY <1>1
  <2>2. SubSeq(u, 1, 0) \in Seq(Byte) /\ Len(SubSeq(u, 1, 0)) = 0
    BY <2>1, FirstShape
  <2>3. SubSeq(u, 1, 0) = <<>>
    BY <2>2, EmptySeq
  <2>4. QED BY <1>1, <2>1, <2>3
<1>6. QED
  BY <1>4, <1>5 DEF read

LEMMA readDoes ==
  ASSUME NEW c, Sound(c), Behind(c), ~c.lost, PutBack(c), NEW n \in Nat \ {0}
  PROVE  ReadAt(read(c, n), c, All(c), Pos(c), n)
<1>1. PICK u \in Seq(Byte), cg \in Seq(Byte), cs \in Nat, cp \in Nat :
        u = c.ubuf /\ cg = c.got /\ cs = c.spos /\ cp = c.bpos
  BY DEF Sound, Calls
<1>2. PICK l \in Nat : l = Len(u) /\ l <= 1
  <2>1. Len(u) \in Nat
    OBVIOUS
  <2>2. Len(u) <= 1
    BY <1>1 DEF PutBack
  <2>3. QED BY <2>1, <2>2
<1>3. c \in Calls /\ c.lost = FALSE
  BY DEF Sound, Calls
<1>4. PICK a \in Seq(Byte), o \in Nat : a = All(c) /\ o = At(c) /\ o = cs + cp
  <2>1. All(c) \in Seq(Byte)
    BY AllHolds
  <2>2. At(c) = cs + cp
    BY <1>1 DEF At
  <2>3. PICK p \in Nat : p = cs + cp
    OBVIOUS
  <2>4. QED BY <2>1, <2>2, <2>3
<1>5. PICK g \in Seq(Byte) : g = cg \o u
  BY ConcatProperties
<1>6. PICK y : y = [c EXCEPT !.ubuf = <<>>, !.got = g, !.ok = TRUE]
  OBVIOUS
<1>7. read(c, n) = IF n > l THEN bRead(y, n - l) ELSE y
  BY <1>1, <1>2, <1>3, <1>5, <1>6, readFirst
<1>8. y \in Calls
  BY <1>3, <1>6, EmptySeq DEF Calls
<1>9. y.disk = c.disk /\ y.kpos = c.kpos /\ y.spos = c.spos /\ y.buf = c.buf /\ y.bpos = c.bpos /\ y.modf = c.modf
  BY <1>3, <1>6 DEF Calls
<1>10. y.ubuf = <<>> /\ y.got = g /\ y.ok = TRUE /\ y.lost = FALSE
  <2>1. y.ubuf = <<>> /\ y.got = g /\ y.ok = TRUE /\ y.lost = c.lost
    BY <1>3, <1>6 DEF Calls
  <2>2. QED BY <1>3, <2>1
<1>11. Sound(y)
  BY <1>8, <1>9 DEF Sound
<1>12. Behind(y)
  BY <1>9 DEF Behind
<1>13. All(y) = a /\ At(y) = o
  BY <1>4, <1>9 DEF All, At
<1>14. CASE u = <<>>
  <2>1. l = 0
    BY <1>2, <1>14
  <2>2. n - l = n /\ n > l /\ n \in Nat
    BY <2>1
  <2>3. Pos(c) = o
    <3>1. Pos(c) = o - l
      BY <1>1, <1>2, <1>4 DEF Pos
    <3>2. QED BY <2>1, <3>1
  <2>4. g = cg
    BY <1>5, <1>14, ConcatEmptySeq
  <2>5. PICK d : d = read(c, n)
    OBVIOUS
  <2>6. ReadRight(d, y, n)
    <3>1. d = bRead(y, n)
      BY <1>7, <2>2, <2>5
    <3>2. QED BY <1>10, <1>11, <1>12, <2>2, <3>1, bReadDoes
  <2>7. ReadAt(d, c, a, o, n)
    BY <1>1, <1>10, <1>13, <2>4, <2>6 DEF ReadRight, ReadAt, Has, Took
  <2>8. QED BY <1>4, <2>3, <2>5, <2>7
<1>15. CASE u # <<>>
  <2>1. l = 1
    <3>1. l # 0
      BY <1>2, <1>15, EmptySeq
    <3>2. QED BY <1>2, <3>1
  <2>2. cp > 0 /\ u = Bytes(All(c), At(c) - 1, 1)
    BY <1>1, <1>15 DEF PutBack
  <2>3. PICK p \in Nat : p = o - 1 /\ o = p + 1
    BY <1>4, <2>2
  <2>4. Pos(c) = p
    BY <1>1, <1>2, <1>4, <2>1, <2>3 DEF Pos
  <2>5. u = Bytes(a, p, 1)
    BY <1>4, <2>2, <2>3
  <2>6. PICK e \in Nat : e = n - 1 /\ n = 1 + e
    OBVIOUS
  <2>7. PICK x \in Seq(Byte) : x = Bytes(a, o, e)
    BY BytesShape
  <2>8. Bytes(a, p, n) = Cat(u, x)
    <3>1. Joined(a, p, n, 1, o, e)
      BY <1>2, <2>1, <2>3, <2>5, <2>6 DEF Joined
    <3>2. Bytes(a, p, n) = Cat(Bytes(a, p, 1), Bytes(a, o, e))
      BY <3>1, BytesJoin
    <3>3. QED BY <2>5, <2>7, <3>2
  <2>9. Cat(g, x) = Cat(cg, Bytes(a, p, n))
    <3>1. g = Cat(cg, u)
      BY <1>5 DEF Cat
    <3>2. Cat(Cat(cg, u), x) = Cat(cg, Cat(u, x))
      BY CatAssoc
    <3>3. QED BY <2>8, <3>1, <3>2
  <2>10. PICK k \in Nat : k = Len(x)
    OBVIOUS
  <2>11. Len(Bytes(a, p, n)) = 1 + k
    <3>1. Len(Cat(u, x)) = Len(u) + Len(x)
      BY CatLen
    <3>2. QED BY <1>2, <2>1, <2>8, <2>10, <3>1
  <2>12. CASE n = 1
    <3>1. read(c, n) = y
      BY <1>7, <2>1, <2>12
    <3>2. e = 0
      BY <2>6, <2>12
    <3>3. k = 0
      <4>1. Len(Bytes(a, o, 0)) = IF o + 0 <= Len(a) THEN 0 ELSE IF o <= Len(a) THEN Len(a) - o ELSE 0
        BY BytesShape
      <4>2. Len(a) \in Nat
        OBVIOUS
      <4>3. QED BY <2>7, <2>10, <3>2, <4>1, <4>2
    <3>4. x = <<>>
      BY <2>10, <3>3, EmptySeq
    <3>5. Cat(g, x) = g
      BY <3>4, ConcatEmptySeq DEF Cat
    <3>6. y.got = c.got \o Bytes(a, p, n)
      BY <1>1, <1>10, <2>9, <3>5 DEF Cat
    <3>7. At(y) = p + Len(Bytes(a, p, n))
      <4>1. Len(Bytes(a, p, n)) = 1
        BY <2>11, <3>3
      <4>2. At(y) = p + 1
        BY <1>13, <2>3
      <4>3. QED BY <4>1, <4>2
    <3>8. y.bpos > 0
      BY <1>1, <1>9, <2>2
    <3>9. ReadAt(y, c, a, p, n)
      BY <1>10, <1>11, <1>12, <1>13, <3>6, <3>7, <3>8 DEF ReadAt
    <3>10. QED BY <1>4, <2>4, <3>1, <3>9
  <2>13. CASE n # 1
    <3>1. n > l /\ n - l = e
      BY <2>1, <2>6, <2>13
    <3>2. PICK d : d = read(c, n)
      OBVIOUS
    <3>3. ReadRight(d, y, e)
      <4>1. d = bRead(y, e)
        BY <1>7, <3>1, <3>2
      <4>2. QED BY <1>10, <1>11, <1>12, <4>1, bReadDoes
    <3>4. Took(y, e) = k
      BY <1>13, <2>7, <2>10 DEF Took
    <3>5. Has(d, y, e) => d.got = c.got \o Bytes(a, p, n)
      BY <1>1, <1>10, <1>13, <2>7, <2>9 DEF Has, Cat
    <3>6. /\ Sound(d) /\ All(d) = a /\ d.ubuf = <<>>
          /\ ~d.lost => Behind(d)
          /\ d.lost => e > BUFSIZE /\ d.buf = <<>>
          /\ d.ok /\ d.lost => Has(d, y, e) /\ k < e
          /\ d.ok /\ ~d.lost => Has(d, y, e) /\ At(d) = o + k
          /\ ~d.ok /\ ~d.lost => At(d) \in o..o + e
      BY <1>10, <1>13, <3>3, <3>4 DEF ReadRight
    <3>7. d.lost => n > BUFSIZE
      <4>1. BUFSIZE \in Nat
        BY DeviceAssumption
      <4>2. QED BY <2>6, <3>6, <4>1
    <3>8. d.ok => d.got = c.got \o Bytes(a, p, n)
      <4>1. d.lost \/ ~d.lost
        OBVIOUS
      <4>2. QED BY <3>5, <3>6, <4>1
    <3>9. d.ok /\ d.lost => Len(Bytes(a, p, n)) < n
      <4>1. k < e => 1 + k < n
        BY <2>6
      <4>2. QED BY <2>11, <3>6, <4>1
    <3>10. d.ok /\ ~d.lost => At(d) = p + Len(Bytes(a, p, n))
      <4>1. o + k = p + (1 + k)
        BY <2>3
      <4>2. QED BY <2>11, <3>6, <4>1
    <3>11. ~d.ok /\ ~d.lost => At(d) \in p..p + n
      <4>1. \A i \in o..o + e : i \in p..p + n
        BY <2>3, <2>6
      <4>2. QED BY <3>6, <4>1
    <3>12. ReadAt(d, c, a, p, n)
      BY <2>13, <3>6, <3>7, <3>8, <3>9, <3>10, <3>11 DEF ReadAt
    <3>13. QED BY <1>4, <2>4, <3>2, <3>12
  <2>14. QED BY <2>12, <2>13
<1>16. QED BY <1>14, <1>15

-----------------------------------------------------------------------------
(* A text is written in pieces *)

\* So many bytes of s have been written, or fewer before the device failed.
PieceRight(d, c, s, k) ==
  /\ Sound(d) /\ d.ubuf = c.ubuf
  /\ ~d.lost => Behind(d)
  /\ d.lost => d.buf = <<>>
  /\ d.ok => ~d.lost /\ Wrote(d, c, s, k)
  /\ ~d.ok => \E j \in Nat : Wrote(d, c, s, j)

LEMMA PieceDoes ==
  ASSUME NEW c, Sound(c), NEW s \in Seq(Byte), NEW d, NEW k \in Nat, NEW m \in Nat,
         PieceRight(d, c, s, k), d.ok, k <= m, m <= Len(s)
  PROVE  PieceRight(bWrite(d, SubSeq(s, k + 1, m)), c, s, m)
<1>1. PICK e \in Nat : e = Len(s)
  OBVIOUS
<1>2. Sound(d) /\ d.ubuf = c.ubuf /\ ~d.lost /\ Behind(d) /\ Wrote(d, c, s, k)
  BY DEF PieceRight
<1>3. PICK a \in Seq(Byte), p \in Nat : a = All(c) /\ p = At(c)
  <2>1. All(c) \in Seq(Byte)
    BY AllHolds
  <2>2. At(c) \in Nat
    <3>1. PICK x \in Nat, y \in Nat : x = c.spos /\ y = c.bpos
      BY DEF Sound, Calls
    <3>2. QED BY <3>1 DEF At
  <2>3. QED BY <2>1, <2>2
<1>4. k \in 0..m /\ m \in 0..Len(s) /\ Len(s) \in 0..Len(s) /\ k \in 0..Len(s)
  BY <1>1
<1>5. PICK t \in Seq(Byte) : t = SubSeq(s, k + 1, m) /\ Len(t) = m - k
  BY <1>4, PartShape
<1>6. PICK o \in Nat : o = p + k
  OBVIOUS
<1>7. All(d) = Overlay(a, p, SubSeq(s, 1, k), Hole) /\ At(d) = o
  BY <1>2, <1>3, <1>6 DEF Wrote
<1>8. PICK z : z = bWrite(d, t)
  OBVIOUS
<1>9. WriteRight(z, d, t)
  BY <1>2, <1>8, bWriteDoes
<1>10. ASSUME NEW j \in Nat, Wrote(z, d, t, j)
       PROVE  Wrote(z, c, s, k + j)
  <2>1. j \in 0..m - k /\ All(z) = Overlay(All(d), At(d), SubSeq(t, 1, j), Hole) /\ (~z.lost => At(z) = At(d) + j)
    BY <1>5, <1>10 DEF Wrote
  <2>2. PICK i \in Nat : i = k + j /\ i <= e
    BY <1>1, <2>1
  <2>3. Written(a, p, s, k, j, o, i)
    BY <1>1, <1>6, <2>2 DEF Written
  <2>4. Overlay(Overlay(a, p, SubSeq(s, 1, k), Hole), o, SubSeq(SubSeq(s, k + 1, Len(s)), 1, j), Hole)
          = Overlay(a, p, SubSeq(s, 1, i), Hole)
    BY <2>3, WriteOn
  <2>5. SubSeq(SubSeq(s, k + 1, Len(s)), 1, j) = SubSeq(t, 1, j)
    <3>1. j \in 0..m - k /\ j \in 0..Len(s) - k /\ 0 \in 0..j /\ 0 + 1 = 1 /\ k + 0 + 1 = k + 1
      BY <1>1, <2>1
    <3>2. SubSeq(SubSeq(s, k + 1, m), 0 + 1, j) = SubSeq(s, k + 0 + 1, k + j)
      BY <1>4, <3>1, PartOfPart
    <3>3. SubSeq(SubSeq(s, k + 1, Len(s)), 0 + 1, j) = SubSeq(s, k + 0 + 1, k + j)
      BY <1>4, <3>1, PartOfPart
    <3>4. QED BY <1>5, <3>1, <3>2, <3>3
  <2>6. All(z) = Overlay(a, p, SubSeq(s, 1, i), Hole)
    BY <1>7, <2>1, <2>4, <2>5
  <2>7. ~z.lost => At(z) = p + i
    <3>1. o + j = p + i
      BY <1>6, <2>2
    <3>2. QED BY <1>7, <2>1, <3>1
  <2>8. i \in 0..Len(s)
    BY <1>1, <2>2
  <2>9. QED BY <1>3, <2>2, <2>6, <2>7, <2>8 DEF Wrote
<1>11. z.ok => ~z.lost /\ Wrote(z, c, s, m)
  <2>1. PICK j \in Nat : j = Len(t) /\ k + j = m
    BY <1>5
  <2>2. z.ok => ~z.lost /\ Wrote(z, d, t, j)
    BY <1>9, <2>1 DEF WriteRight
  <2>3. QED BY <1>10, <2>1, <2>2
<1>12. ~z.ok => \E j \in Nat : Wrote(z, c, s, j)
  <2>1. ASSUME ~z.ok PROVE \E j \in Nat : Wrote(z, c, s, j)
    <3>1. PICK j \in Nat : Wrote(z, d, t, j)
      BY <1>9, <2>1 DEF WriteRight
    <3>2. PICK i \in Nat : i = k + j
      OBVIOUS
    <3>3. Wrote(z, c, s, i)
      BY <1>10, <3>1, <3>2
    <3>4. QED BY <3>3
  <2>2. QED BY <2>1
<1>13. Sound(z) /\ z.ubuf = c.ubuf /\ (~z.lost => Behind(z)) /\ (z.lost => z.buf = <<>>)
  BY <1>2, <1>9 DEF WriteRight
<1>14. QED
  BY <1>5, <1>8, <1>11, <1>12, <1>13 DEF PieceRight

\* How many pieces there are, and where they begin.
LEMMA PieceCount ==
  ASSUME NEW l \in Nat
  PROVE  \E m \in Nat :
           /\ m = (l + BUFSIZE - 1) \div BUFSIZE /\ l <= m * BUFSIZE
           /\ \A i \in 1..m : (i - 1) * BUFSIZE < l
<1>1. PICK b \in Nat : b = BUFSIZE /\ b > 0
  BY DeviceAssumption
<1>2. PICK n \in Nat : n = l + b - 1
  BY <1>1
<1>3. PICK m \in Int : m = n \div b
  BY <1>1
<1>4. m >= 0 /\ m * b <= n /\ n < m * b + b
  BY <1>1, <1>3
<1>5. l <= m * b
  <2>1. PICK d \in Int : d = m * b
    OBVIOUS
  <2>2. QED BY <1>1, <1>2, <1>4, <2>1
<1>6. ASSUME NEW i \in 1..m PROVE (i - 1) * b < l
  <2>1. PICK r \in Nat : m = i + r
    <3>1. m - i \in Nat /\ m = i + (m - i)
      BY <1>4
    <3>2. QED BY <3>1
  <2>2. m * b = (i - 1) * b + b + r * b /\ r * b >= 0
    BY <1>1, <2>1
  <2>3. PICK d \in Int, e \in Int, x \in Int : d = m * b /\ e = (i - 1) * b /\ x = r * b
    BY <1>1, <2>1
  <2>4. QED BY <1>1, <1>2, <1>4, <2>2, <2>3
<1>7. m \in Nat /\ m = (l + BUFSIZE - 1) \div BUFSIZE
  BY <1>1, <1>2, <1>3, <1>4
<1>8. QED BY <1>1, <1>5, <1>6, <1>7

\* The state of the call after each piece.
PieceSteps(f, c, s, m) ==
  f = [i \in 0..m |-> IF i = 0 THEN c ELSE WritePiece(f[i - 1], Bytes(s, (i - 1) * BUFSIZE, BUFSIZE))]

Pieced(f, c, s, m) ==
  /\ f = [i \in 0..m |-> f[i]] /\ f[0] = c
  /\ \A i \in 1..m : f[i] = WritePiece(f[i - 1], Bytes(s, (i - 1) * BUFSIZE, BUFSIZE))

LEMMA PieceStepsShape ==
  ASSUME NEW f, NEW c, NEW s, NEW m \in Nat
  PROVE  PieceSteps(f, c, s, m) <=> Pieced(f, c, s, m)
<1>1. ASSUME PieceSteps(f, c, s, m)
      PROVE  /\ f = [i \in 0..m |-> f[i]] /\ f[0] = c
             /\ \A i \in 1..m : f[i] = WritePiece(f[i - 1], Bytes(s, (i - 1) * BUFSIZE, BUFSIZE))
  <2>1. PICK g : g = f /\ g = [i \in 0..m |-> IF i = 0 THEN c ELSE WritePiece(f[i - 1], Bytes(s, (i - 1) * BUFSIZE, BUFSIZE))]
    BY <1>1 DEF PieceSteps
  <2>2. \A i \in 0..m : g[i] = IF i = 0 THEN c ELSE WritePiece(f[i - 1], Bytes(s, (i - 1) * BUFSIZE, BUFSIZE))
    BY <2>1
  <2>3. g = [i \in 0..m |-> g[i]]
    BY <2>1
  <2>4. 0 \in 0..m /\ \A i \in 1..m : i \in 0..m /\ i # 0
    OBVIOUS
  <2>5. QED BY <2>1, <2>2, <2>3, <2>4
<1>2. ASSUME f = [i \in 0..m |-> f[i]], f[0] = c,
             \A i \in 1..m : f[i] = WritePiece(f[i - 1], Bytes(s, (i - 1) * BUFSIZE, BUFSIZE))
      PROVE  PieceSteps(f, c, s, m)
  <2>1. \A i \in 0..m : f[i] = IF i = 0 THEN c ELSE WritePiece(f[i - 1], Bytes(s, (i - 1) * BUFSIZE, BUFSIZE))
    <3>1. \A i \in 0..m : i = 0 \/ i \in 1..m
      OBVIOUS
    <3>2. QED BY <1>2, <3>1
  <2>2. [i \in 0..m |-> f[i]] = [i \in 0..m |-> IF i = 0 THEN c ELSE WritePiece(f[i - 1], Bytes(s, (i - 1) * BUFSIZE, BUFSIZE))]
    BY <2>1
  <2>3. QED BY <1>2, <2>2 DEF PieceSteps
<1>3. QED BY <1>1, <1>2 DEF Pieced

LEMMA PieceStepsExist ==
  ASSUME NEW c, NEW s, NEW n \in Nat
  PROVE  \E f : PieceSteps(f, c, s, n)
<1> DEFINE Bad == {m \in Nat : ~\E f : PieceSteps(f, c, s, m)}
<1>1. SUFFICES ASSUME n \in Bad PROVE FALSE
  OBVIOUS
<1>2. PICK m \in Nat : m \in Bad /\ \A y \in Bad : m <= y
  <2>1. Bad \in SUBSET Nat /\ Bad # {}
    BY <1>1
  <2> HIDE DEF Bad
  <2>2. Min(Bad) \in Bad /\ \A y \in Bad : Min(Bad) <= y
    BY <2>1, LeastExists
  <2>3. QED BY <2>1, <2>2
<1>3. ASSUME NEW f PROVE ~PieceSteps(f, c, s, m)
  BY <1>2
<1>4. m # 0
  <2>1. ASSUME m = 0 PROVE FALSE
    <3>1. PICK f : f = [i \in 0..m |-> c]
      OBVIOUS
    <3>2. f = [i \in 0..m |-> f[i]] /\ f[0] = c /\ 1..m = {}
      BY <2>1, <3>1
    <3>3. Pieced(f, c, s, m)
      BY <3>2 DEF Pieced
    <3>4. QED BY <1>3, <3>3, PieceStepsShape
  <2>2. QED BY <2>1
<1>5. PICK k \in Nat : m = k + 1
  BY <1>4
<1>6. PICK f : PieceSteps(f, c, s, k)
  <2>1. k \notin Bad
    BY <1>2, <1>5
  <2>2. QED BY <2>1
<1>7. /\ f[0] = c
      /\ \A i \in 1..k : f[i] = WritePiece(f[i - 1], Bytes(s, (i - 1) * BUFSIZE, BUFSIZE))
  BY <1>6, PieceStepsShape DEF Pieced
<1>8. PICK x : x = WritePiece(f[k], Bytes(s, k * BUFSIZE, BUFSIZE))
  OBVIOUS
<1>9. PICK g : g = [i \in 0..m |-> IF i = m THEN x ELSE f[i]]
  OBVIOUS
<1>10. g = [i \in 0..m |-> g[i]] /\ \A i \in 0..k : g[i] = f[i]
  BY <1>5, <1>9
<1>11. g[m] = x
  BY <1>9
<1>12. ASSUME NEW i \in 1..m
       PROVE  g[i] = WritePiece(g[i - 1], Bytes(s, (i - 1) * BUFSIZE, BUFSIZE))
  <2>1. CASE i = m
    <3>1. i - 1 = k /\ g[k] = f[k]
      <4>1. i - 1 = k /\ k \in 0..k
        BY <1>5, <2>1
      <4>2. QED BY <1>10, <4>1
    <3>2. QED BY <1>8, <1>11, <2>1, <3>1
  <2>2. CASE i # m
    <3>1. i \in 1..k /\ i \in 0..k /\ i - 1 \in 0..k
      BY <1>5, <2>2
    <3>2. g[i] = f[i] /\ g[i - 1] = f[i - 1]
      BY <1>10, <3>1
    <3>3. QED BY <1>7, <3>1, <3>2
  <2>3. QED BY <2>1, <2>2
<1>13. g[0] = c
  BY <1>5, <1>7, <1>10
<1>14. PieceSteps(g, c, s, m)
  <2>1. Pieced(g, c, s, m)
    BY <1>10, <1>12, <1>13 DEF Pieced
  <2>2. QED BY <2>1, PieceStepsShape
<1>15. QED BY <1>3, <1>14

\* A text written in pieces is a text written.
LEMMA textwriteDoes ==
  ASSUME NEW c, Sound(c), Behind(c), ~c.lost, c.ok, NEW s \in Seq(Byte)
  PROVE  PieceRight(textwrite(c, s), c, s, Len(s))
<1>1. PICK l \in Nat, b \in Nat : l = Len(s) /\ b = BUFSIZE /\ b > 0
  BY DeviceAssumption
<1>2. PICK m \in Nat :
        /\ m = (l + BUFSIZE - 1) \div BUFSIZE /\ l <= m * BUFSIZE
        /\ \A i \in 1..m : (i - 1) * BUFSIZE < l
  BY PieceCount
<1>3. PICK f : PieceSteps(f, c, s, m) /\ textwrite(c, s) = f[m]
  <2>1. PICK f : f = CHOOSE g : PieceSteps(g, c, s, m)
    OBVIOUS
  <2>2. PieceSteps(f, c, s, m)
    BY <2>1, PieceStepsExist
  <2>3. textwrite(c, s) = f[m]
    BY <1>1, <1>2, <2>1 DEF textwrite, PieceSteps
  <2>4. QED BY <2>2, <2>3
<1>4. /\ f[0] = c
      /\ \A i \in 1..m : f[i] = WritePiece(f[i - 1], Bytes(s, (i - 1) * BUFSIZE, BUFSIZE))
  BY <1>3, PieceStepsShape DEF Pieced
<1> DEFINE Right(i) == PieceRight(f[i], c, s, Least(i * b, l))
           Bad == {i \in 0..m : ~Right(i)}
<1>5. Right(0)
  <2>1. Least(0 * b, l) = 0
    BY <1>1 DEF Least
  <2>2. SubSeq(s, 1, 0) = <<>>
    <3>1. 0 \in 0..Len(s)
      BY <1>1
    <3>2. Len(SubSeq(s, 1, 0)) = 0 /\ SubSeq(s, 1, 0) \in Seq(Byte)
      BY <3>1, FirstShape
    <3>3. QED BY <3>2, EmptySeq
  <2>3. Wrote(c, c, s, 0)
    <3>1. All(c) = Overlay(All(c), At(c), SubSeq(s, 1, 0), Hole)
      BY <2>2 DEF Overlay
    <3>2. At(c) = At(c) + 0
      <4>1. PICK x \in Nat, y \in Nat : x = c.spos /\ y = c.bpos
        BY DEF Sound, Calls
      <4>2. QED BY <4>1 DEF At
    <3>3. 0 \in 0..Len(s)
      BY <1>1
    <3>4. QED BY <3>1, <3>2, <3>3 DEF Wrote
  <2>4. QED BY <1>4, <2>1, <2>3 DEF PieceRight
<1>6. ASSUME NEW i \in 1..m, Right(i - 1)
      PROVE  Right(i)
  <2>1. PICK o \in Nat, q \in Nat : o = (i - 1) * b /\ q = i * b /\ q = o + b
    <3>1. (i - 1) * b \in Nat /\ i * b \in Nat
      BY <1>1
    <3>2. i * b = (i - 1) * b + b
      BY <1>1
    <3>3. QED BY <3>1, <3>2
  <2>2. o < l
    BY <1>1, <1>2, <2>1
  <2>3. PICK k \in Nat : k = Least(q, l) /\ k <= l /\ o <= k
    BY <1>1, <2>1, <2>2 DEF Least
  <2>4. Least(o, l) = o
    BY <2>2 DEF Least
  <2>5. PICK d : d = f[i - 1]
    OBVIOUS
  <2>6. PieceRight(d, c, s, o)
    BY <1>6, <2>1, <2>4, <2>5
  <2>7. f[i] = WritePiece(d, Bytes(s, o, b))
    BY <1>1, <1>4, <2>1, <2>5
  <2>8. Bytes(s, o, b) = SubSeq(s, o + 1, k)
    BY <1>1, <2>1, <2>3 DEF Bytes
  <2>9. d.ok \in BOOLEAN
    BY <2>6 DEF PieceRight, Sound, Calls
  <2>10. CASE d.ok
    <3>1. PieceRight(bWrite(d, SubSeq(s, o + 1, k)), c, s, k)
      BY <1>1, <2>3, <2>6, <2>10, PieceDoes
    <3>2. QED BY <2>1, <2>3, <2>7, <2>8, <2>10, <3>1 DEF WritePiece
  <2>11. CASE ~d.ok
    <3>1. f[i] = d
      BY <2>7, <2>11 DEF WritePiece
    <3>2. PieceRight(d, c, s, k)
      BY <2>6, <2>11 DEF PieceRight
    <3>3. QED BY <2>1, <2>3, <3>1, <3>2
  <2>12. QED BY <2>9, <2>10, <2>11
<1>7. Bad = {}
  <2>1. SUFFICES ASSUME Bad # {} PROVE FALSE
    OBVIOUS
  <2>2. Bad \in SUBSET Nat
    OBVIOUS
  <2>3. Min(Bad) \in Bad /\ \A y \in Bad : Min(Bad) <= y
    <3> HIDE DEF Bad
    <3>1. QED BY <2>1, <2>2, LeastExists
  <2>4. PICK i \in 0..m : i \in Bad /\ \A y \in Bad : i <= y
    BY <2>3
  <2>5. i # 0
    BY <1>5, <2>4
  <2>6. i \in 1..m /\ i - 1 \in 0..m /\ ~(i <= i - 1)
    BY <2>5
  <2>7. i - 1 \notin Bad
    BY <2>4, <2>6
  <2>8. Right(i - 1)
    BY <2>6, <2>7
  <2>9. Right(i)
    BY <1>6, <2>6, <2>8
  <2>10. QED BY <2>4, <2>9
<1>8. Right(m)
  BY <1>7
<1>9. Least(m * b, l) = l
  <2>1. PICK x \in Nat : x = m * b /\ l <= x
    BY <1>1, <1>2
  <2>2. Least(x, l) = l
    BY <2>1 DEF Least
  <2>3. QED BY <2>1, <2>2
<1>10. QED BY <1>1, <1>3, <1>8, <1>9

\* What write does to d, that was c without characters put back.
LEMMA writeDoes ==
  ASSUME NEW c, Sound(c), Behind(c), ~c.lost, c.ok, c.ubuf = <<>>, NEW s \in Seq(Byte)
  PROVE  PieceRight(write(c, s), c, s, Len(s))
<1>1. [c EXCEPT !.ubuf = <<>>] = c
  BY DEF Sound, Calls
<1>2. CASE "text" \in flags
  BY <1>1, <1>2, textwriteDoes DEF write
<1>3. CASE "text" \notin flags
  BY <1>1, <1>3, bWriteDoes DEF write, WriteRight, PieceRight
<1>4. QED BY <1>2, <1>3

-----------------------------------------------------------------------------
(* Reading a text *)

\* A call at position p of file a.
Stands(c, a, p) ==
  /\ Sound(c) /\ Behind(c) /\ ~c.lost /\ PutBack(c)
  /\ a = All(c) /\ p = Pos(c)

LEMMA Positions0 ==
  ASSUME NEW c, Sound(c), PutBack(c)
  PROVE  /\ All(c) \in Seq(Byte) /\ At(c) \in Nat /\ Pos(c) \in Nat
         /\ c.ubuf = <<>> => Pos(c) = At(c)
         /\ c.ubuf # <<>> => Pos(c) = At(c) - 1 /\ c.ubuf = Bytes(All(c), Pos(c), 1)
<1>1. PICK x \in Nat, y \in Nat, u \in Seq(Byte) : x = c.spos /\ y = c.bpos /\ u = c.ubuf
  BY DEF Sound, Calls
<1>2. PICK o \in Nat : o = x + y /\ At(c) = o
  BY <1>1 DEF At
<1>3. PICK l \in Nat : l = Len(u) /\ l <= 1
  <2>1. Len(u) \in Nat /\ Len(u) <= 1
    BY <1>1 DEF PutBack
  <2>2. QED BY <2>1
<1>4. Pos(c) = o - l
  BY <1>1, <1>2, <1>3 DEF Pos
<1>5. CASE u = <<>>
  <2>1. l = 0
    BY <1>3, <1>5
  <2>2. Pos(c) = o
    BY <1>4, <2>1
  <2>3. QED BY <1>1, <1>2, <1>5, <2>2, AllHolds
<1>6. CASE u # <<>>
  <2>1. l = 1
    <3>1. l # 0
      BY <1>3, <1>6, EmptySeq
    <3>2. QED BY <1>3, <3>1
  <2>2. y > 0 /\ u = Bytes(All(c), At(c) - 1, 1)
    BY <1>1, <1>6 DEF PutBack
  <2>3. PICK p \in Nat : p = o - 1
    BY <1>2, <2>2
  <2>4. Pos(c) = p /\ At(c) - 1 = p
    BY <1>2, <1>4, <2>1, <2>3
  <2>5. QED BY <1>1, <1>2, <1>6, <2>2, <2>4, AllHolds
<1>7. QED BY <1>5, <1>6

\* One byte has been asked for.
GotOne(d, a, p) ==
  /\ Sound(d) /\ Behind(d) /\ d.lost = FALSE /\ a = All(d) /\ d.ubuf = <<>>
  /\ d.ok \in BOOLEAN /\ d.got \in Seq(Byte)
  /\ d.ok => /\ d.got = Bytes(a, p, 1) /\ Len(d.got) <= 1 /\ At(d) = p + Len(d.got)
             /\ d.got # <<>> => Len(d.got) = 1 /\ d.bpos > 0
  /\ ~d.ok => At(d) = p

LEMMA readOne ==
  ASSUME NEW c, NEW a, NEW p, Stands(c, a, p), c.got = <<>>
  PROVE  GotOne(read(c, 1), a, p)
<1>1. a \in Seq(Byte) /\ p \in Nat
  BY Positions0 DEF Stands
<1>2. PICK d : d = read(c, 1)
  OBVIOUS
<1>3. ReadAt(d, c, a, p, 1)
  <2>1. 1 \in Nat \ {0}
    OBVIOUS
  <2>2. QED BY <1>2, <2>1, readDoes DEF Stands
<1>4. PICK b \in Seq(Byte) : b = Bytes(a, p, 1)
  BY <1>1, BytesShape
<1>5. PICK k \in Nat : k = Len(b) /\ k <= 1
  <2>1. PICK x \in Seq(Byte), q \in Nat, i \in Nat : x = a /\ q = p /\ i = 1
    BY <1>1
  <2>2. Len(Bytes(x, q, i)) = IF q + i <= Len(x) THEN i ELSE IF q <= Len(x) THEN Len(x) - q ELSE 0
    BY BytesShape
  <2>a. Len(x) \in Nat /\ Len(b) \in Nat /\ b = Bytes(x, q, i)
    BY <1>4, <2>1
  <2>3. Len(b) <= 1
    <3>1. PICK l \in Nat, j \in Nat : l = Len(x) /\ j = Len(b)
      BY <2>a
    <3>2. j = IF q + 1 <= l THEN 1 ELSE IF q <= l THEN l - q ELSE 0
      BY <2>1, <2>2, <2>a, <3>1
    <3>3. j <= 1
      BY <3>2
    <3>4. QED BY <3>1, <3>3
  <2>4. QED BY <2>3, <2>a
<1>6. d \in Calls /\ d.ok \in BOOLEAN /\ d.lost \in BOOLEAN /\ d.got \in Seq(Byte)
  BY <1>3 DEF ReadAt, Sound, Calls
<1>7. d.lost = FALSE
  <2>1. ~(1 > BUFSIZE)
    BY DeviceAssumption
  <2>2. QED BY <1>3, <1>6, <2>1 DEF ReadAt
<1>8. ASSUME d.ok
      PROVE  /\ d.got = b /\ At(d) = p + k
             /\ d.got # <<>> => k = 1 /\ d.bpos > 0
  <2>1. d.got = b
    BY <1>3, <1>4, <1>8, ConcatEmptySeq DEF ReadAt
  <2>2. At(d) = p + k /\ (k = 1 => d.bpos > 0)
    BY <1>3, <1>4, <1>5, <1>7, <1>8 DEF ReadAt
  <2>3. d.got # <<>> => k = 1
    <3>1. d.got # <<>> => k # 0
      <4>1. b # <<>> => Len(b) # 0
        BY EmptySeq
      <4>2. QED BY <1>5, <2>1, <4>1
    <3>2. QED BY <1>5, <3>1
  <2>4. QED BY <2>1, <2>2, <2>3
<1>9. ~d.ok => At(d) = p
  BY <1>3, <1>7 DEF ReadAt
<1>10. Sound(d) /\ Behind(d) /\ a = All(d) /\ d.ubuf = <<>>
  BY <1>3, <1>7 DEF ReadAt
<1>11. QED BY <1>2, <1>4, <1>5, <1>6, <1>7, <1>8, <1>9, <1>10 DEF GotOne

\* At the end of the file, or when the device fails.
LEMMA StaysThere ==
  ASSUME NEW d, NEW a, NEW p, p \in Nat, GotOne(d, a, p), ~d.ok \/ d.got = <<>>
  PROVE  Stands(d, a, p)
<1>1. At(d) = p
  <2>1. CASE d.ok
    <3>1. At(d) = p + Len(<<>>)
      BY <2>1 DEF GotOne
    <3>2. p + 0 = p
      OBVIOUS
    <3>3. QED BY <3>1, <3>2, EmptySeq
  <2>2. CASE ~d.ok
    BY <2>2 DEF GotOne
  <2>3. QED BY <2>1, <2>2
<1>2. PutBack(d)
  BY EmptySeq DEF GotOne, PutBack
<1>3. Pos(d) = p
  BY <1>1, <1>2, Positions0 DEF GotOne
<1>4. QED BY <1>2, <1>3 DEF Stands, GotOne

\* The byte is kept.
LEMMA MovesOn ==
  ASSUME NEW d, NEW a, NEW p, p \in Nat, GotOne(d, a, p), d.ok
  PROVE  Stands(d, a, p + Len(d.got))
<1>2. PutBack(d)
  BY EmptySeq DEF GotOne, PutBack
<1>3. Pos(d) = At(d)
  BY <1>2, Positions0 DEF GotOne
<1>4. QED BY <1>2, <1>3 DEF Stands, GotOne

\* The byte is put back.
LEMMA ungetcDoes ==
  ASSUME NEW d, NEW a, NEW p, p \in Nat, GotOne(d, a, p), d.ok, d.got # <<>>
  PROVE  /\ Stands(ungetc(d, d.got[1]), a, p) /\ ungetc(d, d.got[1]).ok = d.ok
         /\ ungetc(d, d.got[1]).ubuf = d.got /\ d.got = <<d.got[1]>>
<1>1. PICK g \in Seq(Byte) : g = d.got /\ Len(g) = 1 /\ g = Bytes(a, p, 1)
  BY DEF GotOne
<1>2. PICK x \in Byte : x = g[1]
  <2>1. 1 \in 1..Len(g)
    BY <1>1
  <2>2. QED BY <2>1
<1>3. g = <<x>>
  BY <1>1, <1>2
<1>4. PICK z : z = [d EXCEPT !.ubuf = g]
  OBVIOUS
<1>5. ungetc(d, d.got[1]) = z
  <2>1. Append(d.ubuf, x) = g
    BY <1>3 DEF GotOne
  <2>2. QED BY <1>1, <1>2, <1>4, <2>1 DEF ungetc
<1>6. d \in Calls
  BY DEF GotOne, Sound
<1>7. z \in Calls /\ z.ubuf = g
  BY <1>4, <1>6 DEF Calls
<1>8. z.disk = d.disk /\ z.kpos = d.kpos /\ z.spos = d.spos /\ z.buf = d.buf /\ z.bpos = d.bpos /\ z.modf = d.modf
  BY <1>4, <1>6 DEF Calls
<1>9. z.ok = d.ok /\ z.lost = d.lost
  BY <1>4, <1>6 DEF Calls
<1>10. Sound(z) /\ Behind(z) /\ All(z) = All(d) /\ At(z) = At(d)
  BY <1>7, <1>8 DEF GotOne, Sound, Behind, All, At
<1>11. At(d) = p + 1 /\ d.bpos > 0 /\ a = All(d)
  BY <1>1 DEF GotOne
<1>12. At(z) - 1 = p
  <2>1. At(z) = p + 1
    BY <1>10, <1>11
  <2>2. QED BY <2>1
<1>13. PutBack(z)
  <2>1. Len(z.ubuf) <= 1
    <3>1. Len(z.ubuf) = Len(g)
      BY <1>7
    <3>2. Len(g) = 1 /\ 1 <= 1
      BY <1>1
    <3>3. QED BY <3>1, <3>2
  <2>2. z.bpos > 0
    BY <1>8, <1>11
  <2>3. z.ubuf = Bytes(All(z), At(z) - 1, 1)
    <3>1. All(z) = a
      BY <1>10, <1>11
    <3>2. Bytes(All(z), At(z) - 1, 1) = Bytes(a, p, 1)
      BY <1>12, <3>1, Zenon
    <3>3. QED BY <1>1, <1>7, <3>2, Zenon
  <2>4. QED BY <2>1, <2>2, <2>3 DEF PutBack
<1>14. Pos(z) = p
  <2>1. z.ubuf # <<>>
    BY <1>1, <1>7
  <2>2. QED BY <1>10, <1>12, <1>13, <2>1, Positions0
<1>15. z.lost = FALSE
  BY <1>9 DEF GotOne
<1>16. QED
  BY <1>1, <1>2, <1>3, <1>5, <1>7, <1>9, <1>10, <1>11, <1>13, <1>14, <1>15 DEF Stands

\* The state of a TextRead at position p of file a.
Ends == {"none", "error", "endOfInput", "endOfLine"}
TextState(t, a, p) ==
  /\ t = [c |-> t.c, s |-> t.s, end |-> t.end]
  /\ Stands(t.c, a, p) /\ t.end \in Ends
  /\ (t.end = "error") = (~t.c.ok)
  /\ t.end = "endOfInput" => Bytes(a, p, 1) = <<>>
  /\ t.end = "endOfLine" => Bytes(a, p, 1) = <<LF>>

OneCharacter(t, a, p) ==
  \/ t.end = "none" /\ t.s = Bytes(a, p, 1) /\ Len(t.s) = 1 /\ t.s # <<LF>> /\ TextState(t, a, p + 1)
  \/ t.end # "none" /\ t.s = <<>> /\ TextState(t, a, p)

LEMMA TextRead1Does ==
  ASSUME NEW c, NEW a, NEW p, Stands(c, a, p)
  PROVE  OneCharacter(TextRead1(c), a, p)
<1>1. a \in Seq(Byte) /\ p \in Nat
  BY Positions0 DEF Stands
<1>2. PICK y : y = [c EXCEPT !.got = <<>>]
  OBVIOUS
<1>3. c \in Calls
  BY DEF Stands, Sound
<1>4. y \in Calls /\ y.got = <<>>
  BY <1>2, <1>3, EmptySeq DEF Calls
<1>5. y.disk = c.disk /\ y.kpos = c.kpos /\ y.spos = c.spos /\ y.buf = c.buf /\ y.bpos = c.bpos /\ y.modf = c.modf
  BY <1>2, <1>3 DEF Calls
<1>6. y.ubuf = c.ubuf /\ y.lost = c.lost
  BY <1>2, <1>3 DEF Calls
<1>7. Sound(y) /\ Behind(y)
  BY <1>4, <1>5 DEF Stands, Sound, Behind
<1>8. All(y) = All(c) /\ At(y) = At(c)
  BY <1>5 DEF All, At
<1>9. PutBack(y) /\ Pos(y) = Pos(c)
  BY <1>5, <1>6, <1>8 DEF Stands, PutBack, Pos
<1>10. Stands(y, a, p)
  BY <1>6, <1>7, <1>8, <1>9 DEF Stands
<1>11. PICK d : d = read(y, 1)
  OBVIOUS
<1>12. GotOne(d, a, p)
  BY <1>4, <1>10, <1>11, readOne
<1>13. PICK t : t = TextRead1(c)
  OBVIOUS
<1>14. CASE ~d.ok
  <2>1. t = [c |-> d, s |-> <<>>, end |-> "error"]
    BY <1>2, <1>11, <1>13, <1>14 DEF TextRead1
  <2>2. Stands(d, a, p)
    BY <1>1, <1>12, <1>14, StaysThere
  <2>3. TextState(t, a, p)
    BY <1>14, <2>1, <2>2 DEF TextState, Ends
  <2>4. QED BY <1>13, <2>1, <2>3 DEF OneCharacter
<1>15. CASE d.ok /\ d.got = <<>>
  <2>1. t = [c |-> d, s |-> <<>>, end |-> "endOfInput"]
    BY <1>2, <1>11, <1>13, <1>15 DEF TextRead1
  <2>2. Stands(d, a, p)
    BY <1>1, <1>12, <1>15, StaysThere
  <2>3. Bytes(a, p, 1) = <<>>
    BY <1>12, <1>15 DEF GotOne
  <2>4. TextState(t, a, p)
    BY <1>15, <2>1, <2>2, <2>3 DEF TextState, Ends
  <2>5. QED BY <1>13, <2>1, <2>4 DEF OneCharacter
<1>16. CASE d.ok /\ d.got # <<>> /\ d.got = <<LF>>
  <2>1. PICK z : z = ungetc(d, LF)
    OBVIOUS
  <2>2. t = [c |-> z, s |-> <<>>, end |-> "endOfLine"]
    BY <1>2, <1>11, <1>13, <1>16, <2>1 DEF TextRead1
  <2>3. d.got[1] = LF
    BY <1>16
  <2>4. Stands(z, a, p) /\ z.ok = d.ok
    BY <1>1, <1>12, <1>16, <2>1, <2>3, ungetcDoes
  <2>5. Bytes(a, p, 1) = <<LF>>
    BY <1>12, <1>16 DEF GotOne
  <2>6. TextState(t, a, p)
    BY <1>16, <2>2, <2>4, <2>5 DEF TextState, Ends
  <2>7. QED BY <1>13, <2>2, <2>6 DEF OneCharacter
<1>17. CASE d.ok /\ d.got # <<>> /\ d.got # <<LF>>
  <2>1. t = [c |-> d, s |-> d.got, end |-> "none"]
    BY <1>2, <1>11, <1>13, <1>17 DEF TextRead1
  <2>2. d.got = Bytes(a, p, 1) /\ Len(d.got) = 1
    BY <1>12, <1>17 DEF GotOne
  <2>3. Stands(d, a, p + 1)
    <3>1. Stands(d, a, p + Len(d.got))
      BY <1>1, <1>12, <1>17, MovesOn
    <3>2. QED BY <2>2, <3>1
  <2>4. TextState(t, a, p + 1)
    BY <1>17, <2>1, <2>3 DEF TextState, Ends
  <2>5. t.end = "none" /\ t.s = Bytes(a, p, 1) /\ Len(t.s) = 1 /\ t.s # <<LF>>
    BY <1>17, <2>1, <2>2
  <2>6. QED BY <1>13, <2>4, <2>5 DEF OneCharacter
<1>18. d.ok \in BOOLEAN
  BY <1>12 DEF GotOne
<1>19. QED BY <1>14, <1>15, <1>16, <1>17, <1>18

\* So many characters have been read, none of them a line mark, and when the
\* reading has ended, fewer than were asked for.
TextGot(t, a, p, i) ==
  /\ t.s \in Seq(Byte) /\ Len(t.s) <= i
  /\ t.s = Bytes(a, p, Len(t.s))
  /\ \A j \in 1..Len(t.s) : t.s[j] # LF
  /\ TextState(t, a, p + Len(t.s))
  /\ t.end = "none" => Len(t.s) = i
  /\ t.end # "none" => Len(t.s) < i

LEMMA ReadOnDoes ==
  ASSUME NEW t, NEW a, NEW p, NEW i, TextGot(t, a, p, i), a \in Seq(Byte), p \in Nat, i \in Nat
  PROVE  TextGot(ReadOn(t), a, p, i + 1)
<1>1. PICK k \in Nat : k = Len(t.s) /\ k <= i
  <2>1. Len(t.s) \in Nat /\ Len(t.s) <= i
    BY DEF TextGot
  <2>2. QED BY <2>1
<1>2. CASE t.end # "none"
  <2>1. ReadOn(t) = t
    BY <1>2 DEF ReadOn
  <2>2. k < i
    BY <1>1, <1>2 DEF TextGot
  <2>3. Len(t.s) <= i + 1 /\ Len(t.s) < i + 1
    BY <1>1, <2>2
  <2>4. QED BY <1>2, <2>1, <2>3 DEF TextGot
<1>3. CASE t.end = "none"
  <2>1. k = i
    BY <1>1, <1>3 DEF TextGot
  <2>2. PICK o \in Nat : o = p + k
    BY <1>1
  <2>3. Stands(t.c, a, o)
    BY <1>1, <2>2 DEF TextGot, TextState
  <2>4. PICK u : u = TextRead1(t.c)
    OBVIOUS
  <2>5. OneCharacter(u, a, o)
    BY <2>3, <2>4, TextRead1Does
  <2>6. PICK v \in Seq(Byte) : v = t.s
    BY DEF TextGot
  <2>7. PICK x \in Seq(Byte) : x = Bytes(a, o, 1)
    BY BytesShape
  <2>8. PICK r : r = ReadOn(t)
    OBVIOUS
  <2>9. r = [u EXCEPT !.s = v \o @]
    BY <1>3, <2>4, <2>6, <2>8 DEF ReadOn
  <2>10. v = Bytes(a, p, k) /\ Len(v) = k /\ \A j \in 1..k : v[j] # LF
    BY <1>1, <2>6 DEF TextGot
  <2>11. u = [c |-> u.c, s |-> u.s, end |-> u.end]
    BY <2>5 DEF OneCharacter, TextState
  <2>12. r = [c |-> u.c, s |-> v \o u.s, end |-> u.end]
    BY <2>9, <2>11
  <2>13. r.c = u.c /\ r.s = v \o u.s /\ r.end = u.end /\ r = [c |-> r.c, s |-> r.s, end |-> r.end]
    BY <2>12
  <2>14. CASE u.end # "none"
    <3>1. u.s = <<>> /\ TextState(u, a, o)
      BY <2>5, <2>14 DEF OneCharacter
    <3>2. r.s = v
      BY <2>13, <3>1, ConcatEmptySeq
    <3>3. TextState(r, a, o)
      BY <2>13, <3>1 DEF TextState
    <3>4. k <= i + 1 /\ k < i + 1
      BY <1>1
    <3>5. QED BY <2>2, <2>8, <2>10, <2>13, <2>14, <3>2, <3>3, <3>4 DEF TextGot
  <2>15. CASE u.end = "none"
    <3>1. u.s = x /\ Len(x) = 1 /\ x # <<LF>> /\ TextState(u, a, o + 1)
      BY <2>5, <2>7, <2>15 DEF OneCharacter
    <3>2. PICK w \in Seq(Byte) : w = v \o x
      BY ConcatProperties
    <3>3. Len(w) = k + 1
      <4>1. Len(v \o x) = Len(v) + Len(x)
        BY CatLen DEF Cat
      <4>2. QED BY <2>10, <3>1, <3>2, <4>1
    <3>4. w = Bytes(a, p, k + 1)
      <4>1. PICK n \in Nat, e \in Nat : n = k + 1 /\ e = 1
        OBVIOUS
      <4>2. Joined(a, p, n, k, o, e)
        BY <1>1, <2>2, <2>10, <4>1 DEF Joined
      <4>3. Bytes(a, p, n) = Cat(Bytes(a, p, k), Bytes(a, o, e))
        BY <4>2, BytesJoin
      <4>4. QED BY <2>7, <2>10, <3>2, <4>1, <4>3 DEF Cat
    <3>5. x[1] # LF
      BY <3>1
    <3>6. ASSUME NEW j \in 1..k + 1 PROVE w[j] # LF
      <4>1. CASE j \in 1..k
        <5>1. w[j] = v[j]
          BY <2>10, <3>2, <4>1
        <5>2. QED BY <2>10, <4>1, <5>1
      <4>2. CASE j = k + 1
        <5>1. w[j] = x[1]
          <6>1. \A h \in 1..Len(v) + Len(x) : (v \o x)[h] = IF h <= Len(v) THEN v[h] ELSE x[h - Len(v)]
            BY ConcatProperties
          <6>2. PICK next \in Nat : next = k + 1 /\ next \in 1..k + 1 /\ ~(next <= k) /\ next - k = 1
            OBVIOUS
          <6>a. \A h \in 1..k + 1 : w[h] = IF h <= k THEN v[h] ELSE x[h - k]
            BY <2>10, <3>1, <3>2, <6>1
          <6>3. w[next] = x[next - k]
            BY <6>2, <6>a
          <6>4. QED BY <4>2, <6>2, <6>3
        <5>2. QED BY <3>5, <5>1
      <4>3. QED BY <4>1, <4>2
    <3>7. r.s = w
      BY <2>13, <3>1, <3>2
    <3>8. o + 1 = p + (k + 1) /\ k + 1 = i + 1 /\ k + 1 <= i + 1
      BY <2>1, <2>2
    <3>9. TextState(r, a, o + 1)
      BY <2>13, <3>1 DEF TextState
    <3>10. PICK n \in Nat : n = k + 1 /\ n = i + 1 /\ o + 1 = p + n
      BY <3>8
    <3>11. Len(r.s) = n /\ r.s = Bytes(a, p, n) /\ \A j \in 1..n : r.s[j] # LF
      BY <3>3, <3>4, <3>6, <3>7, <3>10
    <3>12. TextState(r, a, p + n) /\ r.s \in Seq(Byte) /\ r.end = "none"
      BY <2>13, <2>15, <3>7, <3>9, <3>10
    <3>13. TextGot(r, a, p, n)
      <4>1. n <= n
        OBVIOUS
      <4>2. QED BY <3>11, <3>12, <4>1 DEF TextGot
    <3>14. QED BY <2>8, <3>10, <3>13
  <2>16. QED BY <2>14, <2>15
<1>4. QED BY <1>2, <1>3

\* The state after each character.
ReadSteps(f, c, m) ==
  f = [i \in 0..m |-> IF i = 0 THEN [c |-> c, s |-> <<>>, end |-> "none"] ELSE ReadOn(f[i - 1])]
Stepped(f, c, m) ==
  /\ f = [i \in 0..m |-> f[i]] /\ f[0] = [c |-> c, s |-> <<>>, end |-> "none"]
  /\ \A i \in 1..m : f[i] = ReadOn(f[i - 1])

LEMMA ReadStepsShape ==
  ASSUME NEW f, NEW c, NEW m \in Nat
  PROVE  ReadSteps(f, c, m) <=> Stepped(f, c, m)
<1>1. ASSUME ReadSteps(f, c, m)
      PROVE  /\ f = [i \in 0..m |-> f[i]] /\ f[0] = [c |-> c, s |-> <<>>, end |-> "none"]
             /\ \A i \in 1..m : f[i] = ReadOn(f[i - 1])
  <2>1. PICK g : g = f /\ g = [i \in 0..m |-> IF i = 0 THEN [c |-> c, s |-> <<>>, end |-> "none"] ELSE ReadOn(f[i - 1])]
    BY <1>1 DEF ReadSteps
  <2>2. \A i \in 0..m : g[i] = IF i = 0 THEN [c |-> c, s |-> <<>>, end |-> "none"] ELSE ReadOn(f[i - 1])
    BY <2>1
  <2>3. g = [i \in 0..m |-> g[i]]
    BY <2>1
  <2>4. 0 \in 0..m /\ \A i \in 1..m : i \in 0..m /\ i # 0
    OBVIOUS
  <2>5. QED BY <2>1, <2>2, <2>3, <2>4
<1>2. ASSUME f = [i \in 0..m |-> f[i]], f[0] = [c |-> c, s |-> <<>>, end |-> "none"],
             \A i \in 1..m : f[i] = ReadOn(f[i - 1])
      PROVE  ReadSteps(f, c, m)
  <2>1. \A i \in 0..m : f[i] = IF i = 0 THEN [c |-> c, s |-> <<>>, end |-> "none"] ELSE ReadOn(f[i - 1])
    <3>1. \A i \in 0..m : i = 0 \/ i \in 1..m
      OBVIOUS
    <3>2. QED BY <1>2, <3>1
  <2>2. [i \in 0..m |-> f[i]] = [i \in 0..m |-> IF i = 0 THEN [c |-> c, s |-> <<>>, end |-> "none"] ELSE ReadOn(f[i - 1])]
    BY <2>1
  <2>3. QED BY <1>2, <2>2 DEF ReadSteps
<1>3. QED BY <1>1, <1>2 DEF Stepped

LEMMA ReadStepsExist ==
  ASSUME NEW c, NEW n \in Nat
  PROVE  \E f : ReadSteps(f, c, n)
<1> DEFINE Bad == {m \in Nat : ~\E f : ReadSteps(f, c, m)}
<1>1. SUFFICES ASSUME n \in Bad PROVE FALSE
  OBVIOUS
<1>2. PICK m \in Nat : m \in Bad /\ \A y \in Bad : m <= y
  <2>1. Bad \in SUBSET Nat /\ Bad # {}
    BY <1>1
  <2> HIDE DEF Bad
  <2>2. Min(Bad) \in Bad /\ \A y \in Bad : Min(Bad) <= y
    BY <2>1, LeastExists
  <2>3. QED BY <2>1, <2>2
<1>3. ASSUME NEW f PROVE ~ReadSteps(f, c, m)
  BY <1>2
<1>4. m # 0
  <2>1. ASSUME m = 0 PROVE FALSE
    <3>1. PICK f : f = [i \in 0..m |-> [c |-> c, s |-> <<>>, end |-> "none"]]
      OBVIOUS
    <3>2. f = [i \in 0..m |-> f[i]] /\ f[0] = [c |-> c, s |-> <<>>, end |-> "none"] /\ 1..m = {}
      BY <2>1, <3>1
    <3>3. Stepped(f, c, m)
      BY <3>2 DEF Stepped
    <3>4. QED BY <1>3, <3>3, ReadStepsShape
  <2>2. QED BY <2>1
<1>5. PICK k \in Nat : m = k + 1
  BY <1>4
<1>6. PICK f : ReadSteps(f, c, k)
  <2>1. k \notin Bad
    BY <1>2, <1>5
  <2>2. QED BY <2>1
<1>7. /\ f[0] = [c |-> c, s |-> <<>>, end |-> "none"]
      /\ \A i \in 1..k : f[i] = ReadOn(f[i - 1])
  BY <1>6, ReadStepsShape DEF Stepped
<1>8. PICK x : x = ReadOn(f[k])
  OBVIOUS
<1>9. PICK g : g = [i \in 0..m |-> IF i = m THEN x ELSE f[i]]
  OBVIOUS
<1>10. g = [i \in 0..m |-> g[i]] /\ \A i \in 0..k : g[i] = f[i]
  BY <1>5, <1>9
<1>11. g[m] = x
  BY <1>9
<1>12. ASSUME NEW i \in 1..m
       PROVE  g[i] = ReadOn(g[i - 1])
  <2>1. CASE i = m
    <3>1. i - 1 = k /\ g[k] = f[k]
      <4>1. i - 1 = k /\ k \in 0..k
        BY <1>5, <2>1
      <4>2. QED BY <1>10, <4>1
    <3>2. QED BY <1>8, <1>11, <2>1, <3>1
  <2>2. CASE i # m
    <3>1. i \in 1..k /\ i \in 0..k /\ i - 1 \in 0..k
      BY <1>5, <2>2
    <3>2. g[i] = f[i] /\ g[i - 1] = f[i - 1]
      BY <1>10, <3>1
    <3>3. QED BY <1>7, <3>1, <3>2
  <2>3. QED BY <2>1, <2>2
<1>13. g[0] = [c |-> c, s |-> <<>>, end |-> "none"]
  <2>1. 0 \in 0..k
    OBVIOUS
  <2>2. g[0] = f[0]
    BY <1>10, <2>1
  <2>3. QED BY <1>7, <2>2
<1>14. ReadSteps(g, c, m)
  <2>1. Stepped(g, c, m)
    BY <1>10, <1>12, <1>13 DEF Stepped
  <2>2. QED BY <2>1, ReadStepsShape
<1>15. QED BY <1>3, <1>14

LEMMA TextReadsDoes ==
  ASSUME NEW c, NEW a, NEW p, Stands(c, a, p), c.ok, NEW n \in Nat
  PROVE  TextGot(TextReads(c, n), a, p, n)
<1>1. a \in Seq(Byte) /\ p \in Nat
  BY Positions0 DEF Stands
<1>2. PICK f : ReadSteps(f, c, n) /\ TextReads(c, n) = f[n]
  <2>1. PICK f : f = CHOOSE g : ReadSteps(g, c, n)
    OBVIOUS
  <2>2. ReadSteps(f, c, n)
    BY <2>1, ReadStepsExist
  <2>3. TextReads(c, n) = f[n]
    BY <2>1 DEF TextReads, ReadSteps
  <2>4. QED BY <2>2, <2>3
<1>3. /\ f[0] = [c |-> c, s |-> <<>>, end |-> "none"]
      /\ \A i \in 1..n : f[i] = ReadOn(f[i - 1])
  BY <1>2, ReadStepsShape DEF Stepped
<1> DEFINE Right(i) == TextGot(f[i], a, p, i)
           Bad == {i \in 0..n : ~Right(i)}
<1>4. Right(0)
  <2>1. PICK t : t = f[0]
    OBVIOUS
  <2>2. t = [c |-> t.c, s |-> t.s, end |-> t.end] /\ t.c = c /\ t.s = <<>> /\ t.end = "none"
    BY <1>3, <2>1
  <2>3. Len(t.s) = 0 /\ p + 0 = p /\ 1..0 = {} /\ 0 <= 0
    <3>1. Len(t.s) = 0
      BY <2>2, EmptySeq
    <3>2. p + 0 = p /\ 1..0 = {} /\ 0 <= 0
      BY <1>1
    <3>3. QED BY <3>1, <3>2
  <2>4. Bytes(a, p, 0) = <<>>
    BY <1>1, HeldEmpty DEF Held
  <2>5. TextState(t, a, p)
    BY <2>2 DEF TextState, Ends
  <2>6. t.s \in Seq(Byte) /\ t.s = Bytes(a, p, Len(t.s)) /\ \A j \in 1..Len(t.s) : t.s[j] # LF
    BY <2>2, <2>3, <2>4, EmptySeq
  <2>7. QED BY <2>1, <2>2, <2>3, <2>5, <2>6 DEF TextGot
<1>5. ASSUME NEW i \in 1..n, Right(i - 1)
      PROVE  Right(i)
  <2>1. PICK j \in Nat : j = i - 1 /\ i = j + 1
    OBVIOUS
  <2>2. TextGot(f[j], a, p, j)
    BY <1>5, <2>1
  <2>3. TextGot(ReadOn(f[j]), a, p, j + 1)
    BY <1>1, <2>2, ReadOnDoes
  <2>4. QED BY <1>3, <2>1, <2>3
<1>6. Bad = {}
  <2>1. SUFFICES ASSUME Bad # {} PROVE FALSE
    OBVIOUS
  <2>2. Bad \in SUBSET Nat
    OBVIOUS
  <2>3. Min(Bad) \in Bad /\ \A y \in Bad : Min(Bad) <= y
    <3> HIDE DEF Bad
    <3>1. QED BY <2>1, <2>2, LeastExists
  <2>4. PICK i \in 0..n : i \in Bad /\ \A y \in Bad : i <= y
    BY <2>3
  <2>5. i # 0
    BY <1>4, <2>4
  <2>6. i \in 1..n /\ i - 1 \in 0..n /\ ~(i <= i - 1)
    BY <2>5
  <2>7. i - 1 \notin Bad
    BY <2>4, <2>6
  <2>8. Right(i - 1)
    BY <2>6, <2>7
  <2>9. Right(i)
    BY <1>5, <2>6, <2>8
  <2>10. QED BY <2>4, <2>9
<1>7. Right(n)
  BY <1>6
<1>8. QED BY <1>2, <1>7

\* The bytes of a line of file a from position p, at most n of them.
FirstLine(s) ==
  LET ends == {i \in 1..Len(s) : s[i] = LF}
  IN  IF ends = {} THEN s ELSE SubSeq(s, 1, (CHOOSE i \in ends : \A j \in ends : i <= j) - 1)
LineOf(a, p, n) == FirstLine(Bytes(a, p, n))

\* A TextRead without error gets the rest of the line.
LEMMA LineIsRead ==
  ASSUME NEW t, NEW a \in Seq(Byte), NEW p \in Nat, NEW n \in Nat, TextGot(t, a, p, n), t.c.ok
  PROVE  t.s = LineOf(a, p, n)
<1>1. PICK k \in Nat, v \in Seq(Byte) : v = t.s /\ k = Len(v) /\ k <= n
  <2>1. t.s \in Seq(Byte) /\ Len(t.s) <= n
    BY DEF TextGot
  <2>2. Len(t.s) \in Nat
    BY <2>1
  <2>3. QED BY <2>1, <2>2
<1>2. v = Bytes(a, p, k) /\ \A j \in 1..k : v[j] # LF
  BY <1>1 DEF TextGot
<1>3. PICK o \in Nat : o = p + k
  OBVIOUS
<1>4. TextState(t, a, o)
  BY <1>1, <1>3 DEF TextGot
<1>5. t.end \in {"none", "endOfInput", "endOfLine"}
  BY <1>4 DEF TextState, Ends
<1>6. PICK s \in Seq(Byte) : s = Bytes(a, p, n)
  BY BytesShape
<1>7. PICK e \in Nat, x \in Seq(Byte) : n = k + e /\ x = Bytes(a, o, e)
  <2>1. n - k \in Nat /\ n = k + (n - k)
    BY <1>1
  <2>2. PICK e \in Nat : n = k + e
    BY <2>1
  <2>3. PICK x \in Seq(Byte) : x = Bytes(a, o, e)
    BY BytesShape
  <2>4. QED BY <2>2, <2>3
<1>8. s = Cat(v, x)
  <2>1. Joined(a, p, n, k, o, e)
    BY <1>1, <1>2, <1>3, <1>7 DEF Joined
  <2>2. QED BY <1>2, <1>6, <1>7, <2>1, BytesJoin
<1>9. PICK m \in Nat : m = Len(s)
  OBVIOUS
<1>10. PICK l \in Nat : l = Len(a)
  OBVIOUS
<1>11. Len(x) = IF o + e <= l THEN e ELSE IF o <= l THEN l - o ELSE 0
  BY <1>7, <1>10, BytesShape
<1>12. m = k + Len(x) /\ Len(x) \in Nat
  <2>1. Len(Cat(v, x)) = Len(v) + Len(x)
    BY CatLen
  <2>2. QED BY <1>1, <1>8, <1>9, <2>1
<1>13. PICK b \in Seq(Byte) : b = Bytes(a, o, 1)
  BY BytesShape
<1>14. Len(b) = IF o + 1 <= l THEN 1 ELSE IF o <= l THEN l - o ELSE 0
  <2>1. PICK i \in Nat : i = 1
    OBVIOUS
  <2>2. Len(Bytes(a, o, i)) = IF o + i <= Len(a) THEN i ELSE IF o <= Len(a) THEN Len(a) - o ELSE 0
    BY BytesShape
  <2>3. QED BY <1>10, <1>13, <2>1, <2>2
<1> DEFINE marks == {i \in 1..Len(s) : s[i] = LF}
<1>15. LineOf(a, p, n) = IF marks = {} THEN s ELSE SubSeq(s, 1, (CHOOSE i \in marks : \A j \in marks : i <= j) - 1)
  BY <1>6 DEF LineOf, FirstLine
<1>16. \A j \in 1..k : s[j] = v[j]
  <2>1. \A h \in 1..Len(v) + Len(x) : (v \o x)[h] = IF h <= Len(v) THEN v[h] ELSE x[h - Len(v)]
    BY ConcatProperties
  <2>2. QED BY <1>1, <1>8, <1>12, <2>1 DEF Cat
<1>17. CASE t.end = "none" \/ t.end = "endOfInput"
  <2>1. Len(x) = 0
    <3>1. CASE t.end = "none"
      <4>1. k = n
        BY <1>1, <3>1 DEF TextGot
      <4>2. QED BY <1>7, <1>10, <1>11, <4>1
    <3>2. CASE t.end = "endOfInput"
      <4>1. Len(b) = 0
        BY <1>4, <1>13, <3>2 DEF TextState
      <4>2. QED BY <1>11, <1>14, <4>1
    <3>3. QED BY <1>17, <3>1, <3>2
  <2>2. x = <<>>
    BY <2>1, EmptySeq
  <2>3. s = v
    BY <1>8, <2>2, ConcatEmptySeq DEF Cat
  <2>4. marks = {}
    BY <1>1, <1>2, <2>3
  <2>5. QED BY <1>1, <1>15, <2>3, <2>4
<1>18. CASE t.end = "endOfLine"
  <2>1. k < n
    BY <1>1, <1>18 DEF TextGot
  <2>2. b = <<LF>>
    BY <1>4, <1>13, <1>18 DEF TextState
  <2>3. Len(b) = 1 /\ b[1] = LF
    BY <2>2
  <2>4. o + 1 <= l /\ e > 0
    <3>1. e > 0
      BY <1>7, <2>1
    <3>2. 1 = IF o + 1 <= l THEN 1 ELSE IF o <= l THEN l - o ELSE 0
      BY <1>14, <2>3
    <3>3. o + 1 <= l
      BY <3>2
    <3>4. QED BY <3>1, <3>3
  <2>5. a[o + 1] = LF
    <3>1. PICK i \in Nat : i = 1
      OBVIOUS
    <3>2. Read(a, o, i, b)
      BY <1>13, <3>1 DEF Read
    <3>3. \A h \in 1..Len(b) : b[h] = a[o + h]
      BY <3>2, ReadShape
    <3>4. \A h \in 1..1 : b[h] = a[o + h]
      BY <2>3, <3>3
    <3>5. b[1] = a[o + 1]
      BY <3>4
    <3>6. QED BY <2>3, <3>5
  <2>6. Len(x) >= 1
    BY <1>11, <2>4
  <2>7. PICK h \in Nat : h = k + 1 /\ h <= m /\ h \in 1..m /\ h - 1 = k
    BY <1>12, <2>6
  <2>8. s[h] = LF
    <3>a. Read(a, p, n, s)
      BY <1>6 DEF Read
    <3>1. \A i \in 1..Len(s) : s[i] = a[p + i]
      BY <3>a, ReadShape
    <3>2. s[h] = a[p + h]
      BY <1>9, <2>7, <3>1
    <3>3. p + h = o + 1
      BY <1>3, <2>7
    <3>4. QED BY <2>5, <3>2, <3>3
  <2>9. h \in marks
    BY <1>9, <2>7, <2>8
  <2>10. \A j \in marks : j \in 1..m /\ ~(j <= k)
    BY <1>2, <1>9, <1>16
  <2>11. \A j \in marks : h <= j
    BY <2>7, <2>10
  <2>12. PICK g : g = CHOOSE i \in marks : \A j \in marks : i <= j
    OBVIOUS
  <2>13. g \in marks /\ \A j \in marks : g <= j
    BY <2>9, <2>11, <2>12
  <2>14. g = h
    <3>1. g \in 1..m /\ g <= h /\ h <= g
      BY <2>9, <2>10, <2>11, <2>13
    <3>2. QED BY <2>7, <3>1
  <2>15. LineOf(a, p, n) = SubSeq(s, 1, k)
    BY <1>15, <2>7, <2>9, <2>12, <2>14
  <2>16. SubSeq(s, 1, k) = v
    <3>1. k \in 0..Len(Bytes(a, p, n))
      BY <1>6, <1>9, <1>12
    <3>2. SubSeq(Bytes(a, p, n), 1, k) = Bytes(a, p, k)
      BY <3>1, BytesPrefix
    <3>3. QED BY <1>2, <1>6, <3>2
  <2>17. QED BY <1>1, <2>15, <2>16
<1>19. QED BY <1>5, <1>17, <1>18

-----------------------------------------------------------------------------
(* The state between two calls *)

\* The invariant.  After a call that has lost the position the buffer is empty, or
\* still has to be written.
Inv ==
  /\ TypeOK /\ Sound(Call(0))
  /\ Opened => PutBack(Call(0))
  /\ Opened => IF lost THEN modf \/ buf = <<>> ELSE Behind(Call(0))
  /\ chan \notin {"open", "ended"} => ~modf

\* What a call begins with.
Begins(c) ==
  /\ Sound(c) /\ PutBack(c) /\ All(c) = Content /\ Pos(c) = Where /\ At(c) = spos + bpos
  /\ c.disk = disk /\ c.kpos = kpos /\ c.spos = spos /\ c.buf = buf /\ c.bpos = bpos
  /\ c.modf = modf /\ c.ubuf = ubuf /\ c.got = <<>> /\ c.ok = TRUE /\ c.lost = FALSE
  /\ ~lost => Behind(c)
  /\ lost => modf \/ buf = <<>>
  /\ Content \in Seq(Byte) /\ Where \in Nat

LEMMA CallBeginsAt ==
  ASSUME Inv, Opened, NEW room \in Nat
  PROVE  Begins(Call(room))
<1>1. PICK c : c = Call(room)
  OBVIOUS
<1>2. /\ c.disk = disk /\ c.kpos = kpos /\ c.spos = spos /\ c.buf = buf /\ c.bpos = bpos
      /\ c.modf = modf /\ c.ubuf = ubuf /\ c.got = <<>> /\ c.ok = TRUE /\ c.lost = FALSE
  BY <1>1 DEF Call
<1>3. c \in Calls
  <2>1. room \in Nat
    OBVIOUS
  <2>2. /\ disk \in Seq(Byte) /\ kpos \in Nat /\ spos \in Nat /\ buf \in Seq(Byte) /\ bpos \in Nat
        /\ modf \in BOOLEAN /\ ubuf \in Seq(Byte)
    BY DEF Inv, TypeOK
  <2>3. QED BY <1>1, <2>1, <2>2, EmptySeq DEF Call, Calls
<1>4. PICK b : b = Call(0)
  OBVIOUS
<1>5. /\ b.disk = disk /\ b.kpos = kpos /\ b.spos = spos /\ b.buf = buf /\ b.bpos = bpos
      /\ b.modf = modf /\ b.ubuf = ubuf
  BY <1>4 DEF Call
<1>6. Sound(b) /\ PutBack(b) /\ IF lost THEN modf \/ buf = <<>> ELSE Behind(b)
  BY <1>4 DEF Inv
<1>7. Sound(c)
  BY <1>2, <1>3, <1>5, <1>6 DEF Sound
<1>8. All(c) = All(b) /\ At(c) = At(b)
  BY <1>2, <1>5 DEF All, At
<1>9. PutBack(c)
  BY <1>2, <1>5, <1>6, <1>8 DEF PutBack
<1>10. Behind(b) => Behind(c)
  BY <1>2, <1>5 DEF Behind
<1>11. All(c) = Content /\ At(c) = spos + bpos /\ Pos(c) = Where
  <2>1. All(c) = Content
    BY <1>2, Zenon DEF All, Content
  <2>2. At(c) = spos + bpos
    BY <1>2, Zenon DEF At
  <2>3. Pos(c) = Where
    <3>1. PICK x \in Int, y \in Int, l \in Int : x = spos /\ y = bpos /\ l = Len(ubuf)
      <4>1. spos \in Nat /\ bpos \in Nat /\ ubuf \in Seq(Byte)
        BY DEF Inv, TypeOK
      <4>2. QED BY <4>1
    <3>2. Pos(c) = x + y - l
      <4>1. Pos(c) = (x + y) - l
        BY <1>2, <2>2, <3>1 DEF Pos
      <4>2. QED BY <4>1
    <3>3. Where = x + y - l
      BY <3>1, Zenon DEF Where
    <3>4. QED BY <3>2, <3>3
  <2>4. QED BY <2>1, <2>2, <2>3
<1>12. Content \in Seq(Byte) /\ Where \in Nat
  <2>1. All(c) \in Seq(Byte) /\ Pos(c) \in Nat
    BY <1>7, <1>9, Positions0
  <2>2. QED BY <1>11, <2>1
<1>13. QED
  BY <1>1, <1>2, <1>6, <1>7, <1>9, <1>10, <1>11, <1>12 DEF Begins

LEMMA CallBegins ==
  ASSUME Inv, Opened, NEW room \in Rooms
  PROVE  Begins(Call(room))
BY CallBeginsAt, DeviceAssumption

\* What it leaves.
LEMMA CallLeaves ==
  ASSUME NEW d, Sound(d), Len(d.ubuf) <= 1, Leave(d)
  PROVE  /\ disk' \in Seq(Byte) /\ kpos' \in Nat /\ spos' \in Nat
         /\ buf' \in Seq(Byte) /\ Len(buf') <= BUFSIZE /\ bpos' \in 0..Len(buf')
         /\ modf' \in BOOLEAN /\ ubuf' \in Seq(Byte) /\ Len(ubuf') <= 1 /\ fault' \in BOOLEAN
         /\ Sound(Call(0))' /\ (PutBack(d) => PutBack(Call(0))') /\ (Behind(d) => Behind(Call(0))')
         /\ Content' = All(d) /\ Where' = Pos(d)
<1>1. /\ d.disk \in Seq(Byte) /\ d.kpos \in Nat /\ d.spos \in Nat /\ d.buf \in Seq(Byte) /\ d.bpos \in Nat
      /\ d.modf \in BOOLEAN /\ d.ubuf \in Seq(Byte)
  BY DEF Sound, Calls
<1>2. /\ disk' = d.disk /\ kpos' = d.kpos /\ spos' = d.spos /\ buf' = d.buf
      /\ bpos' = d.bpos /\ modf' = d.modf /\ ubuf' = d.ubuf /\ fault' = ~d.ok
  BY DEF Leave
<1>3. PICK b : b = [disk |-> d.disk, kpos |-> d.kpos, spos |-> d.spos, buf |-> d.buf, bpos |-> d.bpos,
                    modf |-> d.modf, ubuf |-> d.ubuf,
                    room |-> 0, got |-> <<>>, ok |-> TRUE, lost |-> FALSE]
  OBVIOUS
<1>4. Call(0)' = b
  BY <1>2, <1>3 DEF Call
<1>5. b \in Calls
  BY <1>1, <1>3, EmptySeq DEF Calls
<1>6. /\ b.disk = d.disk /\ b.kpos = d.kpos /\ b.spos = d.spos /\ b.buf = d.buf /\ b.bpos = d.bpos
      /\ b.modf = d.modf /\ b.ubuf = d.ubuf
  BY <1>3
<1>7. Sound(b)
  BY <1>5, <1>6 DEF Sound
<1>8. All(b) = All(d) /\ At(b) = At(d)
  BY <1>6 DEF All, At
<1>9. PutBack(d) => PutBack(b)
  BY <1>6, <1>8 DEF PutBack
<1>10. Behind(d) => Behind(b)
  BY <1>6 DEF Behind
<1>11. bpos' \in 0..Len(buf') /\ Len(buf') <= BUFSIZE
  <2>1. d.bpos <= Len(d.buf) /\ Len(d.buf) <= BUFSIZE
    BY DEF Sound
  <2>2. Len(d.buf) \in Nat
    BY <1>1
  <2>3. d.bpos \in 0..Len(d.buf)
    BY <1>1, <2>1, <2>2
  <2>4. QED BY <1>2, <2>1, <2>3
<1>12. Content' = All(d) /\ Where' = Pos(d)
  <2>1. Content' = All(d)
    BY <1>2, Zenon DEF All, Content
  <2>2. Where' = Pos(d)
    <3>1. PICK x \in Int, y \in Int, l \in Int : x = d.spos /\ y = d.bpos /\ l = Len(d.ubuf)
      BY <1>1
    <3>2. Pos(d) = x + y - l
      <4>1. Pos(d) = (x + y) - l
        BY <3>1 DEF Pos, At
      <4>2. QED BY <4>1
    <3>3. Where' = x + y - l
      <4>1. spos' = x /\ bpos' = y /\ Len(ubuf') = l
        BY <1>2, <3>1
      <4>2. QED BY <4>1, Zenon DEF Where
    <3>4. QED BY <3>2, <3>3
  <2>3. QED BY <2>1, <2>2
<1>13. QED
  BY <1>1, <1>2, <1>4, <1>7, <1>9, <1>10, <1>11, <1>12

\* The position and the mode that RandomFile speaks of.
PosOf == IF ~Channel THEN Closed ELSE IF lost \/ ~Opened THEN Unknown ELSE Where
ModeOf == IF kept \/ ~Channel THEN {} ELSE mode

LEMMA ModeStays ==
  ASSUME Stays
  PROVE  ModeOf' = ModeOf /\ kept' = kept /\ flags' = flags /\ mode' = mode /\ chan' = chan
BY DEF Stays, ModeOf, Channel

\* A call of an open channel that keeps it open.
LEMMA ReturnKeeps ==
  ASSUME Inv, Opened, ~lost, NEW d, Sound(d), PutBack(d), ~d.lost => Behind(d), d.lost => d.buf = <<>>,
         Return(d)
  PROVE  Inv' /\ Opened' /\ ModeOf' = ModeOf /\ lost' = d.lost /\ Content' = All(d) /\ Where' = Pos(d)
<1>1. /\ Leave(d) /\ lost' = (lost \/ d.lost) /\ flags' = flags /\ mode' = mode /\ chan' = chan
      /\ ModeOf' = ModeOf /\ kept' = kept
  BY ModeStays DEF Return
<1>2. d.lost \in BOOLEAN /\ d.buf \in Seq(Byte)
  BY DEF Sound, Calls
<1>3. lost' = d.lost /\ chan' = "open"
  BY <1>1, <1>2 DEF Opened
<1>4. Len(d.ubuf) <= 1
  BY DEF PutBack
<1>5. /\ disk' \in Seq(Byte) /\ kpos' \in Nat /\ spos' \in Nat
      /\ buf' \in Seq(Byte) /\ Len(buf') <= BUFSIZE /\ bpos' \in 0..Len(buf')
      /\ modf' \in BOOLEAN /\ ubuf' \in Seq(Byte) /\ Len(ubuf') <= 1 /\ fault' \in BOOLEAN
      /\ Sound(Call(0))' /\ PutBack(Call(0))' /\ (Behind(d) => Behind(Call(0))')
      /\ Content' = All(d) /\ Where' = Pos(d)
  BY <1>1, <1>4, CallLeaves
<1>6. TypeOK'
  BY <1>1, <1>2, <1>3, <1>5 DEF Inv, TypeOK
<1>7. IF lost' THEN modf' \/ buf' = <<>> ELSE Behind(Call(0))'
  <2>1. buf' = d.buf
    BY <1>1 DEF Leave
  <2>2. QED BY <1>2, <1>3, <1>5, <2>1
<1>8. Opened'
  BY <1>3 DEF Opened
<1>9. ~(chan' \notin {"open", "ended"})
  BY <1>3
<1>10. Inv'
  BY <1>5, <1>6, <1>7, <1>8, <1>9 DEF Inv
<1>11. QED
  BY <1>1, <1>3, <1>5, <1>8, <1>10

\* RandomFile's operators are these.
LEMMA FileOperators ==
  /\ \A s, p, n : File!Bytes(s, p, n) = Bytes(s, p, n)
  /\ \A s, p, t, h : File!Overlay(s, p, t, h) = Overlay(s, p, t, h)
<1>1. ASSUME NEW s, NEW p, NEW n PROVE File!Bytes(s, p, n) = Bytes(s, p, n)
  BY DEF File!Bytes, File!Least, Bytes, Least, PosOf, ModeOf, Channel, Opened
<1>2. ASSUME NEW s, NEW p, NEW t, NEW h PROVE File!Overlay(s, p, t, h) = Overlay(s, p, t, h)
  BY DEF File!Overlay, Overlay, PosOf, ModeOf, Channel, Opened
<1>3. QED BY <1>1, <1>2

\* A read gets what the file has at the position.
LEMMA RawReads ==
  ASSUME Inv, Careful = TRUE, NEW n \in Lengths, RawRead(n)
  PROVE  Inv' /\ File!Read(n)
<1>1. Opened /\ lost = FALSE /\ "read" \in ModeOf
  BY DEF RawRead, Placed, Selected, Inv, TypeOK, ModeOf, Channel, Opened
<1>2. PICK room \in Rooms :
        /\ Return(read(Call(room), n))
        /\ Answer(read(Call(room), n), "Read", read(Call(room), n).got,
                  IF read(Call(room), n).got = <<>> THEN "endOfInput" ELSE "allRight")
  BY DEF RawRead
<1>3. PICK c : c = Call(room)
  OBVIOUS
<1>4. Begins(c)
  BY <1>1, <1>3, CallBegins
<1>5. PICK d : d = read(c, n)
  OBVIOUS
<1>6. n \in Nat \ {0}
  BY DeviceAssumption
<1>7. PICK a \in Seq(Byte), p \in Nat : a = Content /\ p = Where
  BY <1>4 DEF Begins
<1>8. ReadAt(d, c, a, p, n)
  BY <1>1, <1>4, <1>5, <1>6, <1>7, readDoes DEF Begins
<1>9. PICK b \in Seq(Byte) : b = Bytes(a, p, n)
  BY <1>6, BytesShape
<1>10. Return(d) /\ Answer(d, "Read", d.got, IF d.got = <<>> THEN "endOfInput" ELSE "allRight")
  BY <1>2, <1>3, <1>5
<1>11. Sound(d) /\ d.ubuf = <<>> /\ (~d.lost => Behind(d)) /\ (d.lost => d.buf = <<>> /\ n > BUFSIZE) /\ All(d) = a
  BY <1>8 DEF ReadAt
<1>12. PutBack(d)
  BY <1>11, EmptySeq DEF PutBack
<1>13. Inv' /\ Opened' /\ ModeOf' = ModeOf /\ lost' = d.lost /\ Content' = a /\ Where' = Pos(d)
  BY <1>1, <1>10, <1>11, <1>12, ReturnKeeps
<1>14. Pos(d) = At(d)
  BY <1>11, <1>12, Positions0
<1>15. d.ok \in BOOLEAN /\ d.lost \in BOOLEAN /\ d.got \in Seq(Byte)
  BY <1>11 DEF Sound, Calls
<1>16. fault' = ~d.ok
  BY <1>10 DEF Return, Leave
<1>17. p \notin {Unknown, Closed}
  BY DeviceAssumption
<1>18. CASE d.ok
  <2>1. d.got = b
    BY <1>4, <1>8, <1>9, <1>18, ConcatEmptySeq DEF ReadAt, Begins
  <2>2. ~fault' /\ reply' = [op |-> "Read", data |-> b, res |-> IF b = <<>> THEN "endOfInput" ELSE "allRight"]
    BY <1>10, <1>16, <1>18, <2>1 DEF Answer, Reply
  <2>3. CASE d.lost
    <3>1. n > BUFSIZE /\ Len(b) < n
      BY <1>8, <1>9, <1>11, <1>18, <2>3 DEF ReadAt
    <3>2. QED
      BY <1>1, <1>7, <1>9, <1>13, <1>17, <2>2, <2>3, <3>1, FileOperators DEF File!Read, File!Known, File!Reply, PosOf, ModeOf, Channel, Opened
  <2>4. CASE ~d.lost
    <3>1. Where' = p + Len(b)
      BY <1>8, <1>9, <1>13, <1>14, <1>18, <2>4 DEF ReadAt
    <3>2. QED
      BY <1>1, <1>7, <1>9, <1>13, <1>17, <2>2, <2>4, <3>1, FileOperators DEF File!Read, File!Known, File!Reply, PosOf, ModeOf, Channel, Opened
  <2>5. QED BY <1>15, <2>3, <2>4
<1>19. CASE ~d.ok
  <2>1. fault' /\ reply' = [op |-> "Read", data |-> <<>>, res |-> "hardDeviceError"]
    BY <1>10, <1>16, <1>19 DEF Answer, Reply
  <2>2. ~d.lost => Where' \in p..p + n
    BY <1>8, <1>13, <1>14, <1>19 DEF ReadAt
  <2>3. QED
    BY <1>1, <1>7, <1>13, <1>15, <1>17, <2>1, <2>2, FileOperators DEF File!Read, File!Known, File!Failed, File!Reply, PosOf, ModeOf, Channel, Opened
<1>20. QED BY <1>15, <1>18, <1>19

\* One byte.
LEMMA OneIsRead ==
  ASSUME Inv, Careful = TRUE, Reads, NEW room \in Rooms
  PROVE  /\ Opened /\ lost = FALSE /\ "read" \in ModeOf /\ Content \in Seq(Byte) /\ Where \in Nat /\ Where \notin {Unknown, Closed}
         /\ Begins(Call(room)) /\ GotOne(read(Call(room), 1), Content, Where)
<1>1. Opened /\ lost = FALSE /\ "read" \in ModeOf
  BY DEF Reads, Placed, Selected, Inv, TypeOK, ModeOf, Channel, Opened
<1>2. Begins(Call(room))
  BY <1>1, CallBegins
<1>3. Stands(Call(room), Content, Where)
  BY <1>1, <1>2 DEF Begins, Stands
<1>4. GotOne(read(Call(room), 1), Content, Where)
  BY <1>2, <1>3, readOne DEF Begins
<1>5. Content \in Seq(Byte) /\ Where \in Nat
  BY <1>2 DEF Begins
<1>6. Where \notin {Unknown, Closed}
  BY <1>5, DeviceAssumption
<1>7. QED BY <1>1, <1>2, <1>4, <1>5, <1>6

LEMMA OneReturns ==
  ASSUME Inv, Opened, lost = FALSE, NEW d, NEW p, Stands(d, Content, p), Return(d)
  PROVE  Inv' /\ Opened' /\ ModeOf' = ModeOf /\ lost' = FALSE /\ Content' = Content /\ Where' = p /\ fault' = ~d.ok
<1>1. d.lost = FALSE
  BY DEF Stands, Sound, Calls
<1>2. Inv' /\ Opened' /\ ModeOf' = ModeOf /\ lost' = d.lost /\ Content' = All(d) /\ Where' = Pos(d)
  BY <1>1, ReturnKeeps DEF Stands
<1>3. fault' = ~d.ok
  BY DEF Return, Leave
<1>4. QED BY <1>1, <1>2, <1>3 DEF Stands

\* A Look puts the character back.
LEMMA Looks ==
  ASSUME Inv, Careful = TRUE, Look
  PROVE  Inv' /\ File!Look
<1>1. PICK room \in Rooms : Looked(read(Call(room), 1))
  BY DEF Look
<1>2. PICK d : d = read(Call(room), 1)
  OBVIOUS
<1>3. PICK a, p : a = Content /\ p = Where
  OBVIOUS
<1>4. /\ Opened /\ lost = FALSE /\ "read" \in ModeOf /\ a \in Seq(Byte) /\ p \in Nat /\ p \notin {Unknown, Closed}
      /\ GotOne(d, a, p)
  BY <1>2, <1>3, OneIsRead DEF Look
<1>5. Looked(d)
  BY <1>1, <1>2
<1>6. CASE ~d.ok
  <2>1. Return(d) /\ Reply("Look", <<>>, "endOfInput")
    BY <1>5, <1>6 DEF Looked
  <2>2. Stands(d, a, p)
    BY <1>4, <1>6, StaysThere
  <2>3. Inv' /\ Opened' /\ ModeOf' = ModeOf /\ lost' = FALSE /\ Content' = a /\ Where' = p /\ fault' = ~d.ok
    BY <1>3, <1>4, <2>1, <2>2, OneReturns
  <2>4. fault' /\ reply' = [op |-> "Look", data |-> <<>>, res |-> "endOfInput"]
    BY <1>6, <2>1, <2>3 DEF Reply
  <2>5. QED BY <1>3, <1>4, <2>3, <2>4 DEF File!Look, File!Known, File!Reply, PosOf, ModeOf, Channel, Opened
<1>7. CASE d.ok /\ d.got = <<>>
  <2>1. Return(d) /\ Reply("Look", <<>>, "endOfInput")
    BY <1>5, <1>7 DEF Looked
  <2>2. Stands(d, a, p)
    BY <1>4, <1>7, StaysThere
  <2>3. Inv' /\ Opened' /\ ModeOf' = ModeOf /\ lost' = FALSE /\ Content' = a /\ Where' = p /\ fault' = ~d.ok
    BY <1>3, <1>4, <2>1, <2>2, OneReturns
  <2>4. Bytes(a, p, 1) = <<>>
    BY <1>4, <1>7 DEF GotOne
  <2>5. File!Next1 = <<>> /\ File!Result = "endOfInput"
    BY <1>3, <1>4, <2>4, FileOperators DEF File!Next1, File!Result, PosOf, ModeOf, Channel, Opened
  <2>6. ~fault' /\ reply' = [op |-> "Look", data |-> <<>>, res |-> "endOfInput"]
    BY <1>7, <2>1, <2>3 DEF Reply
  <2>7. QED BY <1>3, <1>4, <2>3, <2>5, <2>6 DEF File!Look, File!Known, File!Reply, PosOf, ModeOf, Channel, Opened
<1>8. CASE d.ok /\ d.got # <<>>
  <2>1. PICK z : z = ungetc(d, d.got[1])
    OBVIOUS
  <2>2. Return(z) /\ Reply("Look", d.got, IF d.got = <<LF>> THEN "endOfLine" ELSE "allRight")
    BY <1>5, <1>8, <2>1 DEF Looked
  <2>3. Stands(z, a, p) /\ z.ok = d.ok
    BY <1>4, <1>8, <2>1, ungetcDoes
  <2>4. Inv' /\ Opened' /\ ModeOf' = ModeOf /\ lost' = FALSE /\ Content' = a /\ Where' = p /\ fault' = ~z.ok
    BY <1>3, <1>4, <2>2, <2>3, OneReturns
  <2>5. Bytes(a, p, 1) = d.got
    BY <1>4, <1>8 DEF GotOne
  <2>6. File!Next1 = d.got /\ File!Result = IF d.got = <<LF>> THEN "endOfLine" ELSE "allRight"
    BY <1>3, <1>4, <1>8, <2>5, FileOperators DEF File!Next1, File!Result, PosOf, ModeOf, Channel, Opened
  <2>7. ~fault' /\ reply' = [op |-> "Look", data |-> d.got, res |-> IF d.got = <<LF>> THEN "endOfLine" ELSE "allRight"]
    BY <1>8, <2>2, <2>3, <2>4 DEF Reply
  <2>8. QED BY <1>3, <1>4, <2>4, <2>6, <2>7 DEF File!Look, File!Known, File!Reply, PosOf, ModeOf, Channel, Opened
<1>9. d.ok \in BOOLEAN
  BY <1>4 DEF GotOne
<1>10. QED BY <1>6, <1>7, <1>8, <1>9

LEMMA Skips ==
  ASSUME Inv, Careful = TRUE, Skip
  PROVE  Inv' /\ File!Skip
<1>1. PICK room \in Rooms :
        LET d == read(Call(room), 1)
        IN  Return(d) /\ Answer(d, "Skip", <<>>, IF d.got = <<>> THEN "skipAtEnd" ELSE "allRight")
  BY DEF Skip
<1>2. PICK d : d = read(Call(room), 1)
  OBVIOUS
<1>3. PICK a, p : a = Content /\ p = Where
  OBVIOUS
<1>4. /\ Opened /\ lost = FALSE /\ "read" \in ModeOf /\ a \in Seq(Byte) /\ p \in Nat /\ p \notin {Unknown, Closed}
      /\ GotOne(d, a, p)
  BY <1>2, <1>3, OneIsRead DEF Skip
<1>5. Return(d) /\ Answer(d, "Skip", <<>>, IF d.got = <<>> THEN "skipAtEnd" ELSE "allRight")
  BY <1>1, <1>2
<1>6. CASE ~d.ok
  <2>1. Stands(d, a, p)
    BY <1>4, <1>6, StaysThere
  <2>2. Inv' /\ Opened' /\ ModeOf' = ModeOf /\ lost' = FALSE /\ Content' = a /\ Where' = p /\ fault' = ~d.ok
    BY <1>3, <1>4, <1>5, <2>1, OneReturns
  <2>3. fault' /\ reply' = [op |-> "Skip", data |-> <<>>, res |-> "hardDeviceError"]
    BY <1>5, <1>6, <2>2 DEF Reply, Answer
  <2>4. QED BY <1>3, <1>4, <2>2, <2>3 DEF File!Skip, File!Known, File!Failed, File!Reply, PosOf, ModeOf, Channel, Opened
<1>7. CASE d.ok /\ d.got = <<>>
  <2>1. Stands(d, a, p)
    BY <1>4, <1>7, StaysThere
  <2>2. Inv' /\ Opened' /\ ModeOf' = ModeOf /\ lost' = FALSE /\ Content' = a /\ Where' = p /\ fault' = ~d.ok
    BY <1>3, <1>4, <1>5, <2>1, OneReturns
  <2>3. Bytes(a, p, 1) = <<>>
    BY <1>4, <1>7 DEF GotOne
  <2>4. File!Next1 = <<>>
    BY <1>3, <1>4, <2>3, FileOperators DEF File!Next1, PosOf, ModeOf, Channel, Opened
  <2>5. ~fault' /\ reply' = [op |-> "Skip", data |-> <<>>, res |-> "skipAtEnd"]
    BY <1>5, <1>7, <2>2 DEF Reply, Answer
  <2>6. QED BY <1>3, <1>4, <2>2, <2>4, <2>5 DEF File!Skip, File!Known, File!Reply, PosOf, ModeOf, Channel, Opened
<1>8. CASE d.ok /\ d.got # <<>>
  <2>1. Bytes(a, p, 1) = d.got /\ Len(d.got) = 1
    BY <1>4, <1>8 DEF GotOne
  <2>2. Stands(d, a, p + 1)
    <3>1. Stands(d, a, p + Len(d.got))
      BY <1>4, <1>8, MovesOn
    <3>2. QED BY <2>1, <3>1
  <2>3. Inv' /\ Opened' /\ ModeOf' = ModeOf /\ lost' = FALSE /\ Content' = a /\ Where' = p + 1 /\ fault' = ~d.ok
    BY <1>3, <1>4, <1>5, <2>2, OneReturns
  <2>4. File!Next1 # <<>>
    BY <1>3, <1>4, <1>8, <2>1, FileOperators DEF File!Next1, PosOf, ModeOf, Channel, Opened
  <2>5. ~fault' /\ reply' = [op |-> "Skip", data |-> <<>>, res |-> "allRight"]
    BY <1>5, <1>8, <2>3 DEF Reply, Answer
  <2>6. QED BY <1>3, <1>4, <2>3, <2>4, <2>5 DEF File!Skip, File!Known, File!Reply, PosOf, ModeOf, Channel, Opened
<1>9. d.ok \in BOOLEAN
  BY <1>4 DEF GotOne
<1>10. QED BY <1>6, <1>7, <1>8, <1>9

LEMMA TextIsRead ==
  ASSUME Inv, Careful = TRUE, NEW n \in Lengths, TextRead(n)
  PROVE  Inv' /\ File!TextRead(n)
<1>1. PICK room \in Rooms :
        LET r == TextReads(Call(room), n)
        IN  Return(r.c) /\ Answer(r.c, "TextRead", r.s, IF r.s = <<>> THEN r.end ELSE "allRight")
  BY DEF TextRead
<1>2. PICK r : r = TextReads(Call(room), n)
  OBVIOUS
<1>3. PICK a, p : a = Content /\ p = Where
  OBVIOUS
<1>4. n \in Nat /\ n > 0
  BY DeviceAssumption
<1>5. /\ Opened /\ lost = FALSE /\ "read" \in ModeOf /\ a \in Seq(Byte) /\ p \in Nat /\ p \notin {Unknown, Closed}
      /\ Begins(Call(room))
  BY <1>3, OneIsRead DEF TextRead
<1>6. Stands(Call(room), a, p)
  BY <1>3, <1>5 DEF Begins, Stands
<1>7. TextGot(r, a, p, n)
  BY <1>2, <1>4, <1>5, <1>6, TextReadsDoes DEF Begins
<1>8. PICK k, d : k \in Nat /\ k = Len(r.s) /\ k <= n /\ d = r.c
  <2>1. r.s \in Seq(Byte) /\ Len(r.s) <= n
    BY <1>7 DEF TextGot
  <2>2. Len(r.s) \in Nat
    BY <2>1
  <2>3. QED BY <2>1, <2>2
<1>9. TextState(r, a, p + k)
  BY <1>7, <1>8 DEF TextGot
<1>10. Return(d) /\ Answer(d, "TextRead", r.s, IF r.s = <<>> THEN r.end ELSE "allRight")
  BY <1>1, <1>2, <1>8
<1>11. Inv' /\ Opened' /\ ModeOf' = ModeOf /\ lost' = FALSE /\ Content' = a /\ Where' = p + k /\ fault' = ~d.ok
  <2>1. Stands(d, Content, p + k)
    BY <1>3, <1>8, <1>9 DEF TextState
  <2>2. QED BY <1>3, <1>5, <1>10, <2>1, OneReturns
<1>12. CASE ~d.ok
  <2>1. fault' /\ reply' = [op |-> "TextRead", data |-> <<>>, res |-> "hardDeviceError"]
    BY <1>10, <1>11, <1>12 DEF Reply, Answer
  <2>2. Where' \in p..p + n
    BY <1>4, <1>5, <1>8, <1>11
  <2>3. QED BY <1>3, <1>5, <1>11, <2>1, <2>2 DEF File!TextRead, File!Known, File!Failed, File!Reply, PosOf, ModeOf, Channel, Opened
<1>13. CASE d.ok
  <2>1. r.s = LineOf(a, p, n)
    BY <1>4, <1>5, <1>7, <1>8, <1>13, LineIsRead
  <2>2. File!Line(n) = r.s
    <3>1. File!Line(n) = LineOf(a, p, n)
      <4>1. PICK q : q = (IF ~Channel THEN Closed ELSE IF lost \/ ~Opened THEN Unknown ELSE Where)
        OBVIOUS
      <4>2. q = p
        BY <1>3, <1>5, <4>1 DEF Channel, Opened
      <4>3. File!Bytes(Content, q, n) = Bytes(a, p, n)
        BY <1>3, <4>2, FileOperators
      <4>4. File!Line(n) = FirstLine(File!Bytes(Content, q, n))
        BY <4>1 DEF File!Line, FirstLine, PosOf, ModeOf, Channel, Opened
      <4>5. QED BY <4>3, <4>4 DEF LineOf
    <3>2. QED BY <2>1, <3>1
  <2>3. ASSUME r.s = <<>> PROVE File!Result = r.end
    <3>1. k = 0 /\ p + k = p
      BY <1>5, <1>8, <2>3, EmptySeq
    <3>2. r.end \in {"endOfInput", "endOfLine"}
      <4>1. r.end # "none"
        <5>1. r.end = "none" => k = n
          BY <1>7, <1>8 DEF TextGot
        <5>2. QED BY <1>4, <3>1, <5>1
      <4>2. r.end # "error" /\ r.end \in Ends
        BY <1>8, <1>9, <1>13 DEF TextState
      <4>3. QED BY <4>1, <4>2 DEF Ends
    <3>3. r.end = "endOfInput" => Bytes(a, p, 1) = <<>>
      BY <1>9, <3>1 DEF TextState
    <3>4. r.end = "endOfLine" => Bytes(a, p, 1) = <<LF>>
      BY <1>9, <3>1 DEF TextState
    <3>5. File!Next1 = Bytes(a, p, 1)
      BY <1>3, <1>5, FileOperators DEF File!Next1, PosOf, ModeOf, Channel, Opened
    <3>6. <<LF>> # <<>>
      OBVIOUS
    <3>7. QED BY <3>2, <3>3, <3>4, <3>5, <3>6 DEF File!Result, PosOf, ModeOf, Channel, Opened
  <2>4. ~fault' /\ reply' = [op |-> "TextRead", data |-> r.s, res |-> IF r.s = <<>> THEN r.end ELSE "allRight"]
    BY <1>10, <1>11, <1>13 DEF Reply, Answer
  <2>5. Where' = p + Len(r.s)
    BY <1>8, <1>11
  <2>6. QED BY <1>3, <1>5, <1>11, <2>2, <2>3, <2>4, <2>5 DEF File!TextRead, File!Known, File!Reply, PosOf, ModeOf, Channel, Opened
<1>14. d.ok \in BOOLEAN
  BY <1>8, <1>9 DEF TextState, Stands, Sound, Calls
<1>15. QED BY <1>12, <1>13, <1>14

\* A write changes the file at the position, or a part of it has been made.
LEMMA Writes ==
  ASSUME Inv, Careful = TRUE, NEW s \in Strings, Write(s)
  PROVE  Inv' /\ File!Write(s)
<1>1. Opened /\ lost = FALSE /\ ubuf = <<>> /\ "write" \in ModeOf
  BY DEF Write, Placed, Clear, Selected, Inv, TypeOK, ModeOf, Channel, Opened
<1>2. PICK room \in Rooms :
        Return(write(Call(room), s)) /\ Answer(write(Call(room), s), "Write", <<>>, "allRight")
  BY DEF Write
<1>3. PICK c : c = Call(room)
  OBVIOUS
<1>4. Begins(c)
  BY <1>1, <1>3, CallBegins
<1>5. PICK d : d = write(c, s)
  OBVIOUS
<1>6. s \in Seq(Byte)
  BY DeviceAssumption
<1>7. PICK a \in Seq(Byte), p \in Nat : a = Content /\ p = Where
  BY <1>4 DEF Begins
<1>8. All(c) = a /\ At(c) = p
  BY <1>1, <1>4, <1>7, Positions0 DEF Begins
<1>9. PieceRight(d, c, s, Len(s))
  BY <1>1, <1>4, <1>5, <1>6, writeDoes DEF Begins
<1>10. Return(d) /\ Answer(d, "Write", <<>>, "allRight")
  BY <1>2, <1>3, <1>5
<1>11. Sound(d) /\ d.ubuf = <<>> /\ (~d.lost => Behind(d)) /\ (d.lost => d.buf = <<>>)
  BY <1>1, <1>4, <1>9 DEF PieceRight, Begins
<1>12. PutBack(d)
  BY <1>11, EmptySeq DEF PutBack
<1>13. Inv' /\ Opened' /\ ModeOf' = ModeOf /\ lost' = d.lost /\ Content' = All(d) /\ Where' = Pos(d)
  BY <1>1, <1>10, <1>11, <1>12, ReturnKeeps
<1>14. Pos(d) = At(d)
  BY <1>11, <1>12, Positions0
<1>15. d.ok \in BOOLEAN /\ d.lost \in BOOLEAN
  BY <1>11 DEF Sound, Calls
<1>16. fault' = ~d.ok
  BY <1>10 DEF Return, Leave
<1>17. p \notin {Unknown, Closed}
  BY DeviceAssumption
<1>18. CASE d.ok
  <2>1. ~d.lost /\ Wrote(d, c, s, Len(s))
    BY <1>9, <1>18 DEF PieceRight
  <2>2. SubSeq(s, 1, Len(s)) = s
    BY <1>6, SubSeqFull
  <2>3. Content' = Overlay(a, p, s, Hole) /\ Where' = p + Len(s)
    BY <1>8, <1>13, <1>14, <2>1, <2>2 DEF Wrote
  <2>4. ~fault' /\ reply' = [op |-> "Write", data |-> <<>>, res |-> "allRight"]
    BY <1>10, <1>16, <1>18 DEF Answer, Reply
  <2>5. QED
    BY <1>1, <1>7, <1>13, <1>17, <2>1, <2>3, <2>4, FileOperators DEF File!Write, File!Known, File!Reply, PosOf, ModeOf, Channel, Opened
<1>19. CASE ~d.ok
  <2>1. fault' /\ reply' = [op |-> "Write", data |-> <<>>, res |-> "hardDeviceError"]
    BY <1>10, <1>16, <1>19 DEF Answer, Reply
  <2>2. PICK k \in Nat : Wrote(d, c, s, k)
    BY <1>9, <1>19 DEF PieceRight
  <2>3. /\ k \in 0..Len(s) /\ Content' = Overlay(a, p, SubSeq(s, 1, k), Hole)
        /\ ~d.lost => Where' = p + k
    BY <1>8, <1>13, <1>14, <2>2 DEF Wrote
  <2>4. PosOf' \in {p + k, Unknown}
    BY <1>13, <1>15, <2>3 DEF PosOf, Channel, Opened
  <2>5. Content' = File!Overlay(Content, p, SubSeq(s, 1, k), Hole)
    BY <1>7, <2>3, FileOperators
  <2>6. p = PosOf
    BY <1>1, <1>7 DEF PosOf, Channel, Opened
  <2>7. \E i \in 0..Len(s) :
          /\ Content' = File!Overlay(Content, PosOf, SubSeq(s, 1, i), Hole)
          /\ PosOf' \in {PosOf + i, Unknown}
    BY <2>3, <2>4, <2>5, <2>6
  <2>8. File!Known /\ File!Failed("Write")
    BY <1>17, <2>1, <2>6 DEF File!Known, File!Failed, File!Reply, PosOf, ModeOf, Channel, Opened
  <2>9. QED
    BY <1>1, <1>13, <2>7, <2>8 DEF File!Write, PosOf, ModeOf, Channel, Opened
<1>20. QED BY <1>15, <1>18, <1>19

\* The state in which nothing of the file has changed.
LEMMA Unmoved ==
  ASSUME Inv, UNCHANGED <<data, lost>>, Stays, fault' \in BOOLEAN
  PROVE  /\ Inv' /\ Content' = Content /\ Where' = Where /\ Opened' = Opened /\ lost' = lost /\ disk' = disk
         /\ ModeOf' = ModeOf /\ PosOf' = PosOf
<1>1. /\ disk' = disk /\ kpos' = kpos /\ spos' = spos /\ buf' = buf /\ bpos' = bpos
      /\ modf' = modf /\ ubuf' = ubuf /\ flags' = flags /\ mode' = mode /\ chan' = chan /\ lost' = lost
      /\ kept' = kept /\ ModeOf' = ModeOf
  BY ModeStays DEF data
<1>2. Call(0)' = Call(0)
  BY <1>1 DEF Call
<1>3. TypeOK'
  BY <1>1 DEF Inv, TypeOK
<1>4. Opened' = Opened
  BY <1>1 DEF Opened
<1>5. Inv'
  BY <1>1, <1>2, <1>3, <1>4 DEF Inv
<1>6. Content' = Content /\ Where' = Where
  BY <1>1 DEF Content, Where
<1>7. PosOf' = PosOf
  BY <1>1, <1>6 DEF PosOf, Channel, Opened
<1>8. QED BY <1>1, <1>4, <1>5, <1>6, <1>7

LEMMA Clearly ==
  ASSUME Inv, Opened, ubuf = <<>>
  PROVE  Content \in Seq(Byte) /\ Where = spos + bpos /\ spos \in Nat /\ bpos \in Nat /\ Where \notin {Unknown, Closed}
         /\ Content = Overlay(disk, spos, buf, Hole)
<1>1. PICK c : c = Call(0)
  OBVIOUS
<1>2. Sound(c) /\ All(c) = Content
  BY <1>1 DEF Inv, All, Content, Call
<1>3. Content \in Seq(Byte) /\ Content = Overlay(disk, spos, buf, Hole)
  BY <1>1, <1>2, AllHolds DEF Call
<1>4. spos \in Nat /\ bpos \in Nat
  BY DEF Inv, TypeOK
<1>5. Len(ubuf) = 0
  BY EmptySeq
<1>6. Where = spos + bpos
  BY <1>4, <1>5 DEF Where
<1>7. Where \notin {Unknown, Closed}
  BY <1>4, <1>6, DeviceAssumption
<1>8. QED BY <1>3, <1>4, <1>6, <1>7

LEMMA Tells ==
  ASSUME Inv, Careful = TRUE, CurrentPos
  PROVE  Inv' /\ File!CurrentPos
<1>1. Opened /\ lost = FALSE /\ ubuf = <<>> /\ fault' = FALSE
  BY DEF CurrentPos, Placed, Clear, Inv, TypeOK
<1>2. Inv' /\ Content' = Content /\ Where' = Where /\ Opened' = Opened /\ lost' = lost /\ ModeOf' = ModeOf
  BY <1>1, Unmoved DEF CurrentPos
<1>3. reply' = [op |-> "CurrentPos", data |-> <<spos + bpos>>, res |-> "allRight"]
  BY DEF CurrentPos, Reply
<1>4. Where = spos + bpos /\ Where \notin {Unknown, Closed}
  BY <1>1, Clearly
<1>5. QED
  BY <1>1, <1>2, <1>3, <1>4 DEF File!CurrentPos, File!Known, File!Reply, PosOf, ModeOf, Channel, Opened

\* The end of the buffer is the end of the file when it lies behind what the disk has.
LEMMA Measures ==
  ASSUME Inv, Careful = TRUE, Length
  PROVE  Inv' /\ File!EndPos
<1>1. Opened /\ lost = FALSE /\ ubuf = <<>> /\ fault' = FALSE /\ Where <= Len(Content)
  BY DEF Length, Placed, Clear, Inv, TypeOK
<1>2. Inv' /\ Content' = Content /\ Where' = Where /\ Opened' = Opened /\ lost' = lost /\ ModeOf' = ModeOf
  BY <1>1, Unmoved DEF Length
<1>3. PICK e : e = IF Len(disk) > spos + Len(buf) THEN Len(disk) ELSE spos + Len(buf)
  OBVIOUS
<1>4. reply' = [op |-> "EndPos", data |-> <<e>>, res |-> "allRight"]
  BY <1>3 DEF Length, Reply
<1>5. /\ Content \in Seq(Byte) /\ Where = spos + bpos /\ Where \notin {Unknown, Closed}
      /\ Content = Overlay(disk, spos, buf, Hole)
  BY <1>1, Clearly
<1>6. PICK k \in Nat, l \in Nat, p \in Nat, b \in Nat :
        k = Len(disk) /\ l = Len(buf) /\ p = spos /\ b = bpos /\ b <= l
  <2>1. disk \in Seq(Byte) /\ buf \in Seq(Byte) /\ spos \in Nat /\ bpos \in 0..Len(buf)
    BY DEF Inv, TypeOK
  <2>2. Len(disk) \in Nat /\ Len(buf) \in Nat
    BY <2>1
  <2>3. QED BY <2>1, <2>2
<1>7. Len(Content) = IF buf = <<>> THEN k ELSE IF p + l > k THEN p + l ELSE k
  <2>1. PICK s \in Seq(Byte), t \in Seq(Byte) : s = disk /\ t = buf
    BY DEF Inv, TypeOK
  <2>2. Len(Overlay(s, p, t, Hole)) = IF t = <<>> THEN Len(s) ELSE IF p + Len(t) > Len(s) THEN p + Len(t) ELSE Len(s)
    BY OverlayShape
  <2>3. QED BY <1>5, <1>6, <2>1, <2>2
<1>8. e = Len(Content)
  <2>1. CASE buf = <<>>
    <3>1. l = 0 /\ b = 0
      BY <1>6, <2>1, EmptySeq
    <3>2. Len(Content) = k /\ p <= k
      BY <1>1, <1>5, <1>6, <1>7, <2>1, <3>1
    <3>3. e = k
      BY <1>3, <1>6, <3>1, <3>2
    <3>4. QED BY <3>2, <3>3
  <2>2. CASE buf # <<>>
    <3>1. Len(Content) = IF p + l > k THEN p + l ELSE k
      BY <1>7, <2>2
    <3>2. e = IF p + l > k THEN p + l ELSE k
      BY <1>3, <1>6
    <3>3. QED BY <3>1, <3>2
  <2>3. QED BY <2>1, <2>2
<1>9. QED
  BY <1>1, <1>2, <1>4, <1>5, <1>8 DEF File!EndPos, File!Known, File!Reply, PosOf, ModeOf, Channel, Opened

\* Everything written is on the disk after a Flush without error, and the position
\* stays when it is not lost.
LEMMA Flushes ==
  ASSUME Inv, Careful = TRUE, Flush
  PROVE  Inv' /\ File!Flush
<1>1. Opened
  BY DEF Flush
<1>2. PICK room \in Rooms, sent \in {TRUE, "write" \notin flags} :
        /\ Leave([bFlush(Call(room)) EXCEPT !.ubuf = <<>>, !.ok = bFlush(Call(room)).ok /\ sent])
        /\ Answer([bFlush(Call(room)) EXCEPT !.ubuf = <<>>, !.ok = bFlush(Call(room)).ok /\ sent],
                  "Flush", <<>>, "allRight")
        /\ lost' = (lost \/ ubuf # <<>> \/ (bFlush(Call(room)).ok /\ ~FlushKeeps))
        /\ Stays
  BY Zenon DEF Flush
<1>3. PICK b : b = Call(room)
  OBVIOUS
<1>4. Begins(b)
  BY <1>1, <1>3, CallBegins
<1>5. PICK c : c = bFlush(b)
  OBVIOUS
<1>6. /\ Sound(c) /\ All(c) = All(b) /\ Same(c, b)
      /\ c.ok =>
           /\ ~c.modf /\ c.disk = All(b) /\ c.buf = <<>> /\ c.bpos = 0
           /\ b.modf => c.kpos = b.spos + Len(b.buf) /\ c.spos = b.spos + Len(b.buf)
           /\ ~b.modf => c.kpos = b.kpos /\ c.spos = b.spos
      /\ ~c.ok => /\ b.modf /\ c.modf
                  /\ c.spos = b.spos /\ c.buf = b.buf /\ c.bpos = b.bpos
  BY <1>4, <1>5, bFlushDoes DEF Begins
<1>7. c \in Calls /\ c.ok \in BOOLEAN /\ sent \in BOOLEAN
  BY <1>6 DEF Sound, Calls
<1>8. PICK g \in BOOLEAN : g = (c.ok /\ sent)
  OBVIOUS
<1>9. PICK d : d = [c EXCEPT !.ubuf = <<>>, !.ok = g]
  OBVIOUS
<1>10. d \in Calls /\ d.ubuf = <<>> /\ d.ok = g
  BY <1>7, <1>9, EmptySeq DEF Calls
<1>11. d.disk = c.disk /\ d.kpos = c.kpos /\ d.spos = c.spos /\ d.buf = c.buf /\ d.bpos = c.bpos /\ d.modf = c.modf
  BY <1>7, <1>9 DEF Calls
<1>12. Sound(d)
  BY <1>6, <1>10, <1>11 DEF Sound
<1>13. All(d) = Content
  BY <1>4, <1>6, <1>11 DEF All, Begins
<1>14. PutBack(d)
  BY <1>10, EmptySeq DEF PutBack
<1>15. /\ Leave(d) /\ Answer(d, "Flush", <<>>, "allRight")
       /\ lost' = (lost \/ ubuf # <<>> \/ (c.ok /\ ~FlushKeeps))
       /\ flags' = flags /\ mode' = mode /\ chan' = chan /\ kept' = kept /\ ModeOf' = ModeOf
  BY <1>2, <1>3, <1>5, <1>8, <1>9, ModeStays
<1>16. /\ disk' \in Seq(Byte) /\ kpos' \in Nat /\ spos' \in Nat
       /\ buf' \in Seq(Byte) /\ Len(buf') <= BUFSIZE /\ bpos' \in 0..Len(buf')
       /\ modf' \in BOOLEAN /\ ubuf' \in Seq(Byte) /\ Len(ubuf') <= 1 /\ fault' \in BOOLEAN
       /\ Sound(Call(0))' /\ PutBack(Call(0))' /\ (Behind(d) => Behind(Call(0))')
       /\ Content' = Content /\ Where' = Pos(d)
  BY <1>12, <1>13, <1>14, <1>15, CallLeaves DEF PutBack
<1>17. lost \in BOOLEAN /\ lost' \in BOOLEAN
  BY <1>15 DEF Inv, TypeOK
<1>18. TypeOK'
  BY <1>15, <1>16, <1>17 DEF Inv, TypeOK
<1>19. Opened' /\ ~(chan' \notin {"open", "ended"})
  BY <1>1, <1>15 DEF Opened
<1>20. disk' = d.disk /\ buf' = d.buf /\ modf' = d.modf /\ fault' = ~g
  BY <1>10, <1>15 DEF Leave
<1>21. modf' \/ buf' = <<>>
  BY <1>6, <1>7, <1>11, <1>20
<1>22. PICK x \in Nat, y \in Nat, l \in Nat, q \in Nat :
         x = spos /\ y = bpos /\ l = Len(buf) /\ q = kpos /\ buf \in Seq(Byte) /\ modf \in BOOLEAN
  <2>1. spos \in Nat /\ bpos \in Nat /\ kpos \in Nat /\ buf \in Seq(Byte) /\ modf \in BOOLEAN
    BY DEF Inv, TypeOK
  <2>2. Len(buf) \in Nat
    BY <2>1
  <2>3. QED BY <2>1, <2>2
<1>23. ASSUME ~lost' PROVE Behind(d) /\ Where' = Where /\ ~lost
  <2>1. ~lost /\ ubuf = <<>> /\ (c.ok => FlushKeeps)
    BY <1>7, <1>15, <1>17, <1>23
  <2>2. Where = x + y
    BY <1>1, <1>22, <2>1, Clearly
  <2>3. Where' = d.spos + d.bpos
    BY <1>10, <1>12, <1>14, <1>16, Positions0 DEF At
  <2>4. CASE ~c.ok
    <3>1. Behind(d)
      BY <1>6, <1>11, <2>4 DEF Behind
    <3>2. d.spos = x /\ d.bpos = y
      BY <1>4, <1>6, <1>11, <1>22, <2>4 DEF Begins
    <3>3. QED BY <2>1, <2>2, <2>3, <3>1, <3>2
  <2>5. CASE c.ok /\ modf
    <3>1. d.kpos = x + l /\ d.spos = x + l /\ d.bpos = 0 /\ d.buf = <<>>
      BY <1>4, <1>6, <1>11, <1>22, <2>5 DEF Begins
    <3>2. y = l
      BY <1>22, <2>1, <2>5 DEF FlushKeeps
    <3>3. Behind(d)
      <4>1. x + l = x + l + 0
        OBVIOUS
      <4>2. QED BY <3>1, <4>1, EmptySeq DEF Behind
    <3>4. Where' = Where
      <4>1. x + l + 0 = x + y
        BY <3>2
      <4>2. QED BY <2>2, <2>3, <3>1, <4>1
    <3>5. QED BY <2>1, <3>3, <3>4
  <2>6. CASE c.ok /\ ~modf
    <3>1. buf = <<>> /\ y = l /\ l = 0
      BY <1>22, <2>1, <2>6, EmptySeq DEF FlushKeeps
    <3>2. q = x + l
      BY <1>4, <1>22, <2>1, <2>6 DEF Begins, Behind
    <3>3. d.kpos = q /\ d.spos = x /\ d.bpos = 0 /\ d.buf = <<>>
      BY <1>4, <1>6, <1>11, <1>22, <2>6 DEF Begins
    <3>4. Behind(d)
      <4>1. q = x + 0
        BY <3>1, <3>2
      <4>2. QED BY <3>3, <4>1, EmptySeq DEF Behind
    <3>5. Where' = Where
      BY <2>2, <2>3, <3>1, <3>3
    <3>6. QED BY <2>1, <3>4, <3>5
  <2>7. QED BY <1>7, <1>22, <2>4, <2>5, <2>6
<1>24. IF lost' THEN modf' \/ buf' = <<>> ELSE Behind(Call(0))'
  BY <1>16, <1>17, <1>21, <1>23
<1>25. Inv'
  BY <1>16, <1>18, <1>19, <1>24 DEF Inv
<1>26. PosOf' \in {PosOf, Unknown} /\ PosOf # Closed
  <2>1. Where \in Nat
    BY <1>4 DEF Begins
  <2>2. Where # Closed /\ Unknown # Closed
    BY <2>1, DeviceAssumption
  <2>3. PosOf # Closed
    BY <1>1, <1>17, <2>2 DEF PosOf, Channel, Opened
  <2>4. CASE lost'
    BY <1>19, <2>3, <2>4 DEF PosOf, Channel, Opened
  <2>5. CASE ~lost'
    BY <1>1, <1>19, <1>23, <2>3, <2>5 DEF PosOf, Channel, Opened
  <2>6. QED BY <1>17, <2>3, <2>4, <2>5
<1>27. (~fault' /\ disk' = Content /\ File!Reply("Flush", <<>>, "allRight")) \/ File!Failed("Flush")
  <2>1. CASE g
    <3>1. disk' = Content
      BY <1>4, <1>6, <1>8, <1>11, <1>20, <2>1 DEF Begins
    <3>2. ~fault' /\ reply' = [op |-> "Flush", data |-> <<>>, res |-> "allRight"]
      BY <1>10, <1>15, <1>20, <2>1 DEF Answer, Reply
    <3>3. QED BY <3>1, <3>2 DEF File!Reply, PosOf, ModeOf, Channel, Opened
  <2>2. CASE ~g
    BY <1>10, <1>15, <1>20, <2>2 DEF Answer, Reply, File!Failed, File!Reply, PosOf, ModeOf, Channel, Opened
  <2>3. QED BY <2>1, <2>2
<1>28. File!Flush
  BY <1>15, <1>16, <1>26, <1>27 DEF File!Flush, PosOf, ModeOf, Channel, Opened
<1>29. QED BY <1>25, <1>28

\* A call that keeps the channel open.
LEMMA LeavesOpen ==
  ASSUME Inv, NEW d, Sound(d), PutBack(d), Leave(d), chan' = "open", flags' = flags,
         mode' \subseteq {"read", "write"}, lost' \in BOOLEAN, kept' \in BOOLEAN,
         lost' => d.modf \/ d.buf = <<>>, ~lost' => Behind(d)
  PROVE  /\ Inv' /\ Opened' /\ Content' = All(d) /\ Where' = Pos(d)
         /\ fault' = ~d.ok /\ disk' = d.disk /\ modf' = d.modf
<1>1. Len(d.ubuf) <= 1
  BY DEF PutBack
<1>2. /\ disk' \in Seq(Byte) /\ kpos' \in Nat /\ spos' \in Nat
      /\ buf' \in Seq(Byte) /\ Len(buf') <= BUFSIZE /\ bpos' \in 0..Len(buf')
      /\ modf' \in BOOLEAN /\ ubuf' \in Seq(Byte) /\ Len(ubuf') <= 1 /\ fault' \in BOOLEAN
      /\ Sound(Call(0))' /\ PutBack(Call(0))' /\ (Behind(d) => Behind(Call(0))')
      /\ Content' = All(d) /\ Where' = Pos(d)
  BY <1>1, CallLeaves
<1>3. TypeOK'
  BY <1>2 DEF Inv, TypeOK
<1>4. fault' = ~d.ok /\ disk' = d.disk /\ modf' = d.modf /\ buf' = d.buf
  BY DEF Leave
<1>5. IF lost' THEN modf' \/ buf' = <<>> ELSE Behind(Call(0))'
  BY <1>2, <1>4
<1>6. Opened' /\ ~(chan' \notin {"open", "ended"})
  BY DEF Opened
<1>7. Inv'
  BY <1>2, <1>3, <1>5, <1>6 DEF Inv
<1>8. QED BY <1>2, <1>4, <1>6, <1>7

\* A seek ends where it should, or leaves everything as it was.
LEMMA SoughtDoes ==
  ASSUME Inv, Opened, ubuf = <<>>, NEW b, Begins(b), NEW p \in Nat, NEW d, d = Sought(b, p)
  PROVE  /\ Sound(d) /\ PutBack(d) /\ All(d) = Content
         /\ d.ok => Pos(d) = p /\ Behind(d)
         /\ ~d.ok => Pos(d) = Where /\ d.modf
<1>1. PICK x \in Nat, y \in Nat, l \in Nat, u \in Seq(Byte) :
        x = spos /\ y = bpos /\ u = buf /\ l = Len(u) /\ modf \in BOOLEAN
  <2>1. spos \in Nat /\ bpos \in Nat /\ buf \in Seq(Byte) /\ modf \in BOOLEAN
    BY DEF Inv, TypeOK
  <2>2. Len(buf) \in Nat
    BY <2>1
  <2>3. QED BY <2>1, <2>2
<1>2. b \in Calls /\ b.ubuf = <<>> /\ Sound(b) /\ All(b) = Content
  BY DEF Begins, Sound
<1>3. Where = x + y
  BY <1>1, Clearly
<1>4. CASE InBuffer(p)
  <2>1. x <= p /\ p < x + l
    BY <1>1, <1>4 DEF InBuffer
  <2>2. PICK o \in Nat : o = p - x /\ x + o = p /\ o <= l /\ l # 0
    BY <2>1
  <2>3. d = [b EXCEPT !.bpos = o, !.ubuf = <<>>]
    <3>1. o = p - spos /\ (IF p - spos # bpos THEN <<>> ELSE b.ubuf) = <<>>
      BY <1>1, <1>2, <2>2
    <3>2. d = [b EXCEPT !.bpos = p - spos, !.ubuf = IF p - spos # bpos THEN <<>> ELSE @]
      BY <1>4 DEF Sought
    <3>3. QED BY <3>1, <3>2
  <2>4. d \in Calls /\ d.bpos = o /\ d.ubuf = <<>> /\ d.ok = b.ok
    BY <1>2, <2>3, EmptySeq DEF Calls
  <2>5. d.disk = b.disk /\ d.kpos = b.kpos /\ d.spos = b.spos /\ d.buf = b.buf /\ d.modf = b.modf
    BY <1>2, <2>3 DEF Calls
  <2>6. d.spos = x /\ d.buf = u /\ d.modf = modf /\ d.ok = TRUE
    BY <1>1, <2>4, <2>5 DEF Begins
  <2>7. Sound(d)
    <3>1. d.bpos <= Len(d.buf)
      BY <1>1, <2>2, <2>4, <2>6
    <3>2. QED BY <1>2, <2>4, <2>5, <3>1 DEF Sound
  <2>8. PutBack(d)
    BY <2>4, EmptySeq DEF PutBack
  <2>9. All(d) = Content
    BY <1>2, <2>5 DEF All
  <2>10. Pos(d) = p
    <3>1. Pos(d) = At(d)
      BY <2>4, <2>7, <2>8, Positions0
    <3>2. At(d) = x + o
      BY <2>4, <2>6 DEF At
    <3>3. QED BY <2>2, <3>1, <3>2
  <2>11. Behind(d)
    <3>1. CASE lost
      <4>1. u # <<>>
        BY <1>1, <2>2, EmptySeq
      <4>2. d.modf
        BY <1>1, <2>6, <3>1, <4>1 DEF Begins
      <4>3. QED BY <4>2 DEF Behind
    <3>2. CASE ~lost
      BY <2>5, <3>2 DEF Begins, Behind
    <3>3. QED BY <3>1, <3>2
  <2>12. QED BY <2>6, <2>7, <2>8, <2>9, <2>10, <2>11
<1>5. CASE ~InBuffer(p)
  <2>1. [b EXCEPT !.ubuf = <<>>] = b
    BY <1>2 DEF Calls
  <2>2. PICK z : z = bFlush(b)
    OBVIOUS
  <2>3. d = IF ~z.ok THEN z ELSE [z EXCEPT !.kpos = p, !.spos = p]
    BY <1>5, <2>1, <2>2 DEF Sought
  <2>4. /\ Sound(z) /\ All(z) = All(b) /\ Same(z, b)
        /\ z.ok => ~z.modf /\ z.disk = All(b) /\ z.buf = <<>> /\ z.bpos = 0
        /\ ~z.ok => /\ b.modf /\ z.modf
                    /\ z.spos = b.spos /\ z.buf = b.buf /\ z.bpos = b.bpos
    BY <1>2, <2>2, bFlushDoes
  <2>5. z \in Calls /\ z.ok \in BOOLEAN /\ z.ubuf = <<>> /\ z.modf \in BOOLEAN
    BY <1>2, <2>4 DEF Sound, Calls, Same
  <2>6. PutBack(z)
    BY <2>5, EmptySeq DEF PutBack
  <2>7. CASE ~z.ok
    <3>1. Pos(z) = At(z)
      BY <2>4, <2>5, <2>6, Positions0
    <3>2. At(z) = x + y
      BY <1>1, <2>4, <2>7 DEF Begins, At
    <3>3. d = z
      BY <2>3, <2>7
    <3>4. QED BY <1>2, <1>3, <2>4, <2>6, <2>7, <3>1, <3>2, <3>3
  <2>8. CASE z.ok
    <3>1. d = [z EXCEPT !.kpos = p, !.spos = p]
      BY <2>3, <2>8
    <3>2. d \in Calls /\ d.kpos = p /\ d.spos = p /\ d.ubuf = z.ubuf /\ d.ok = z.ok
      BY <2>5, <3>1 DEF Calls
    <3>3. d.disk = z.disk /\ d.buf = z.buf /\ d.bpos = z.bpos /\ d.modf = z.modf
      BY <2>5, <3>1 DEF Calls
    <3>4. d.disk = Content /\ d.buf = <<>> /\ d.bpos = 0 /\ d.modf = FALSE /\ d.ubuf = <<>>
      BY <1>2, <2>4, <2>5, <2>8, <3>2, <3>3
    <3>5. Len(d.buf) = 0 /\ d.bpos <= Len(d.buf) /\ Len(d.buf) <= BUFSIZE
      BY <3>4, EmptySeq, DeviceAssumption
    <3>6. Held(d.disk, d.spos, d.buf)
      BY <3>2, <3>4, HeldEmpty DEF Calls
    <3>7. Sound(d)
      BY <3>2, <3>5, <3>6 DEF Sound
    <3>8. All(d) = Content
      BY <3>4 DEF All
    <3>9. PutBack(d)
      BY <3>4, EmptySeq DEF PutBack
    <3>10. Pos(d) = p
      <4>1. Pos(d) = At(d)
        BY <3>4, <3>7, <3>9, Positions0
      <4>2. At(d) = p + 0
        BY <3>2, <3>4 DEF At
      <4>3. QED BY <4>1, <4>2
    <3>11. Behind(d)
      <4>1. p = p + 0
        OBVIOUS
      <4>2. QED BY <3>2, <3>5, <4>1 DEF Behind
    <3>12. QED BY <2>8, <3>2, <3>7, <3>8, <3>9, <3>10, <3>11
  <2>9. QED BY <2>5, <2>7, <2>8
<1>6. QED BY <1>4, <1>5

\* SetPos, and Reread, which sets the position 0.
LEMMA Seeks ==
  ASSUME Inv, Careful = TRUE, NEW p \in Nat, Opened, Clear, NEW room \in Rooms, NEW d, d = Sought(Call(room), p),
         Leave(d), lost' = (lost /\ ~d.ok),
         flags' = flags, chan' = chan, mode' \subseteq {"read", "write"}, kept' \in BOOLEAN
  PROVE  /\ Inv' /\ Opened' /\ Content' = Content /\ d.ok \in BOOLEAN /\ fault' = ~d.ok
         /\ PosOf # Closed /\ PosOf' = IF d.ok THEN p ELSE PosOf
<1>1. ubuf = <<>>
  BY DEF Clear
<1>2. PICK b : b = Call(room)
  OBVIOUS
<1>3. Begins(b)
  BY <1>2, CallBegins
<1>4. /\ Sound(d) /\ PutBack(d) /\ All(d) = Content
      /\ d.ok => Pos(d) = p /\ Behind(d)
      /\ ~d.ok => Pos(d) = Where /\ d.modf
  BY <1>1, <1>2, <1>3, SoughtDoes
<1>5. d.ok \in BOOLEAN /\ lost \in BOOLEAN
  BY <1>4 DEF Sound, Calls, Inv, TypeOK
<1>6. lost' \in BOOLEAN /\ (lost' => d.modf \/ d.buf = <<>>) /\ (~lost' => Behind(d)) /\ chan' = "open"
  BY <1>4, <1>5 DEF Behind, Opened
<1>7. /\ Inv' /\ Opened' /\ Content' = All(d) /\ Where' = Pos(d)
      /\ fault' = ~d.ok
  BY <1>4, <1>6, LeavesOpen
<1>8. Where \in Nat /\ p \in Nat
  BY <1>3 DEF Begins
<1>9. Where # Closed /\ Unknown # Closed
  BY <1>8, DeviceAssumption
<1>10. PosOf # Closed
  BY <1>9 DEF PosOf, Channel, Opened
<1>11. PosOf' = IF d.ok THEN p ELSE PosOf
  BY <1>4, <1>5, <1>7 DEF PosOf, Channel, Opened
<1>12. QED BY <1>4, <1>5, <1>7, <1>10, <1>11

LEMMA SetsPos ==
  ASSUME Inv, Careful = TRUE, NEW p \in Positions, SetPos(p)
  PROVE  Inv' /\ File!SetPos(p)
<1>1. Opened /\ Clear /\ p \in Nat
  BY DeviceAssumption DEF SetPos
<1>2. PICK room, d :
        /\ room \in Rooms
        /\ d = Sought(Call(room), p) /\ Leave(d) /\ lost' = (lost /\ ~d.ok)
        /\ Answer(d, "SetPos", <<>>, "allRight") /\ Stays
  BY DEF SetPos
<1>3. flags' = flags /\ chan' = chan /\ mode' \subseteq {"read", "write"} /\ kept' \in BOOLEAN /\ ModeOf' = ModeOf
  BY <1>2, ModeStays DEF Inv, TypeOK
<1>4. /\ Inv' /\ Content' = Content /\ d.ok \in BOOLEAN /\ fault' = ~d.ok
      /\ PosOf # Closed /\ PosOf' = IF d.ok THEN p ELSE PosOf
  BY <1>1, <1>2, <1>3, Seeks
<1>5. CASE d.ok
  <2>1. reply' = [op |-> "SetPos", data |-> <<>>, res |-> "allRight"]
    BY <1>2, <1>5 DEF Answer, Reply
  <2>2. QED BY <1>3, <1>4, <1>5, <2>1 DEF File!SetPos, File!Reply, PosOf, ModeOf, Channel, Opened
<1>6. CASE ~d.ok
  <2>1. reply' = [op |-> "SetPos", data |-> <<>>, res |-> "hardDeviceError"]
    BY <1>2, <1>6 DEF Answer, Reply
  <2>2. QED BY <1>3, <1>4, <1>6, <2>1 DEF File!SetPos, File!Failed, File!Reply, PosOf, ModeOf, Channel, Opened
<1>7. QED BY <1>4, <1>5, <1>6

\* A Reread that has failed counts as one that selects nothing.
LEMMA Rereads ==
  ASSUME Inv, Careful = TRUE, Reread
  PROVE  Inv' /\ File!Reread
<1>1. Opened /\ Clear /\ 0 \in Nat
  BY DEF Reread
<1>2. PICK room, d :
        /\ room \in Rooms
        /\ d = Sought(Call(room), 0) /\ Leave(d) /\ lost' = (lost /\ ~d.ok)
        /\ Answer(d, "Reread", <<>>, "allRight")
        /\ mode' = IF d.ok THEN {"read"} \cap flags ELSE mode
        /\ kept' = ~d.ok
        /\ UNCHANGED <<flags, chan>>
  BY DEF Reread
<1>3. mode' \subseteq {"read", "write"} /\ kept' \in BOOLEAN
  BY <1>2 DEF Inv, TypeOK
<1>4. /\ Inv' /\ Opened' /\ Content' = Content /\ d.ok \in BOOLEAN /\ fault' = ~d.ok
      /\ PosOf # Closed /\ PosOf' = IF d.ok THEN 0 ELSE PosOf
  BY <1>1, <1>2, <1>3, Seeks
<1>5. CASE d.ok
  <2>1. reply' = [op |-> "Reread", data |-> <<>>, res |-> "allRight"]
    BY <1>2, <1>5 DEF Answer, Reply
  <2>2. ModeOf' \in {{}, {"read"}}
    <3>1. {"read"} \cap flags \in {{}, {"read"}}
      OBVIOUS
    <3>2. ModeOf' = {"read"} \cap flags
      BY <1>2, <1>4, <1>5 DEF ModeOf, Channel, Opened
    <3>3. QED BY <3>1, <3>2
  <2>3. QED BY <1>4, <1>5, <2>1, <2>2 DEF File!Reread, File!Reply, PosOf, ModeOf, Channel, Opened
<1>6. CASE ~d.ok
  <2>1. reply' = [op |-> "Reread", data |-> <<>>, res |-> "hardDeviceError"]
    BY <1>2, <1>6 DEF Answer, Reply
  <2>2. ModeOf' = {}
    BY <1>2, <1>6 DEF ModeOf, Channel, Opened
  <2>3. QED BY <1>4, <1>6, <2>1, <2>2 DEF File!Reread, File!Failed, File!Reply, PosOf, ModeOf, Channel, Opened
<1>7. QED BY <1>4, <1>5, <1>6

\* The way is not selected, for RandomFile either.
LEMMA Forbids ==
  ASSUME Inv, NEW way, Forbidden(way)
  PROVE  Inv' /\ File!Forbidden(way)
<1>1. /\ chan \in {"open", "disposed"} /\ way \notin mode /\ fault' = FALSE
      /\ reply' = [op |-> way, data |-> <<>>, res |-> "notAvailable"]
  BY DEF Forbidden, Reply
<1>2. Inv' /\ Content' = Content /\ ModeOf' = ModeOf /\ PosOf' = PosOf
  BY Unmoved DEF Forbidden
<1>3. PosOf # Closed
  <2>1. Unknown # Closed
    BY DeviceAssumption
  <2>2. Opened => Where # Closed
    <3> SUFFICES ASSUME Opened PROVE Where # Closed
      OBVIOUS
    <3>1. Where \in Nat
      BY CallBeginsAt DEF Begins
    <3>2. QED BY <3>1, DeviceAssumption
  <2>3. QED BY <1>1, <2>1, <2>2 DEF PosOf, Channel, Opened
<1>4. way \notin ModeOf
  BY <1>1 DEF ModeOf, Channel, Opened
<1>5. QED BY <1>1, <1>2, <1>3, <1>4 DEF File!Forbidden, File!Reply, PosOf, ModeOf, Channel, Opened

\* A call that closes the channel.
LEMMA LeavesClosed ==
  ASSUME Inv, NEW d, Sound(d), Len(d.ubuf) <= 1, Leave(d), chan' \in {"closed", "disposed", "ended"},
         chan' = "ended" \/ ~d.modf, flags' = flags, mode' \subseteq {"read", "write"}, lost' = lost,
         kept' \in BOOLEAN
  PROVE  Inv' /\ ~Opened' /\ Content' = All(d) /\ fault' = ~d.ok /\ disk' = d.disk
<1>1. /\ disk' \in Seq(Byte) /\ kpos' \in Nat /\ spos' \in Nat
      /\ buf' \in Seq(Byte) /\ Len(buf') <= BUFSIZE /\ bpos' \in 0..Len(buf')
      /\ modf' \in BOOLEAN /\ ubuf' \in Seq(Byte) /\ Len(ubuf') <= 1 /\ fault' \in BOOLEAN
      /\ Sound(Call(0))' /\ Content' = All(d)
  BY CallLeaves
<1>2. TypeOK'
  BY <1>1 DEF Inv, TypeOK
<1>3. fault' = ~d.ok /\ disk' = d.disk /\ modf' = d.modf
  BY DEF Leave
<1>4. ~Opened'
  BY DEF Opened
<1>5. Inv'
  BY <1>1, <1>2, <1>3, <1>4 DEF Inv
<1>6. QED BY <1>1, <1>3, <1>4, <1>5

\* The flush that Close, Rewrite and Exit begin with.
LEMMA FlushedLast ==
  ASSUME Inv, Opened, NEW room \in Rooms, NEW c, c = bFlush(Call(room))
  PROVE  /\ Sound(c) /\ All(c) = Content /\ Len(c.ubuf) <= 1 /\ c.ok \in BOOLEAN
         /\ c.ok => ~c.modf /\ c.disk = Content /\ c.buf = <<>>
         /\ ~c.ok => c.modf /\ PutBack(c) /\ Pos(c) = Where
         /\ PosOf # Closed /\ lost \in BOOLEAN
<1>1. PICK b : b = Call(room)
  OBVIOUS
<1>2. Begins(b)
  BY <1>1, CallBegins
<1>3. Sound(b) /\ PutBack(b) /\ All(b) = Content /\ Pos(b) = Where /\ Where \in Nat
  BY <1>2 DEF Begins
<1>4. /\ Sound(c) /\ All(c) = All(b) /\ Same(c, b)
      /\ c.ok => ~c.modf /\ c.disk = All(b) /\ c.buf = <<>>
      /\ ~c.ok => /\ c.modf
                  /\ c.spos = b.spos /\ c.buf = b.buf /\ c.bpos = b.bpos
  BY <1>1, <1>3, bFlushDoes
<1>5. c.ubuf = b.ubuf /\ Len(c.ubuf) <= 1
  BY <1>3, <1>4 DEF Same, PutBack
<1>6. c.ok \in BOOLEAN /\ lost \in BOOLEAN
  BY <1>4 DEF Sound, Calls, Inv, TypeOK
<1>7. ~c.ok => At(c) = At(b)
  BY <1>4 DEF At
<1>8. ~c.ok => PutBack(c) /\ Pos(c) = Where
  BY <1>3, <1>4, <1>5, <1>7 DEF PutBack, Pos
<1>9. PosOf # Closed
  BY <1>3, DeviceAssumption DEF PosOf, Channel, Opened
<1>10. QED BY <1>3, <1>4, <1>5, <1>6, <1>8, <1>9

\* A Close without error has handed everything to the system.
LEMMA Closes ==
  ASSUME Inv, Careful = TRUE, Close
  PROVE  Inv' /\ File!Close
<1>1. Opened
  BY DEF Close
<1>2. PICK room, c :
        /\ room \in Rooms
        /\ c = bFlush(Call(room)) /\ Leave(c) /\ Answer(c, "Close", <<>>, "allRight")
        /\ chan' = IF c.ok THEN "closed" ELSE "open"
        /\ kept' = (kept /\ ~c.ok)
  BY DEF Close
<1>3. /\ flags' = flags /\ mode' = mode /\ lost' = lost /\ mode' \subseteq {"read", "write"}
      /\ kept \in BOOLEAN /\ kept' \in BOOLEAN
  BY <1>2 DEF Close, Inv, TypeOK
<1>4. /\ Sound(c) /\ All(c) = Content /\ Len(c.ubuf) <= 1 /\ c.ok \in BOOLEAN
      /\ c.ok => ~c.modf /\ c.disk = Content
      /\ ~c.ok => c.modf /\ PutBack(c) /\ Pos(c) = Where
      /\ PosOf # Closed /\ lost \in BOOLEAN
  BY <1>1, <1>2, FlushedLast
<1>5. CASE c.ok
  <2>1. Inv' /\ ~Opened' /\ Content' = Content /\ ~fault' /\ disk' = Content
    BY <1>2, <1>3, <1>4, <1>5, LeavesClosed
  <2>2. reply' = [op |-> "Close", data |-> <<>>, res |-> "allRight"]
    BY <1>2, <1>5 DEF Answer, Reply
  <2>3. PosOf' = Closed /\ ModeOf' = {}
    BY <1>2, <1>5 DEF PosOf, ModeOf, Channel, Opened
  <2>4. QED BY <1>4, <2>1, <2>2, <2>3 DEF File!Close, File!Reply, PosOf, ModeOf, Channel, Opened
<1>6. CASE ~c.ok
  <2>1. Behind(c)
    BY <1>4, <1>6 DEF Behind
  <2>2. Inv' /\ Opened' /\ Content' = Content /\ Where' = Where /\ fault'
    BY <1>2, <1>3, <1>4, <1>6, <2>1, LeavesOpen
  <2>3. reply' = [op |-> "Close", data |-> <<>>, res |-> "hardDeviceError"]
    BY <1>2, <1>6 DEF Answer, Reply
  <2>4. PosOf' = PosOf
    BY <1>1, <1>3, <2>2 DEF PosOf, Channel, Opened
  <2>5. ModeOf' = ModeOf
    BY <1>1, <1>2, <1>3, <1>6 DEF ModeOf, Channel, Opened
  <2>6. QED BY <1>4, <2>2, <2>3, <2>4, <2>5 DEF File!Close, File!Failed, File!Reply, PosOf, ModeOf, Channel, Opened
<1>7. QED BY <1>4, <1>5, <1>6

\* xDevData.Open begins with an empty buffer.
LEMMA OpenDataDoes ==
  ASSUME NEW d \in Seq(Byte), NEW p \in Nat, NEW fl, fl \subseteq {"read", "write", "text", "raw"},
         NEW m, m \subseteq {"read", "write"}, OpenData(d, p, fl, m)
  PROVE  /\ Inv' /\ Opened' /\ ~lost' /\ ~fault' /\ Content' = d /\ Where' = p /\ PosOf' = p
         /\ disk' = d /\ ModeOf' = m
<1>1. /\ disk' = d /\ kpos' = p /\ spos' = p /\ buf' = <<>> /\ bpos' = 0
      /\ modf' = FALSE /\ ubuf' = <<>> /\ lost' = FALSE /\ fault' = FALSE
      /\ flags' = fl /\ mode' = m /\ chan' = "open" /\ kept' = FALSE
  BY DEF OpenData
<1>2. <<>> \in Seq(Byte) /\ Len(<<>>) = 0 /\ 0 \in Nat /\ 0 \in 0..0 /\ 0 <= BUFSIZE /\ 0 <= 0 /\ 0 <= 1
  BY EmptySeq, DeviceAssumption
<1>3. TypeOK'
  BY <1>1, <1>2 DEF TypeOK
<1>4. PICK b : b = [disk |-> d, kpos |-> p, spos |-> p, buf |-> <<>>, bpos |-> 0,
                    modf |-> FALSE, ubuf |-> <<>>,
                    room |-> 0, got |-> <<>>, ok |-> TRUE, lost |-> FALSE]
  OBVIOUS
<1>5. Call(0)' = b
  BY <1>1, <1>4 DEF Call
<1>6. b \in Calls
  BY <1>2, <1>4 DEF Calls
<1>7. /\ b.disk = d /\ b.kpos = p /\ b.spos = p /\ b.buf = <<>> /\ b.bpos = 0 /\ b.modf = FALSE /\ b.ubuf = <<>>
  BY <1>4
<1>8. Held(b.disk, b.spos, b.buf)
  BY <1>7, HeldEmpty
<1>9. Sound(b)
  BY <1>2, <1>6, <1>7, <1>8 DEF Sound
<1>10. PutBack(b)
  BY <1>2, <1>7 DEF PutBack
<1>11. Behind(b)
  <2>1. p = p + 0
    OBVIOUS
  <2>2. QED BY <1>2, <1>7, <2>1 DEF Behind
<1>12. Opened' /\ ~(chan' \notin {"open", "ended"})
  BY <1>1 DEF Opened
<1>13. Inv'
  BY <1>1, <1>3, <1>5, <1>9, <1>10, <1>11, <1>12 DEF Inv
<1>14. Content' = d
  BY <1>1 DEF Content
<1>15. Where' = p
  <2>1. spos' = p /\ bpos' = 0 /\ Len(ubuf') = 0
    BY <1>1, <1>2
  <2>2. p + 0 - 0 = p
    OBVIOUS
  <2>3. QED BY <2>1, <2>2 DEF Where
<1>16. PosOf' = p /\ ModeOf' = m
  BY <1>1, <1>12, <1>15 DEF PosOf, ModeOf, Channel, Opened
<1>17. QED BY <1>1, <1>12, <1>13, <1>14, <1>15, <1>16

\* A file of the bytes d, empty or the one on the disk, is opened at its start or end.
OpenedAt(d, p, g, m) ==
  /\ OpenData(d, p, g, m) /\ d \in Seq(Byte) /\ p \in Nat
  /\ d \in {disk, <<>>} /\ p \in {0, Len(d)}
  /\ g \subseteq {"read", "write", "text", "raw"} /\ m \subseteq {"read", "write"} /\ m # {}

LEMMA Opens ==
  ASSUME Inv, Careful = TRUE, Open
  PROVE  Inv' /\ File!Open
<1>1. chan = "closed" /\ ~Channel /\ reply' = [op |-> "Open", data |-> <<>>, res |-> "opened"]
  BY DEF Open, Reply, Channel
<1>2. PICK fl \in FlagSets : OpenOld(fl) \/ OpenClean(fl) \/ doOpenWrite(fl) \/ OpenAppend(fl) \/ OpenRead(fl)
  BY DEF Open
<1>3. fl \subseteq {"read", "write", "text", "raw"}
  BY DeviceAssumption
<1>4. Content = disk /\ disk \in Seq(Byte) /\ Len(disk) \in Nat /\ PosOf = Closed
  <2>1. ~modf /\ disk \in Seq(Byte)
    BY <1>1 DEF Inv, TypeOK
  <2>2. Len(disk) \in Nat
    BY <2>1
  <2>3. QED BY <1>1, <2>1, <2>2 DEF Content, Opened, PosOf, Channel
<1>5. /\ Without(fl, "text", "raw") \subseteq {"raw"} /\ Without(fl, "write", "read") \subseteq {"read"}
      /\ Without(fl, "raw", "text") \subseteq {"text"}
  BY DEF Without
<1>6. PICK d, p, g, m : OpenedAt(d, p, g, m)
  <2>1. <<>> \in Seq(Byte) /\ 0 \in Nat
    BY EmptySeq
  <2>2. CASE OpenOld(fl)
    <3>1. PICK g : g = fl \cup Without(fl, "text", "raw") \cup Without(fl, "write", "read")
      OBVIOUS
    <3>2. OpenData(disk, 0, g, g \cap {"read", "write"})
      BY <2>2, <3>1 DEF OpenOld
    <3>3. g \subseteq {"read", "write", "text", "raw"} /\ g \cap {"read", "write"} \subseteq {"read", "write"} /\ g \cap {"read", "write"} # {}
      <4>1. "write" \in g \/ "read" \in g
        BY <3>1 DEF Without
      <4>2. QED BY <1>3, <1>5, <3>1, <4>1
    <3>4. OpenedAt(disk, 0, g, g \cap {"read", "write"})
      BY <1>4, <2>1, <3>2, <3>3 DEF OpenedAt
    <3>5. QED BY <3>4
  <2>3. CASE OpenClean(fl)
    <3>1. PICK g : g = fl \cup {"write"} \cup Without(fl, "text", "raw")
      OBVIOUS
    <3>2. OpenData(<<>>, 0, g, g \cap {"read", "write"})
      BY <2>3, <3>1 DEF OpenClean
    <3>3. g \subseteq {"read", "write", "text", "raw"} /\ g \cap {"read", "write"} \subseteq {"read", "write"} /\ g \cap {"read", "write"} # {}
      BY <1>3, <1>5, <3>1
    <3>4. OpenedAt(<<>>, 0, g, g \cap {"read", "write"})
      BY <2>1, <3>2, <3>3 DEF OpenedAt
    <3>5. QED BY <3>4
  <2>4. CASE doOpenWrite(fl)
    <3>1. PICK g : g = fl \cup {"write"} \cup Without(fl, "raw", "text")
      OBVIOUS
    <3>2. OpenData(<<>>, 0, g, {"write"})
      BY <2>4, <3>1 DEF doOpenWrite
    <3>3. g \subseteq {"read", "write", "text", "raw"} /\ {"write"} \subseteq {"read", "write"} /\ {"write"} # {}
      BY <1>3, <1>5, <3>1
    <3>4. OpenedAt(<<>>, 0, g, {"write"})
      BY <2>1, <3>2, <3>3 DEF OpenedAt
    <3>5. QED BY <3>4
  <2>5. CASE OpenAppend(fl)
    <3>1. PICK g : g = fl \cup {"write"} \cup Without(fl, "raw", "text")
      OBVIOUS
    <3>2. OpenData(disk, Len(disk), g, {"write"})
      BY <2>5, <3>1 DEF OpenAppend
    <3>3. g \subseteq {"read", "write", "text", "raw"} /\ {"write"} \subseteq {"read", "write"} /\ {"write"} # {}
      BY <1>3, <1>5, <3>1
    <3>4. OpenedAt(disk, Len(disk), g, {"write"})
      BY <1>4, <3>2, <3>3 DEF OpenedAt
    <3>5. QED BY <3>4
  <2>6. CASE OpenRead(fl)
    <3>1. PICK g : g = fl \cup {"read"} \cup Without(fl, "raw", "text")
      OBVIOUS
    <3>2. OpenData(disk, 0, g, {"read"})
      BY <2>6, <3>1 DEF OpenRead
    <3>3. g \subseteq {"read", "write", "text", "raw"} /\ {"read"} \subseteq {"read", "write"} /\ {"read"} # {}
      BY <1>3, <1>5, <3>1
    <3>4. OpenedAt(disk, 0, g, {"read"})
      BY <1>4, <2>1, <3>2, <3>3 DEF OpenedAt
    <3>5. QED BY <3>4
  <2>7. QED BY <1>2, <2>2, <2>3, <2>4, <2>5, <2>6
<1>7. Inv' /\ ~fault' /\ Content' = d /\ PosOf' = p /\ ModeOf' = m
  BY <1>6, OpenDataDoes DEF OpenedAt
<1>8. ModeOf' \in (SUBSET {"read", "write"}) \ {{}}
  <2>1. m \subseteq {"read", "write"} /\ m # {}
    BY <1>6 DEF OpenedAt
  <2>2. QED BY <1>7, <2>1
<1>9. /\ Content' \in {Content, <<>>} /\ PosOf' \in {0, Len(Content')}
  BY <1>4, <1>6, <1>7 DEF OpenedAt
<1>10. QED BY <1>1, <1>4, <1>7, <1>8, <1>9 DEF File!Open, File!Reply, PosOf, ModeOf, Channel, Opened

\* Rewrite leaves the file and the position as they were, or empties the file, or
\* leaves what has been handed to the system, or nothing, without a position.
LEMMA Rewrites ==
  ASSUME Inv, Careful = TRUE, Rewrite
  PROVE  Inv' /\ File!Rewrite
<1>1. Opened /\ chan = "open" /\ Channel
  BY DEF Rewrite, Opened, Channel
<1>2. flags \subseteq {"read", "write", "text", "raw"} /\ mode \subseteq {"read", "write"}
  BY DEF Inv, TypeOK
<1>3. CASE /\ ForbidAll /\ fault' = FALSE /\ Reply("Rewrite", <<>>, "allRight")
           /\ UNCHANGED <<data, flags, chan, lost>>
  <2>1. /\ mode' = {} /\ kept' = FALSE /\ fault' = FALSE /\ flags' = flags /\ chan' = chan /\ lost' = lost
        /\ disk' = disk /\ kpos' = kpos /\ spos' = spos /\ buf' = buf /\ bpos' = bpos
        /\ modf' = modf /\ ubuf' = ubuf
    BY <1>3 DEF ForbidAll, data
  <2>2. Call(0)' = Call(0)
    BY <2>1 DEF Call
  <2>3. TypeOK'
    BY <2>1 DEF Inv, TypeOK
  <2>4. Opened'
    BY <1>1, <2>1 DEF Opened
  <2>5. Inv'
    BY <1>1, <2>1, <2>2, <2>3, <2>4 DEF Inv
  <2>6. Content' = Content /\ Where' = Where
    BY <2>1 DEF Content, Where
  <2>7. PosOf' = PosOf /\ ModeOf' = {}
    BY <2>1, <2>6 DEF PosOf, ModeOf, Channel, Opened
  <2>8. PosOf # Closed
    <3>1. Where \in Nat
      BY <1>1, CallBeginsAt DEF Begins
    <3>2. QED BY <1>1, <3>1, DeviceAssumption DEF PosOf, Channel, Opened
  <2>9. reply' = [op |-> "Rewrite", data |-> <<>>, res |-> "allRight"]
    BY <1>3 DEF Reply
  <2>10. QED BY <2>1, <2>5, <2>6, <2>7, <2>8, <2>9 DEF File!Rewrite, File!Reply, PosOf, ModeOf, Channel, Opened
<1>4. ASSUME NEW room \in Rooms, NEW c, c = bFlush(Call(room))
      PROVE  /\ Sound(c) /\ All(c) = Content /\ Len(c.ubuf) <= 1 /\ c.ok \in BOOLEAN
             /\ c.ok => ~c.modf /\ c.disk = Content /\ c.buf = <<>>
             /\ ~c.ok => c.modf /\ PutBack(c) /\ Pos(c) = Where
             /\ PosOf # Closed /\ lost \in BOOLEAN
  BY <1>1, <1>4, FlushedLast
<1>5. ASSUME NEW room \in Rooms, NEW c, c = bFlush(Call(room)),
             ~c.ok, Leave(c), Reply("Rewrite", <<>>, "hardDeviceError"),
             kept' = TRUE, UNCHANGED <<flags, mode, chan, lost>>
      PROVE  Inv' /\ File!Rewrite
  <2>1. /\ Sound(c) /\ All(c) = Content /\ c.modf /\ PutBack(c) /\ Pos(c) = Where
        /\ PosOf # Closed /\ lost \in BOOLEAN
    BY <1>4, <1>5
  <2>2. Behind(c)
    BY <2>1 DEF Behind
  <2>3. flags' = flags /\ mode' \subseteq {"read", "write"} /\ chan' = "open" /\ lost' = lost /\ kept' \in BOOLEAN
    BY <1>1, <1>2, <1>5
  <2>4. Inv' /\ Opened' /\ Content' = Content /\ Where' = Where /\ fault'
    BY <1>5, <2>1, <2>2, <2>3, LeavesOpen
  <2>5. PosOf' = PosOf /\ ModeOf' = {}
    BY <1>1, <1>5, <2>3, <2>4 DEF PosOf, ModeOf, Channel, Opened
  <2>6. reply' = [op |-> "Rewrite", data |-> <<>>, res |-> "hardDeviceError"]
    BY <1>5 DEF Reply
  <2>7. QED BY <2>1, <2>4, <2>5, <2>6 DEF File!Rewrite, File!Failed, File!Reply, PosOf, ModeOf, Channel, Opened
\* The device data have been disposed of, and the disk has d.
<1>6. ASSUME NEW room \in Rooms, NEW c, c = bFlush(Call(room)), c.ok, NEW d \in {c.disk, <<>>},
             Leave([c EXCEPT !.disk = d]), NEW res \in {"allRight", "softDeviceError"},
             Reply("Rewrite", <<>>, res), chan' = "disposed", UNCHANGED <<flags, lost>>,
             mode' \subseteq {"read", "write"}, kept' \in BOOLEAN, kept' \/ mode' = {}
      PROVE  Inv' /\ File!Rewrite
  <2>1. Sound(c) /\ Len(c.ubuf) <= 1 /\ ~c.modf /\ c.disk = Content /\ c.buf = <<>> /\ PosOf # Closed
    BY <1>4, <1>6
  <2>2. PICK e : e = [c EXCEPT !.disk = d]
    OBVIOUS
  <2>3. c \in Calls /\ c.disk \in Seq(Byte) /\ <<>> \in Seq(Byte)
    BY <2>1, EmptySeq DEF Sound, Calls
  <2>4. e \in Calls /\ e.disk = d
    BY <1>6, <2>2, <2>3 DEF Calls
  <2>5. /\ e.kpos = c.kpos /\ e.spos = c.spos /\ e.buf = c.buf /\ e.bpos = c.bpos
        /\ e.modf = c.modf /\ e.ubuf = c.ubuf /\ e.ok = c.ok
    BY <2>2, <2>3 DEF Calls
  <2>6. Held(e.disk, e.spos, e.buf)
    BY <1>6, <2>1, <2>3, <2>4, <2>5, HeldEmpty DEF Calls
  <2>7. Sound(e) /\ All(e) = d /\ Len(e.ubuf) <= 1 /\ ~e.modf /\ Leave(e)
    BY <1>6, <2>1, <2>2, <2>4, <2>5, <2>6 DEF Sound, All
  <2>8. flags' = flags /\ lost' = lost /\ chan' \in {"closed", "disposed", "ended"}
    BY <1>6
  <2>9. Inv' /\ ~Opened' /\ Content' = d /\ ~fault' /\ disk' = d
    BY <1>6, <2>4, <2>5, <2>7, <2>8, LeavesClosed
  <2>10. PosOf' = Unknown /\ ModeOf' = {}
    BY <1>6 DEF PosOf, ModeOf, Channel, Opened
  <2>11. reply' = [op |-> "Rewrite", data |-> <<>>, res |-> res]
    BY <1>6 DEF Reply
  <2>12. Content' \in {Content, <<>>}
    BY <1>6, <2>1, <2>9
  <2>13. QED BY <1>6, <2>1, <2>9, <2>10, <2>11, <2>12 DEF File!Rewrite, File!Reply, PosOf, ModeOf, Channel, Opened
<1>7. ASSUME NEW room \in Rooms, NEW c, c = bFlush(Call(room)),
             c.ok, doOpenWrite(flags), Reply("Rewrite", <<>>, "allRight")
      PROVE  Inv' /\ File!Rewrite
  <2>1. PICK g : g = flags \cup {"write"} \cup Without(flags, "raw", "text")
    OBVIOUS
  <2>2. OpenData(<<>>, 0, g, {"write"})
    BY <1>7, <2>1 DEF doOpenWrite
  <2>3. g \subseteq {"read", "write", "text", "raw"} /\ {"write"} \subseteq {"read", "write"}
    BY <1>2, <2>1 DEF Without
  <2>4. Inv' /\ ~fault' /\ Content' = <<>> /\ PosOf' = 0 /\ ModeOf' = {"write"}
    BY <2>2, <2>3, EmptySeq, OpenDataDoes
  <2>5. reply' = [op |-> "Rewrite", data |-> <<>>, res |-> "allRight"] /\ PosOf # Closed
    BY <1>4, <1>7 DEF Reply
  <2>6. QED BY <2>4, <2>5 DEF File!Rewrite, File!Reply, PosOf, ModeOf, Channel, Opened
<1>8. ASSUME NEW room \in Rooms, NEW c, c = bFlush(Call(room)),
             c.ok, Leave(c), Reply("Rewrite", <<>>, "softDeviceError"),
             chan' = "disposed", kept' = TRUE, UNCHANGED <<flags, mode, lost>>
      PROVE  Inv' /\ File!Rewrite
  <2>1. c \in Calls
    BY <1>4, <1>8 DEF Sound
  <2>2. [c EXCEPT !.disk = c.disk] = c
    BY <2>1 DEF Calls
  <2>3. mode' \subseteq {"read", "write"}
    BY <1>2, <1>8
  <2>4. PICK d : d = c.disk
    OBVIOUS
  <2>5. [c EXCEPT !.disk = d] = c /\ d \in {c.disk, <<>>}
    BY <2>2, <2>4
  <2>6. Leave([c EXCEPT !.disk = d])
    BY <1>8, <2>5
  <2>7. UNCHANGED <<flags, lost>> /\ kept' \in BOOLEAN
    BY <1>8
  <2>8. QED BY <1>6, <1>8, <2>3, <2>5, <2>6, <2>7
<1>9. ASSUME NEW room \in Rooms, NEW c, c = bFlush(Call(room)), NEW d \in {c.disk, <<>>},
             c.ok, Leave([c EXCEPT !.disk = d]), Reply("Rewrite", <<>>, "allRight"),
             chan' = "disposed", ForbidAll, UNCHANGED <<flags, lost>>
      PROVE  Inv' /\ File!Rewrite
  <2>1. mode' = {} /\ kept' = FALSE
    BY <1>9 DEF ForbidAll
  <2>2. QED BY <1>6, <1>9, <2>1
<1>10. QED BY <1>3, <1>5, <1>7, <1>8, <1>9 DEF Rewrite

\* At the end of the program all that the device has taken is on the disk.
LEMMA Exits ==
  ASSUME Inv, Careful = TRUE, Exit
  PROVE  Inv' /\ File!Exit
<1>1. /\ chan # "ended" /\ chan' = "ended" /\ flags' = flags /\ mode' = mode /\ lost' = lost /\ reply' = reply
      /\ mode' \subseteq {"read", "write"} /\ kept' = kept /\ kept' \in BOOLEAN
  BY DEF Exit, Inv, TypeOK
<1>2. CASE Opened
  <2>1. PICK room \in Rooms : Leave([bFlush(Call(room)) EXCEPT !.ubuf = <<>>])
    BY <1>2 DEF Exit
  <2>2. PICK c : c = bFlush(Call(room))
    OBVIOUS
  <2>3. /\ Sound(c) /\ All(c) = Content /\ c.ok \in BOOLEAN
        /\ c.ok => ~c.modf /\ c.disk = Content
    BY <1>2, <2>2, FlushedLast
  <2>4. PICK d : d = [c EXCEPT !.ubuf = <<>>]
    OBVIOUS
  <2>5. c \in Calls
    BY <2>3 DEF Sound
  <2>6. d \in Calls /\ d.ubuf = <<>> /\ d.ok = c.ok
    BY <2>4, <2>5, EmptySeq DEF Calls
  <2>7. d.disk = c.disk /\ d.spos = c.spos /\ d.buf = c.buf /\ d.bpos = c.bpos /\ d.modf = c.modf
    BY <2>4, <2>5 DEF Calls
  <2>8. Sound(d)
    BY <2>3, <2>6, <2>7 DEF Sound
  <2>9. All(d) = Content
    BY <2>3, <2>7 DEF All
  <2>10. Leave(d) /\ Len(d.ubuf) <= 1
    <3>1. Len(d.ubuf) = 0
      BY <2>6, EmptySeq
    <3>2. QED BY <2>1, <2>2, <2>4, <3>1
  <2>11. Inv' /\ ~Opened' /\ Content' = Content /\ fault' = ~d.ok /\ disk' = d.disk
    BY <1>1, <2>8, <2>9, <2>10, LeavesClosed
  <2>12. PosOf' = Closed /\ ModeOf' = {}
    BY <1>1 DEF PosOf, ModeOf, Channel, Opened
  <2>13. fault' \/ disk' = Content
    BY <2>3, <2>6, <2>7, <2>11
  <2>14. QED BY <1>1, <2>11, <2>12, <2>13 DEF File!Exit, PosOf, ModeOf, Channel, Opened
<1>3. CASE ~Opened
  <2>1. UNCHANGED data /\ fault' = FALSE
    BY <1>3 DEF Exit
  <2>2. /\ disk' = disk /\ kpos' = kpos /\ spos' = spos /\ buf' = buf /\ bpos' = bpos
        /\ modf' = modf /\ ubuf' = ubuf
    BY <2>1 DEF data
  <2>3. Call(0)' = Call(0)
    BY <2>2 DEF Call
  <2>4. TypeOK'
    BY <1>1, <2>1, <2>2 DEF Inv, TypeOK
  <2>5. ~Opened'
    BY <1>1 DEF Opened
  <2>6. Inv'
    BY <1>1, <2>3, <2>4, <2>5 DEF Inv
  <2>7. Content' = Content
    BY <2>2 DEF Content
  <2>8. disk' = Content
    <3>1. ~modf
      BY <1>1, <1>3 DEF Inv, TypeOK, Opened
    <3>2. QED BY <2>2, <3>1 DEF Content
  <2>9. PosOf' = Closed /\ ModeOf' = {}
    BY <1>1 DEF PosOf, ModeOf, Channel, Opened
  <2>10. QED BY <1>1, <2>6, <2>7, <2>8, <2>9 DEF File!Exit, PosOf, ModeOf, Channel, Opened
<1>4. QED BY <1>2, <1>3

\* The buffer is empty, so that the file is what the disk holds.
LEMMA Synchronizes ==
  ASSUME Inv, Careful = TRUE, SynchronizePos
  PROVE  Inv' /\ File!SynchronizePos
<1>1. Opened /\ bpos = 0 /\ buf = <<>>
  BY DEF SynchronizePos
<1>2. PICK c : c = Call(0)
  OBVIOUS
<1>3. /\ c.disk = disk /\ c.kpos = kpos /\ c.spos = spos /\ c.buf = buf /\ c.bpos = bpos
      /\ c.modf = modf /\ c.ubuf = ubuf /\ c.ok = TRUE
  BY <1>2 DEF Call
<1>4. Sound(c) /\ PutBack(c)
  BY <1>1, <1>2 DEF Inv
<1>5. c \in Calls /\ kpos \in Nat /\ disk \in Seq(Byte) /\ modf \in BOOLEAN
  BY <1>4 DEF Sound, Inv, TypeOK
<1>6. ubuf = <<>>
  BY <1>1, <1>3, <1>4 DEF PutBack
<1>7. PICK d : d = [c EXCEPT !.spos = kpos]
  OBVIOUS
<1>8. d \in Calls /\ d.spos = kpos /\ d.kpos = kpos /\ d.ok = TRUE
  BY <1>3, <1>5, <1>7 DEF Calls
<1>9. d.disk = disk /\ d.buf = <<>> /\ d.bpos = 0 /\ d.modf = modf /\ d.ubuf = <<>>
  BY <1>1, <1>3, <1>5, <1>6, <1>7 DEF Calls
<1>10. Len(<<>>) = 0 /\ 0 <= 0 /\ 0 <= BUFSIZE
  BY DeviceAssumption, EmptySeq
<1>11. Held(d.disk, d.spos, d.buf)
  BY <1>5, <1>8, <1>9, HeldEmpty
<1>12. Sound(d)
  BY <1>8, <1>9, <1>10, <1>11 DEF Sound
<1>13. PutBack(d)
  BY <1>9, <1>10 DEF PutBack
<1>14. Behind(d)
  <2>1. kpos = kpos + 0
    BY <1>5
  <2>2. QED BY <1>8, <1>9, <1>10, <2>1 DEF Behind
<1>15. All(c) = disk /\ All(d) = disk
  <2>1. PICK s \in Seq(Byte), p \in Nat, q \in Nat : s = disk /\ p = c.spos /\ q = kpos
    BY <1>5 DEF Calls
  <2>2. Overlay(s, p, <<>>, Hole) = s /\ Overlay(s, q, <<>>, Hole) = s
    BY DEF Overlay
  <2>3. QED BY <1>1, <1>3, <1>8, <1>9, <2>1, <2>2 DEF All
<1>16. Leave(d) /\ flags' = flags /\ mode' = mode /\ chan' = "open" /\ lost' = FALSE /\ fault' = FALSE
      /\ kept' = kept /\ ModeOf' = ModeOf
  BY <1>1, <1>6, <1>8, <1>9, ModeStays DEF SynchronizePos, Leave, Opened
<1>17. mode' \subseteq {"read", "write"} /\ kept' \in BOOLEAN
  BY <1>16 DEF Inv, TypeOK
<1>18. Inv' /\ Opened' /\ Content' = disk /\ Where' = Pos(d)
  BY <1>12, <1>13, <1>14, <1>15, <1>16, <1>17, LeavesOpen
<1>19. Content = disk
  BY <1>2, <1>3, <1>15, Zenon DEF All, Content
<1>20. PosOf # Closed /\ PosOf' # Closed
  <2>1. Pos(c) \in Nat /\ Pos(d) \in Nat
    BY <1>4, <1>12, <1>13, Positions0
  <2>2. Unknown # Closed /\ Closed \notin Nat
    BY DeviceAssumption
  <2>3. PosOf' # Closed
    BY <1>16, <1>18, <2>1, <2>2 DEF PosOf, Channel, Opened
  <2>4. Where \in Nat
    BY <1>1, <1>6, Clearly
  <2>5. QED BY <1>1, <2>2, <2>3, <2>4 DEF PosOf, Channel, Opened
<1>21. ~fault' /\ reply' = [op |-> "SynchronizePos", data |-> <<>>, res |-> "allRight"]
  BY DEF SynchronizePos, Reply
<1>22. QED BY <1>16, <1>18, <1>19, <1>20, <1>21 DEF File!SynchronizePos, File!Reply, PosOf, ModeOf, Channel, Opened

-----------------------------------------------------------------------------
(* The theorems *)

LEMMA InvHolds0 ==
  ASSUME Init
  PROVE  Inv /\ File!Init
<1>1. /\ disk = <<>> /\ kpos = 0 /\ spos = 0 /\ buf = <<>> /\ bpos = 0
      /\ modf = FALSE /\ ubuf = <<>> /\ flags = {} /\ mode = {} /\ chan = "closed"
      /\ lost = FALSE /\ kept = FALSE /\ fault = FALSE
      /\ reply = [op |-> "none", data |-> <<>>, res |-> "notKnown"]
  BY DEF Init
<1>2. <<>> \in Seq(Byte) /\ Len(<<>>) = 0 /\ 0 \in Nat /\ 0 \in 0..0 /\ 0 <= BUFSIZE /\ 0 <= 0 /\ 0 <= 1
  BY EmptySeq, DeviceAssumption
<1>3. TypeOK
  BY <1>1, <1>2 DEF TypeOK
<1>4. PICK b : b = [disk |-> <<>>, kpos |-> 0, spos |-> 0, buf |-> <<>>, bpos |-> 0,
                    modf |-> FALSE, ubuf |-> <<>>,
                    room |-> 0, got |-> <<>>, ok |-> TRUE, lost |-> FALSE]
  OBVIOUS
<1>5. Call(0) = b
  BY <1>1, <1>4 DEF Call
<1>6. b \in Calls
  BY <1>2, <1>4 DEF Calls
<1>7. b.disk = <<>> /\ b.spos = 0 /\ b.buf = <<>> /\ b.bpos = 0
  BY <1>4
<1>8. Held(b.disk, b.spos, b.buf)
  BY <1>2, <1>7, HeldEmpty
<1>9. Sound(b)
  BY <1>2, <1>6, <1>7, <1>8 DEF Sound
<1>10. ~Opened
  BY <1>1 DEF Opened
<1>11. Inv
  BY <1>1, <1>3, <1>5, <1>9, <1>10 DEF Inv
<1>12. File!Init
  BY <1>1, <1>10 DEF File!Init, Content, PosOf, ModeOf, Channel, Opened
<1>13. QED BY <1>11, <1>12

\* Every step is one of RandomFile's, or changes nothing that RandomFile sees.
LEMMA StepIsFiles ==
  ASSUME Inv, Careful = TRUE, [Next]_vars
  PROVE  Inv' /\ [File!Next]_(<<Content, PosOf, ModeOf, disk, fault, reply>>)
<1>1. CASE UNCHANGED vars
  <2>1. UNCHANGED <<data, lost>> /\ Stays /\ fault' = fault /\ reply' = reply
    BY <1>1 DEF vars, Stays
  <2>2. fault' \in BOOLEAN
    BY <2>1 DEF Inv, TypeOK
  <2>3. Inv' /\ Content' = Content /\ PosOf' = PosOf /\ ModeOf' = ModeOf /\ disk' = disk
    BY <2>1, <2>2, Unmoved
  <2>4. QED BY <2>1, <2>3
<1>2. CASE Next
  <2>1. CASE Open
    BY <2>1, Opens DEF File!Next
  <2>2. CASE Reread
    BY <2>2, Rereads DEF File!Next
  <2>3. CASE Rewrite
    BY <2>3, Rewrites DEF File!Next
  <2>4. CASE Close
    BY <2>4, Closes DEF File!Next
  <2>5. CASE Exit
    BY <2>5, Exits DEF File!Next
  <2>6. CASE Look
    BY <2>6, Looks DEF File!Next
  <2>7. CASE Skip
    BY <2>7, Skips DEF File!Next
  <2>8. CASE Flush
    BY <2>8, Flushes DEF File!Next
  <2>9. CASE CurrentPos
    BY <2>9, Tells DEF File!Next
  <2>10. CASE Length
    BY <2>10, Measures DEF File!Next
  <2>11. CASE SynchronizePos
    BY <2>11, Synchronizes DEF File!Next
  <2>12. ASSUME NEW n \in Lengths, RawRead(n)
         PROVE  Inv' /\ File!Next
    <3>1. Inv' /\ File!Read(n)
      BY <2>12, RawReads
    <3>2. QED BY <3>1 DEF File!Next
  <2>13. ASSUME NEW n \in Lengths, TextRead(n)
         PROVE  Inv' /\ File!Next
    <3>1. Inv' /\ File!TextRead(n)
      BY <2>13, TextIsRead
    <3>2. QED BY <3>1 DEF File!Next
  <2>14. ASSUME NEW s \in Strings, Write(s)
         PROVE  Inv' /\ File!Next
    <3>1. Inv' /\ File!Write(s)
      BY <2>14, Writes
    <3>2. QED BY <3>1 DEF File!Next
  <2>15. ASSUME NEW p \in Positions, SetPos(p)
         PROVE  Inv' /\ File!Next
    <3>1. Inv' /\ File!SetPos(p)
      BY <2>15, SetsPos
    <3>2. QED BY <3>1 DEF File!Next
  <2>16. ASSUME NEW way \in {"read", "write"}, Forbidden(way)
         PROVE  Inv' /\ File!Next
    <3>1. Inv' /\ File!Forbidden(way)
      BY <2>16, Forbids
    <3>2. QED BY <3>1 DEF File!Next
  <2>17. QED
    BY <1>2, <2>1, <2>2, <2>3, <2>4, <2>5, <2>6, <2>7, <2>8, <2>9, <2>10, <2>11, <2>12, <2>13, <2>14, <2>15, <2>16
       DEF Next
<1>3. QED BY <1>1, <1>2

LEMMA HeldOne ==
  ASSUME NEW s \in Seq(Byte), NEW p \in Nat, NEW b \in Seq(Byte), NEW j \in Nat, j < Len(b), Held(s, p, b)
  PROVE  Bytes(s, p + j, 1) = <<b[j + 1]>>
<1>1. PICK l \in Nat : l = Len(b) /\ j < l
  OBVIOUS
<1>2. PICK k \in 0..Len(b), n \in Nat : k = j /\ n = 1
  BY <1>1
<1>3. /\ Bytes(b, k, n) \in Seq(Byte) /\ \A i \in 1..Len(Bytes(b, k, n)) : Bytes(b, k, n)[i] = b[k + i]
      /\ Len(Bytes(b, k, n)) = Least(n, Len(b) - k) /\ Bytes(b, k, n) = Bytes(s, p + k, Least(n, Len(b) - k))
  <2>1. Len(Bytes(b, k, n)) = Least(n, Len(b) - k)
    BY BytesWithin
  <2>2. Bytes(b, k, n) = Bytes(s, p + k, Least(n, Len(b) - k))
    BY HeldBytes
  <2>3. k \in Nat
    BY <1>2
  <2>4. Bytes(b, k, n) \in Seq(Byte) /\ \A i \in 1..Len(Bytes(b, k, n)) : Bytes(b, k, n)[i] = b[k + i]
    BY <2>3, BytesShape
  <2>5. QED BY <2>1, <2>2, <2>4
<1>4. Least(n, Len(b) - k) = 1
  BY <1>1, <1>2 DEF Least
<1>5. PICK u \in Seq(Byte) : u = Bytes(b, k, n) /\ Len(u) = 1 /\ u = Bytes(s, p + j, 1)
  BY <1>2, <1>3, <1>4
<1>6. u[1] = b[j + 1]
  BY <1>2, <1>3, <1>5
<1>7. u = <<u[1]>>
  BY <1>5
<1>8. QED BY <1>5, <1>6, <1>7

\* What the file holds where the buffer is, one by one.
LEMMA PutBackIsHeld ==
  ASSUME Inv, Opened, ubuf # <<>>
  PROVE  bpos > 0 /\ ubuf = <<buf[bpos]>> /\ ubuf = Bytes(Content, Where, 1)
<1>1. PICK c : c = Call(0)
  OBVIOUS
<1>2. c.spos = spos /\ c.buf = buf /\ c.bpos = bpos /\ c.ubuf = ubuf
  BY <1>1 DEF Call
<1>3. Sound(c) /\ PutBack(c)
  BY <1>1 DEF Inv
<1>4. All(c) = Content
  BY <1>1 DEF Call, All, Content
<1>5. PICK a \in Seq(Byte), t \in Seq(Byte), x \in Nat, y \in Nat, l \in Nat :
        a = Content /\ t = buf /\ x = spos /\ y = bpos /\ l = Len(t) /\ y <= l /\ y > 0
  <2>1. Content \in Seq(Byte)
    BY <1>3, <1>4, AllHolds
  <2>2. buf \in Seq(Byte) /\ spos \in Nat /\ bpos \in 0..Len(buf)
    BY DEF Inv, TypeOK
  <2>3. Len(buf) \in Nat
    BY <2>2
  <2>4. bpos > 0
    BY <1>2, <1>3 DEF PutBack
  <2>5. PICK a \in Seq(Byte), t \in Seq(Byte) : a = Content /\ t = buf
    BY <2>1, <2>2
  <2>6. PICK x \in Nat, y \in Nat, l \in Nat : x = spos /\ y = bpos /\ l = Len(buf)
    BY <2>2, <2>3
  <2>7. y <= l /\ y > 0 /\ l = Len(t)
    BY <2>2, <2>3, <2>4, <2>5, <2>6
  <2>8. QED BY <2>5, <2>6, <2>7
<1>6. PICK p \in Nat, k \in Nat : k = y - 1 /\ p = x + k
  BY <1>5
<1>7. ubuf = Bytes(a, p, 1)
  <2>1. At(c) - 1 = p
    BY <1>2, <1>5, <1>6 DEF At
  <2>2. QED BY <1>2, <1>3, <1>4, <1>5, <2>1 DEF PutBack
<1>8. Where = p
  <2>1. Len(ubuf) = 1
    <3>1. ubuf \in Seq(Byte) /\ Len(ubuf) <= 1
      BY DEF Inv, TypeOK
    <3>2. PICK o \in Nat : o = Len(ubuf)
      BY <3>1
    <3>3. o # 0
      BY <3>1, <3>2, EmptySeq
    <3>4. QED BY <3>1, <3>2, <3>3
  <2>2. QED BY <1>5, <1>6, <2>1 DEF Where
<1>9. ubuf = <<buf[bpos]>>
  <2>1. Held(a, x, t)
    BY <1>2, <1>3, <1>4, <1>5, AllHolds
  <2>2. k < Len(t)
    BY <1>5, <1>6
  <2>3. Bytes(a, x + k, 1) = <<t[k + 1]>>
    BY <1>6, <2>1, <2>2, HeldOne
  <2>4. k + 1 = y
    BY <1>5, <1>6
  <2>5. QED BY <1>5, <1>6, <1>7, <2>3, <2>4
<1>10. QED BY <1>5, <1>6, <1>7, <1>8, <1>9

\* For a careful program the buffer agrees with the file in every state: an unmodified
\* buffer holds what the disk holds at its position, in front of the position of the
\* system, and a character put back is the one before the position, in the buffer and
\* in the file (xDevData.mod: bRead, bWrite, bFlush, textread, SetPos, and the methods
\* of RndFile and SeqFile).
THEOREM BufferIsKept == Careful = TRUE /\ Spec => []BufferAgrees
<1> SUFFICES ASSUME Careful = TRUE PROVE Spec => []BufferAgrees
  OBVIOUS
<1>1. Init => Inv
  BY InvHolds0
<1>2. Inv /\ [Next]_vars => Inv'
  BY StepIsFiles
<1>3. Inv => BufferAgrees
  <2> SUFFICES ASSUME Inv PROVE BufferAgrees
    OBVIOUS
  <2>1. TypeOK
    BY DEF Inv
  <2>2. PICK c : c = Call(0)
    OBVIOUS
  <2>3. c.disk = disk /\ c.kpos = kpos /\ c.spos = spos /\ c.buf = buf /\ c.modf = modf
    BY <2>2 DEF Call
  <2>4. Sound(c) /\ (Opened /\ ~lost => Behind(c))
    BY <2>2 DEF Inv
  <2>5. Opened /\ ~modf => /\ buf = Bytes(disk, spos, Len(buf))
                           /\ ~lost => kpos = spos + Len(buf)
    BY <2>3, <2>4 DEF Sound, Held, Behind
  <2>6. Opened /\ ubuf # <<>> => bpos > 0 /\ ubuf = <<buf[bpos]>> /\ ubuf = Bytes(Content, Where, 1)
    BY PutBackIsHeld
  <2>7. QED BY <2>1, <2>5, <2>6 DEF BufferAgrees
<1>4. QED BY <1>1, <1>2, <1>3, PTL DEF Spec

\* A careful program sees the file of RandomFile: what it reads is what was last
\* written there, at the position its calls have left, and after a Flush or a Close
\* without error all of it has been handed to the system.
THEOREM Refines == Careful = TRUE /\ Spec => ImplementsRandomFile
<1> SUFFICES ASSUME Careful = TRUE PROVE Spec => ImplementsRandomFile
  OBVIOUS
<1>1. Init => Inv /\ File!Init
  BY InvHolds0
<1>2. Inv /\ [Next]_vars => Inv' /\ [File!Next]_(<<Content, PosOf, ModeOf, disk, fault, reply>>)
  BY StepIsFiles
<1>3. Inv /\ [Next]_vars
      => [File!Next]_(<<Content, IF ~Channel THEN Closed ELSE IF lost \/ ~Opened THEN Unknown ELSE Where,
                        IF kept \/ ~Channel THEN {} ELSE mode, disk, fault, reply>>)
  BY <1>2 DEF PosOf, ModeOf, Channel, Opened
<1>4. QED BY <1>1, <1>2, <1>3, PTL DEF Spec, ImplementsRandomFile, File!Spec
=============================================================================
