--------------------------- MODULE ProcessesProofs ---------------------------
(***************************************************************************)
(* The scheduler for every set of processes and every urgency, as long as  *)
(* SuspendMeAndActivate and Switch are called by the only ready process    *)
(* (FreeHandOff = FALSE).  The inductive invariant is Inv, from which      *)
(* follow the safety properties; then that the scheduler keeps the promise *)
(* of ISOProcesses, what Switch returns, and that equals take turns.       *)
(*                                                                         *)
(* The last part is the safety of the semaphores for every set of          *)
(* processes and semaphores and any counts, on a scheduler that is used    *)
(* like that, with at most one process above the others and no Claim that  *)
(* leaves the program passive.  Its inductive invariant is CallsInv.       *)
(***************************************************************************)
EXTENDS MCSemaphores, SequenceFacts, FiniteSetTheorems

-----------------------------------------------------------------------------
(* What Tie and UnTie (lib/src/isoimp/Processes.mod 261-315) do to the      *)
(* ready ring, for rings of any length and any urgencies.                   *)

\* Linking p in front of the k-th element shifts the elements from k on.
LEMMA InsertAtShape ==
  ASSUME NEW r \in Seq(Process), NEW k \in 1..Len(r) + 1, NEW p \in Process
  PROVE  /\ InsertAt(r, k, p) \in Seq(Process)
         /\ Len(InsertAt(r, k, p)) = Len(r) + 1
         /\ \A i \in 1..Len(r) + 1 :
              InsertAt(r, k, p)[i] = IF i < k THEN r[i] ELSE IF i = k THEN p ELSE r[i - 1]
<1> DEFINE front == SubSeq(r, 1, k - 1)
           back == SubSeq(r, k, Len(r))
<1>1. /\ front \in Seq(Process)
      /\ Len(front) = k - 1
      /\ \A i \in 1..k - 1 : front[i] = r[i]
  <2>1. \A i \in 1..k-1 : r[i] \in Process
    OBVIOUS
  <2>2. QED BY <2>1, SubSeqProperties
<1>2. /\ back \in Seq(Process)
      /\ Len(back) = Len(r) + 1 - k
      /\ \A i \in 1..Len(r) + 1 - k : back[i] = r[k + i - 1]
  <2>1. \A i \in k..Len(r) : r[i] \in Process
    OBVIOUS
  <2>2. QED BY <2>1, SubSeqProperties
<1> HIDE DEF front, back
<1>3. /\ <<p>> \in Seq(Process) /\ Len(<<p>>) = 1 /\ <<p>>[1] = p
  OBVIOUS
<1>4. /\ front \o <<p>> \in Seq(Process)
      /\ Len(front \o <<p>>) = k
      /\ \A i \in 1..k : (front \o <<p>>)[i] = IF i < k THEN r[i] ELSE p
  BY <1>1, <1>3, ConcatProperties
<1>5. InsertAt(r, k, p) = (front \o <<p>>) \o back
  BY DEF InsertAt, front, back
<1>6. QED
  BY <1>2, <1>4, <1>5, ConcatProperties

\* Making the k-th element the current turns the ring; no element is lost.
LEMMA RotateShape ==
  ASSUME NEW s \in Seq(Process), NEW k \in 1..Len(s)
  PROVE  LET t == SubSeq(s, k, Len(s)) \o SubSeq(s, 1, k - 1)
         IN  /\ t \in Seq(Process)
             /\ Len(t) = Len(s)
             /\ \A i \in 1..Len(s) :
                  t[i] = IF i <= Len(s) - k + 1 THEN s[k + i - 1] ELSE s[i - (Len(s) - k + 1)]
<1> DEFINE front == SubSeq(s, 1, k - 1)
           back == SubSeq(s, k, Len(s))
<1>1. /\ front \in Seq(Process)
      /\ Len(front) = k - 1
      /\ \A i \in 1..k - 1 : front[i] = s[i]
  <2>1. \A i \in 1..k-1 : s[i] \in Process
    OBVIOUS
  <2>2. QED BY <2>1, SubSeqProperties
<1>2. /\ back \in Seq(Process)
      /\ Len(back) = Len(s) + 1 - k
      /\ \A i \in 1..Len(s) + 1 - k : back[i] = s[k + i - 1]
  <2>1. \A i \in k..Len(s) : s[i] \in Process
    OBVIOUS
  <2>2. QED BY <2>1, SubSeqProperties
<1> HIDE DEF front, back
<1>3. /\ back \o front \in Seq(Process)
      /\ Len(back \o front) = Len(back) + Len(front)
      /\ \A i \in 1..Len(back) + Len(front) :
           (back \o front)[i] = IF i <= Len(back) THEN back[i] ELSE front[i - Len(back)]
  BY <1>1, <1>2, ConcatProperties
<1>4. /\ Len(back \o front) = Len(s)
      /\ \A i \in 1..Len(s) :
           (back \o front)[i] = IF i <= Len(s) - k + 1 THEN s[k + i - 1]
                                ELSE s[i - (Len(s) - k + 1)]
  BY <1>1, <1>2, <1>3
<1>5. QED
  BY <1>3, <1>4 DEF front, back

\* Tie's search for the insertion point ends inside the ring: its third loop
\* always meets an element at least as urgent as p, provided the assertions hold.
LEMMA TieIndexRange ==
  ASSUME NEW r \in Seq(Process), r # <<>>, NEW p \in Process, TieAsserts(r, p)
  PROVE  TieIndex(r, p) \in 2..Len(r) + 1
<1> DEFINE n == Len(r)
           m == MinIndex(r)
<1>0. n \in Nat \ {0}
  BY EmptySeq
<1>1. \A j \in 1..n + 1 : UrgencyAt(r, j) \in Int
  BY <1>0, ProcessAssumption DEF UrgencyAt
<1>2. m \in 2..n + 1
  <2> DEFINE S == {x \in 2..n + 1 : \A j \in x..n : UrgencyAt(r, j) <= UrgencyAt(r, j + 1)}
  <2>1. n + 1 \in S /\ S \in SUBSET Nat
    BY <1>0
  <2>2. Min(S) \in S
    BY <2>1, LeastExists
  <2>3. QED
    BY <2>2 DEF MinIndex
<1>3. Urgency[p] \in Int
  BY ProcessAssumption
<1>4. CASE Urgency[p] = UrgencyAt(r, 1)
  BY <1>0, <1>4 DEF TieIndex
<1>5. CASE /\ Urgency[p] # UrgencyAt(r, 1)
           /\ Urgency[p] >= UrgencyAt(r, m - 1) \/ Urgency[p] <= UrgencyAt(r, m)
  BY <1>2, <1>5 DEF TieIndex
<1>6. CASE /\ Urgency[p] # UrgencyAt(r, 1)
           /\ ~(Urgency[p] >= UrgencyAt(r, m - 1) \/ Urgency[p] <= UrgencyAt(r, m))
  <2> DEFINE S == {j \in m..n + 1 : UrgencyAt(r, j) >= Urgency[p]}
  <2>1. UrgencyAt(r, m - 1) = UrgencyAt(r, 1)
    BY <1>6 DEF TieAsserts
  <2>2. UrgencyAt(r, n + 1) = UrgencyAt(r, 1)
    BY <1>0 DEF UrgencyAt
  <2>3. UrgencyAt(r, n + 1) >= Urgency[p]
    BY <1>0, <1>1, <1>3, <1>6, <2>1, <2>2
  <2>4. S \in SUBSET Nat /\ n + 1 \in S
    BY <1>0, <1>2, <2>3
  <2>5. Min(S) \in S
    BY <2>4, LeastExists
  <2>6. TieIndex(r, p) = Min(S)
    BY <1>6 DEF TieIndex
  <2> HIDE DEF S
  <2>7. QED
    BY <1>0, <1>2, <2>5, <2>6 DEF S
<1>7. QED
  BY <1>4, <1>5, <1>6

\* Tie links p, once, keeps everybody else, and makes p the current exactly when
\* p is more urgent than the current.
LEMMA TieRingShape ==
  ASSUME NEW r \in Seq(Process), NEW p \in Process, TieAsserts(r, p),
         IsInjective(r), p \notin ToSet(r)
  PROVE  /\ TieRing(r, p) \in Seq(Process)
         /\ TieRing(r, p) # <<>>
         /\ IsInjective(TieRing(r, p))
         /\ ToSet(TieRing(r, p)) = ToSet(r) \cup {p}
         /\ Head(TieRing(r, p)) = IF r = <<>> \/ Urgency[r[1]] < Urgency[p] THEN p ELSE r[1]
<1>1. CASE r = <<>>
  <2>1. TieRing(r, p) = <<p>>
    BY <1>1 DEF TieRing
  <2>2. /\ <<p>> \in Seq(Process) /\ <<p>> # <<>> /\ Len(<<p>>) = 1 /\ <<p>>[1] = p
        /\ DOMAIN <<p>> = 1..1
    OBVIOUS
  <2>3. IsInjective(<<p>>)
    BY <2>2 DEF IsInjective
  <2>4. ToSet(<<p>>) = {p}
    BY <2>2 DEF ToSet
  <2>5. ToSet(r) = {}
    BY <1>1 DEF ToSet
  <2>6. Head(<<p>>) = p
    OBVIOUS
  <2>7. ToSet(<<p>>) = ToSet(r) \cup {p}
    BY <2>4, <2>5
  <2>8. QED
    BY <1>1, <2>1, <2>2, <2>3, <2>6, <2>7
<1>2. CASE r # <<>>
  <2> DEFINE n == Len(r)
             k == TieIndex(r, p)
             tied == InsertAt(r, k, p)
             turned == SubSeq(tied, k, Len(tied)) \o SubSeq(tied, 1, k - 1)
  <2>0. n \in Nat \ {0} /\ DOMAIN r = 1..n
    BY <1>2, EmptySeq
  <2>1. k \in 2..n + 1
    BY <1>2, TieIndexRange
  <2> HIDE DEF k
  <2>2. /\ tied \in Seq(Process)
        /\ Len(tied) = n + 1
        /\ \A i \in 1..n + 1 : tied[i] = IF i < k THEN r[i] ELSE IF i = k THEN p ELSE r[i - 1]
    <3>1. k \in 1..Len(r) + 1
      BY <2>0, <2>1
    <3>2. /\ InsertAt(r, k, p) \in Seq(Process)
          /\ Len(InsertAt(r, k, p)) = Len(r) + 1
          /\ \A i \in 1..Len(r) + 1 :
               InsertAt(r, k, p)[i] = IF i < k THEN r[i] ELSE IF i = k THEN p ELSE r[i - 1]
      <4> HIDE DEF n, tied, turned
      <4>1. QED
        BY <3>1, InsertAtShape
    <3>3. QED
      BY <3>2 DEF tied, n
  <2> HIDE DEF tied
  <2> HIDE DEF n
  <2>4. \A i, j \in 1..n : r[i] = r[j] => i = j
    BY InjectiveSeq DEF n
  <2>5. \A i \in 1..n : r[i] # p
    BY ToSetMember DEF n
  <2>6. \A i, j \in 1..n + 1 : tied[i] = tied[j] => i = j
    BY <2>0, <2>1, <2>2, <2>4, <2>5
  <2>7. ASSUME NEW x
        PROVE  x \in ToSet(tied) <=> x \in ToSet(r) \/ x = p
    <3>1. ASSUME NEW i \in 1..n + 1 PROVE tied[i] \in ToSet(r) \/ tied[i] = p
      <4>1. i = k \/ \E j \in 1..n : tied[i] = r[j]
        BY <2>0, <2>1, <2>2
      <4>2. QED
        BY <2>2, <4>1, <2>1, ToSetMember DEF n
    <3>2. ASSUME NEW i \in 1..n PROVE \E j \in 1..n + 1 : tied[j] = r[i]
      <4>1. CASE i < k
        BY <2>0, <2>1, <2>2, <4>1
      <4>2. CASE i >= k
        <5>1. i + 1 \in 1..n + 1 /\ tied[i + 1] = r[i]
          BY <2>0, <2>1, <2>2, <4>2
        <5>2. QED
          BY <5>1
      <4>3. QED
        BY <2>0, <2>1, <4>1, <4>2
    <3>3. k \in 1..n + 1 /\ tied[k] = p
      BY <2>0, <2>1, <2>2
    <3>4. x \in ToSet(tied) <=> \E i \in 1..n + 1 : tied[i] = x
      BY <2>2, ToSetMember
    <3>5. x \in ToSet(r) <=> \E i \in 1..n : r[i] = x
      BY ToSetMember DEF n
    <3>6. QED
      BY <3>1, <3>2, <3>3, <3>4, <3>5
  <2>8. /\ turned \in Seq(Process)
        /\ Len(turned) = n + 1
        /\ \A i \in 1..n + 1 :
             turned[i] = IF i <= n + 2 - k THEN tied[k + i - 1] ELSE tied[i - (n + 2 - k)]
    <3>1. k \in 1..Len(tied)
      BY <2>0, <2>1, <2>2
    <3>2. Len(tied) - k + 1 = n + 2 - k
      BY <2>0, <2>1, <2>2
    <3>3. /\ turned \in Seq(Process)
          /\ Len(turned) = Len(tied)
          /\ \A i \in 1..Len(tied) :
               turned[i] = IF i <= Len(tied) - k + 1 THEN tied[k + i - 1]
                           ELSE tied[i - (Len(tied) - k + 1)]
      BY <2>2, <3>1, RotateShape
    <3> HIDE DEF turned
    <3>4. QED
      BY <2>2, <3>2, <3>3
  <2> HIDE DEF turned
  <2>9. ASSUME NEW i \in 1..n + 1
        PROVE  /\ i <= n + 2 - k => k + i - 1 \in k..n + 1 /\ turned[i] = tied[k + i - 1]
               /\ i > n + 2 - k => i - (n + 2 - k) \in 1..k - 1 /\ turned[i] = tied[i - (n + 2 - k)]
    BY <2>0, <2>1, <2>8
  <2>10. ASSUME NEW i \in 1..n + 1, NEW j \in 1..n + 1, turned[i] = turned[j]
         PROVE  i = j
    <3>1. CASE i <= n + 2 - k /\ j <= n + 2 - k
      <4>1. k + i - 1 = k + j - 1
        BY <2>0, <2>1, <2>6, <2>9, <2>10, <3>1
      <4>2. QED
        BY <2>0, <2>1, <4>1
    <3>2. CASE i > n + 2 - k /\ j > n + 2 - k
      <4>1. i - (n + 2 - k) = j - (n + 2 - k)
        BY <2>0, <2>1, <2>6, <2>9, <2>10, <3>2
      <4>2. QED
        BY <2>0, <2>1, <4>1
    <3>3. CASE i <= n + 2 - k /\ j > n + 2 - k
      <4>1. k + i - 1 = j - (n + 2 - k)
        BY <2>0, <2>1, <2>6, <2>9, <2>10, <3>3
      <4>2. QED
        BY <2>0, <2>1, <2>9, <3>3, <4>1
    <3>4. CASE i > n + 2 - k /\ j <= n + 2 - k
      <4>1. k + j - 1 = i - (n + 2 - k)
        BY <2>0, <2>1, <2>6, <2>9, <2>10, <3>4
      <4>2. QED
        BY <2>0, <2>1, <2>9, <3>4, <4>1
    <3>5. QED
      BY <2>0, <2>1, <3>1, <3>2, <3>3, <3>4
  <2>11. ASSUME NEW x
         PROVE  x \in ToSet(turned) <=> x \in ToSet(tied)
    <3>1. ASSUME NEW i \in 1..n + 1 PROVE turned[i] \in ToSet(tied)
      <4>1. \E j \in 1..n + 1 : turned[i] = tied[j]
        BY <2>0, <2>1, <2>9
      <4>2. QED
        BY <2>2, <4>1, ToSetMember
    <3>2. ASSUME NEW i \in 1..n + 1 PROVE \E j \in 1..n + 1 : turned[j] = tied[i]
      <4>1. CASE i >= k
        <5>1. i - k + 1 \in 1..n + 1 /\ turned[i - k + 1] = tied[i]
          BY <2>0, <2>1, <2>8, <4>1
        <5>2. QED
          BY <5>1
      <4>2. CASE i < k
        <5>1. i + (n + 2 - k) \in 1..n + 1 /\ turned[i + (n + 2 - k)] = tied[i]
          BY <2>0, <2>1, <2>8, <4>2
        <5>2. QED
          BY <5>1
      <4>3. QED
        BY <2>0, <2>1, <4>1, <4>2
    <3>3. x \in ToSet(turned) <=> \E i \in 1..n + 1 : turned[i] = x
      BY <2>8, ToSetMember
    <3>4. x \in ToSet(tied) <=> \E i \in 1..n + 1 : tied[i] = x
      BY <2>2, ToSetMember
    <3>5. QED
      BY <3>1, <3>2, <3>3, <3>4
  <2>12. TieRing(r, p) = IF Urgency[r[1]] < Urgency[p] THEN turned ELSE tied
    BY <1>2 DEF TieRing, tied, turned, k
  <2>13. IsInjective(tied) /\ IsInjective(turned)
    BY <2>2, <2>6, <2>8, <2>10, InjectiveSeq
  <2>14. tied # <<>> /\ turned # <<>>
    BY <2>0, <2>2, <2>8, EmptySeq
  <2>15. ToSet(tied) = ToSet(r) \cup {p} /\ ToSet(turned) = ToSet(r) \cup {p}
    BY <2>7, <2>11
  <2>16. Head(tied) = r[1] /\ Head(turned) = p
    BY <2>0, <2>1, <2>2, <2>8, <2>14
  <2>17. QED
    BY <1>2, <2>2, <2>8, <2>12, <2>13, <2>14, <2>15, <2>16
<1>3. QED
  BY <1>1, <1>2

\* UnTie unlinks the current and nobody else.
LEMMA TailShape ==
  ASSUME NEW r \in Seq(Process), r # <<>>, IsInjective(r)
  PROVE  /\ Head(r) \in Process /\ Head(r) = r[1]
         /\ Tail(r) \in Seq(Process)
         /\ IsInjective(Tail(r))
         /\ ToSet(Tail(r)) = ToSet(r) \ {Head(r)}
         /\ Tail(r) = <<>> <=> Len(r) = 1
<1>1. /\ Head(r) \in Process /\ Head(r) = r[1]
      /\ Tail(r) \in Seq(Process)
      /\ Len(r) \in Nat \ {0}
      /\ Len(Tail(r)) = Len(r) - 1
      /\ \A i \in 1..Len(r) - 1 : Tail(r)[i] = r[i + 1]
  BY HeadTailProperties, EmptySeq
<1>2. \A i, j \in 1..Len(r) : r[i] = r[j] => i = j
  BY InjectiveSeq
<1>3. IsInjective(Tail(r))
  <2>1. \A i, j \in 1..Len(r) - 1 : Tail(r)[i] = Tail(r)[j] => i = j
    BY <1>1, <1>2
  <2>2. QED
    BY <1>1, <2>1, InjectiveSeq
<1>4. ASSUME NEW x
      PROVE  x \in ToSet(Tail(r)) <=> x \in ToSet(r) \ {Head(r)}
  <2>0. x \in ToSet(Tail(r)) <=> \E i \in 1..Len(Tail(r)) : Tail(r)[i] = x
    BY <1>1, ToSetMember
  <2>1. x \in ToSet(Tail(r)) <=> \E i \in 1..Len(r) - 1 : r[i + 1] = x
    BY <1>1, <2>0
  <2>2. x \in ToSet(r) <=> \E i \in 1..Len(r) : r[i] = x
    BY ToSetMember
  <2>3. ASSUME NEW i \in 1..Len(r) - 1 PROVE r[i + 1] \in ToSet(r) \ {Head(r)}
    <3>1. i + 1 \in 1..Len(r) /\ 1 \in 1..Len(r) /\ i + 1 # 1
      BY <1>1
    <3>2. QED
      BY <1>1, <1>2, <3>1, ToSetMember
  <2>4. ASSUME NEW i \in 1..Len(r), r[i] # Head(r)
        PROVE  \E j \in 1..Len(r) - 1 : r[j + 1] = r[i]
    <3>1. i - 1 \in 1..Len(r) - 1 /\ (i - 1) + 1 = i
      BY <1>1, <2>4
    <3>2. QED
      BY <3>1
  <2>5. QED
    BY <2>1, <2>2, <2>3, <2>4
<1>5. ToSet(Tail(r)) = ToSet(r) \ {Head(r)}
  BY <1>4
<1>6. Tail(r) = <<>> <=> Len(r) = 1
  <2>1. Tail(r) = <<>> <=> Len(Tail(r)) = 0
    BY <1>1, EmptySeq
  <2>2. QED
    BY <1>1, <2>1
<1>7. QED
  BY <1>1, <1>3, <1>5, <1>6

\* prs.current is linked.
LEMMA HeadMember ==
  ASSUME NEW r \in Seq(Process), r # <<>>
  PROVE  Head(r) \in Process /\ Head(r) \in ToSet(r)
<1>1. Len(r) \in Nat \ {0} /\ Head(r) = r[1]
  BY EmptySeq
<1>2. 1 \in 1..Len(r) /\ r[1] \in Process
  BY <1>1
<1>3. QED
  BY <1>1, <1>2, ToSetMember

-----------------------------------------------------------------------------
(* The invariant *)

Inv == TypeOK /\ SourcesCounted /\ SchedulerInv

\* What an operation hands to GoNext: a ring that agrees with the states, no
\* stopped process among them, and nobody back to where Create found it.
Linked(r, st) ==
  /\ r \in Seq(Process) /\ IsInjective(r)
  /\ ToSet(r) = {p \in Process : st[p] = "ready"}
NoRevival(st) ==
  \A p \in Process : /\ at[p] = "stopped" => st[p] # "ready"
                     /\ st[p] = "none" => state[p] = "none"
                     /\ st[p] = "freed" => state[p] = "freed"
Prepared(r, st) ==
  /\ st \in [Process -> {"none", "passive", "waiting", "ready", "freed"}]
  /\ Linked(r, st)
  /\ NoRevival(st)

\* GoNext preserves the invariant, whatever info the operation left.
LEMMA GoNextKeeps ==
  ASSUME TypeOK, SchedulerInv, Running,
         NEW k \in {"call", "switch", "stopped"},
         NEW r, NEW st, Prepared(r, st),
         NEW i \in [Process -> Process \cup {Nil}],
         NEW dead \in Process \cup {Nil},
         \/ k # "stopped" /\ dead = corpse
         \/ k = "stopped" /\ dead = running /\ st[running] # "ready" /\ r # <<>>,
         GoNext(k, r, st, body, i, dead),
         UNCHANGED <<events, hcnt>>
  PROVE  TypeOK' /\ SchedulerInv'
<1> DEFINE parked == [at EXCEPT ![running] = k]
           c == body[Head(r)]
<1>0. /\ r \in Seq(Process) /\ IsInjective(r)
      /\ st \in [Process -> {"none", "passive", "waiting", "ready", "freed"}]
      /\ ToSet(r) = {p \in Process : st[p] = "ready"}
      /\ \A p \in Process : /\ at[p] = "stopped" => st[p] # "ready"
                            /\ st[p] = "none" => state[p] = "none"
                            /\ st[p] = "freed" => state[p] = "freed"
  BY DEF Prepared, Linked, NoRevival
<1>1. /\ running \in Process /\ at[running] = "live" /\ outcome = "running"
      /\ state[running] = "ready" /\ running # corpse
      /\ at \in [Process -> {"fresh", "live", "call", "switch", "stopped"}]
  <2>1. running = Head(ring) /\ ring # <<>> /\ ring \in Seq(Process)
    BY DEF TypeOK, SchedulerInv, Running, Me
  <2>2. state[running] = "ready" /\ running \in Process
    BY <2>1, HeadMember DEF SchedulerInv, ReadyRing, Ready
  <2>3. QED
    BY <2>2 DEF TypeOK, SchedulerInv, Running
<1>2. /\ ring' = r /\ body' = body /\ info' = i /\ events' = events /\ hcnt' = hcnt
  BY DEF GoNext
<1>3. CASE r = <<>>
  <2>1. /\ outcome' = "spinning" /\ at' = parked /\ state' = st /\ corpse' = dead
        /\ running' = running
    BY <1>3 DEF GoNext
  <2>2. k # "stopped" /\ dead = corpse
    BY <1>3
  <2>3. TypeOK'
    BY <1>0, <1>1, <1>2, <2>1, <2>2 DEF TypeOK
  <2>4. SchedulerInv'
    BY <1>0, <1>1, <1>2, <2>1, <2>2 DEF SchedulerInv, ReadyRing, Ready, Running, TypeOK
  <2>5. QED
    BY <2>3, <2>4
<1>4. CASE r # <<>>
  <2>1. c = Head(r) /\ c \in Process /\ st[c] = "ready"
    BY <1>0, <1>4, HeadMember DEF SchedulerInv
  <2> HIDE DEF c
  <2>2. parked[c] # "stopped"
    BY <1>0, <1>1, <2>1
  <2>3. /\ running' = c /\ outcome' = "running" /\ at' = [parked EXCEPT ![c] = "live"]
        /\ \/ state' = st /\ corpse' = dead
           \/ dead # Nil /\ state' = [st EXCEPT ![dead] = "freed"] /\ corpse' = Nil
    BY <1>1, <1>4, <2>2 DEF GoNext, c
  <2>4. dead # Nil => dead \in Process /\ parked[dead] = "stopped" /\ st[dead] # "ready"
    BY <1>0, <1>1 DEF SchedulerInv
  <2>5. \A p \in Process :
          /\ at'[p] = "stopped" <=> parked[p] = "stopped"
          /\ at'[c] = "live"
          /\ at[p] = "stopped" => parked[p] = "stopped"
          /\ parked[p] = "stopped" => st[p] # "ready"
    BY <1>0, <1>1, <2>1, <2>2, <2>3
  <2>6. \A p \in Process : state'[p] = "ready" <=> st[p] = "ready"
    BY <1>0, <2>3, <2>4
  <2>7. TypeOK'
    <3>1. at' \in [Process -> {"fresh", "live", "call", "switch", "stopped"}]
      BY <1>1, <2>1, <2>3
    <3>2. state' \in [Process -> {"none", "passive", "waiting", "ready", "freed"}]
      BY <1>0, <2>3, <2>4
    <3>3. corpse' \in Process \cup {Nil} /\ running' \in Process /\ outcome' = "running"
      BY <2>1, <2>3
    <3>4. /\ ring' \in Seq(Process)
          /\ body' \in [Process -> Process] /\ info' \in [Process -> Process \cup {Nil}]
          /\ events' \in [Sources -> Process \cup {Nil}]
          /\ hcnt' \in Nat
      BY <1>0, <1>2 DEF TypeOK
    <3>5. QED
      BY <3>1, <3>2, <3>3, <3>4 DEF TypeOK
  <2>8. ReadyRing'
    BY <1>0, <1>2, <2>6 DEF ReadyRing, Ready
  <2>9. ASSUME NEW p \in Process
        PROVE  /\ at'[p] = "stopped" => state'[p] # "ready"
               /\ state'[p] = "freed" \/ p = corpse' => at'[p] = "stopped"
               /\ state'[p] = "none" => at'[p] = "fresh"
    <3>1. at'[p] = "stopped" => state'[p] # "ready"
      BY <2>5, <2>6
    <3>2. p = corpse' => p = dead /\ dead # Nil
      BY <2>3, ProcessAssumption
    <3>3. state'[p] = "freed" => st[p] = "freed" \/ (p = dead /\ dead # Nil)
      BY <1>0, <2>3
    <3>4. st[p] = "freed" => at[p] = "stopped"
      BY <1>0 DEF SchedulerInv
    <3>5. p = dead /\ dead # Nil => at'[p] = "stopped"
      BY <2>4, <2>5
    <3>6. at[p] = "stopped" => at'[p] = "stopped"
      BY <2>5
    <3>7. state'[p] = "none" => at'[p] = "fresh"
      <4>1. state'[p] = "none" => st[p] = "none"
        BY <1>0, <2>3
      <4>2. st[p] = "none" => at[p] = "fresh" /\ p # running /\ p # c
        BY <1>0, <1>1, <2>1 DEF SchedulerInv
      <4>3. p # running /\ p # c => at'[p] = at[p]
        BY <1>1, <2>1, <2>3
      <4>4. QED
        BY <4>1, <4>2, <4>3
    <3>8. QED
      BY <3>1, <3>2, <3>3, <3>4, <3>5, <3>6, <3>7
  <2>10. SchedulerInv'
    BY <1>2, <1>4, <2>1, <2>3, <2>5, <2>8, <2>9 DEF SchedulerInv, Ready, Me
  <2>11. QED
    BY <2>7, <2>10
<1>5. QED
  BY <1>3, <1>4

\* What an operation may rely on when it is called: the caller is the current
\* process, so that saving the coroutine that executes in the descriptor of the
\* current, as Tie and UnTie do, changes nothing, and UnTie leaves a proper ring.
LEMMA CallerIsCurrent ==
  ASSUME TypeOK, SchedulerInv, Running
  PROVE  /\ ring \in Seq(Process) /\ ring # <<>> /\ IsInjective(ring)
         /\ Me = running /\ Me \in Process
         /\ state[Me] = "ready" /\ at[Me] = "live" /\ Me # corpse
         /\ UnTieBody = body
         /\ TieBody(ring, body) = body
         /\ Tail(ring) \in Seq(Process) /\ IsInjective(Tail(ring))
         /\ ToSet(Tail(ring)) = {p \in Process : Ready(p)} \ {Me}
         /\ Tail(ring) = <<>> <=> Len(ring) = 1
<1>1. /\ ring \in Seq(Process) /\ ring # <<>> /\ IsInjective(ring)
      /\ Me = running /\ at[running] = "live"
      /\ ToSet(ring) = {p \in Process : Ready(p)}
  BY DEF TypeOK, SchedulerInv, ReadyRing
<1>2. Me \in Process /\ Me \in ToSet(ring)
  BY <1>1, HeadMember DEF Me
<1>3. state[Me] = "ready" /\ Me # corpse
  BY <1>1, <1>2 DEF SchedulerInv, Ready
<1>4. UnTieBody = body /\ TieBody(ring, body) = body
  <2>1. body \in [Process -> Process] /\ body[Me] = running
    BY <1>1, <1>2 DEF TypeOK, SchedulerInv
  <2>2. [body EXCEPT ![Me] = running] = body
    BY <1>2, <2>1
  <2>3. QED
    BY <1>1, <2>2 DEF UnTieBody, TieBody, Me
<1>5. /\ Tail(ring) \in Seq(Process) /\ IsInjective(Tail(ring))
      /\ ToSet(Tail(ring)) = ToSet(ring) \ {Me}
      /\ Tail(ring) = <<>> <=> Len(ring) = 1
  BY <1>1, TailShape DEF Me
<1>6. QED
  BY <1>1, <1>2, <1>3, <1>4, <1>5

\* Tie, then GoNext: Activate of a passive or waiting process and Start of a new one.
LEMMA TieKeeps ==
  ASSUME TypeOK, SchedulerInv, Running, NEW p \in Process,
         ~Ready(p), at[p] # "stopped", TieAsserts(ring, p),
         GoNext("call", TieRing(ring, p), TieState(state, p), TieBody(ring, body),
                TieInfo(p), corpse),
         UNCHANGED <<events, hcnt>>
  PROVE  TypeOK' /\ SchedulerInv'
<1>1. Prepared(TieRing(ring, p), TieState(state, p))
  <2> DEFINE r == TieRing(ring, p)
             st == TieState(state, p)
  <2>1. /\ ring \in Seq(Process) /\ IsInjective(ring)
        /\ ToSet(ring) = {q \in Process : Ready(q)}
    BY DEF TypeOK, SchedulerInv, ReadyRing
  <2>2. /\ r \in Seq(Process) /\ IsInjective(r)
        /\ ToSet(r) = {q \in Process : Ready(q)} \cup {p}
    BY <2>1, TieRingShape
  <2>3. /\ st \in [Process -> {"none", "passive", "waiting", "ready", "freed"}]
        /\ \A q \in Process : st[q] = IF q = p THEN "ready" ELSE state[q]
    BY DEF TieState, TypeOK
  <2> HIDE DEF r, st
  <2>4. Linked(r, st)
    BY <2>2, <2>3 DEF Ready, Linked
  <2>5. NoRevival(st)
    BY <2>3 DEF SchedulerInv, Ready, NoRevival
  <2>6. Prepared(r, st)
    BY <2>2, <2>3, <2>4, <2>5 DEF Prepared
  <2>7. QED
    BY <2>6 DEF r, st
<1>2. TieInfo(p) \in [Process -> Process \cup {Nil}] /\ corpse \in Process \cup {Nil}
  BY DEF TieInfo, TypeOK
<1>3. GoNext("call", TieRing(ring, p), TieState(state, p), body, TieInfo(p), corpse)
  BY CallerIsCurrent
<1>4. QED
  BY <1>1, <1>2, <1>3, GoNextKeeps

\* UnTie, then GoNext: StopMe while others are ready, SuspendMe and Wait.
LEMMA UnTieKeeps ==
  ASSUME TypeOK, SchedulerInv, Running,
         NEW k \in {"call", "switch", "stopped"},
         NEW s \in {"passive", "waiting"},
         NEW dead \in Process \cup {Nil},
         \/ k # "stopped" /\ dead = corpse
         \/ k = "stopped" /\ dead = Me /\ Len(ring) # 1,
         GoNext(k, UnTieRing(ring), UnTieState(s), UnTieBody, info, dead),
         UNCHANGED <<events, hcnt>>
  PROVE  TypeOK' /\ SchedulerInv'
<1>1. /\ UnTieRing(ring) \in Seq(Process) /\ IsInjective(UnTieRing(ring))
      /\ ToSet(UnTieRing(ring)) = {q \in Process : Ready(q)} \ {Me}
      /\ Me = running /\ Me \in Process
      /\ UnTieRing(ring) = <<>> <=> Len(ring) = 1
  BY CallerIsCurrent DEF UnTieRing
<1>2. /\ UnTieState(s) \in [Process -> {"none", "passive", "waiting", "ready", "freed"}]
      /\ \A q \in Process : UnTieState(s)[q] = IF q = Me THEN s ELSE state[q]
  BY DEF UnTieState, TypeOK
<1>3. Prepared(UnTieRing(ring), UnTieState(s))
  <2> DEFINE r == UnTieRing(ring)
             st == UnTieState(s)
  <2>1. r \in Seq(Process) /\ IsInjective(r) /\ ToSet(r) = {q \in Process : Ready(q)} \ {Me}
    BY <1>1
  <2>2. /\ st \in [Process -> {"none", "passive", "waiting", "ready", "freed"}]
        /\ \A q \in Process : st[q] = IF q = Me THEN s ELSE state[q]
    BY <1>2
  <2> HIDE DEF r, st
  <2>3. Linked(r, st)
    BY <1>1, <2>1, <2>2 DEF Ready, Linked
  <2>4. NoRevival(st)
    BY <2>2 DEF SchedulerInv, Ready, NoRevival
  <2>5. Prepared(r, st)
    BY <2>1, <2>2, <2>3, <2>4 DEF Prepared
  <2>6. QED
    BY <2>5 DEF r, st
<1>4. \/ k # "stopped" /\ dead = corpse
      \/ k = "stopped" /\ dead = running /\ UnTieState(s)[running] # "ready" /\ UnTieRing(ring) # <<>>
  BY <1>1, <1>2
<1>5. GoNext(k, UnTieRing(ring), UnTieState(s), body, info, dead)
  BY CallerIsCurrent
<1>6. info \in [Process -> Process \cup {Nil}]
  BY DEF TypeOK
<1>7. QED
  BY <1>3, <1>4, <1>5, <1>6, GoNextKeeps

\* UnTie, Tie, then GoNext, when the caller was the only ready process:
\* SuspendMeAndActivate and Switch.
LEMMA HandOffKeeps ==
  ASSUME TypeOK, SchedulerInv, Running, Len(ring) = 1,
         NEW k \in {"call", "switch"},
         NEW p \in Process, Activatable(p) \/ p = Me,
         NEW i \in [Process -> Process \cup {Nil}],
         GoNext(k, TieRing(UnTieRing(ring), p), TieState(UnTieState("passive"), p),
                TieBody(UnTieRing(ring), UnTieBody), i, corpse),
         UNCHANGED <<events, hcnt>>
  PROVE  TypeOK' /\ SchedulerInv'
<1>1. /\ UnTieRing(ring) = <<>> /\ UnTieBody = body /\ Me \in Process
      /\ {q \in Process : Ready(q)} \ {Me} = {}
      /\ at[Me] = "live"
  <2>1. /\ Tail(ring) = <<>> /\ UnTieBody = body /\ Me \in Process
        /\ ToSet(Tail(ring)) = {q \in Process : Ready(q)} \ {Me}
        /\ at[Me] = "live"
    BY CallerIsCurrent
  <2>2. ToSet(<<>>) = {}
    BY DEF ToSet
  <2>3. QED
    BY <2>1, <2>2 DEF UnTieRing
<1>2. Prepared(TieRing(<<>>, p), TieState(UnTieState("passive"), p))
  <2> DEFINE r == TieRing(<<>>, p)
             st == TieState(UnTieState("passive"), p)
  <2>1. r \in Seq(Process) /\ r # <<>> /\ IsInjective(r) /\ ToSet(r) = {p}
    <3>1. /\ <<>> \in Seq(Process) /\ IsInjective(<<>>) /\ ToSet(<<>>) = {}
          /\ TieAsserts(<<>>, p)
      BY DEF IsInjective, ToSet, TieAsserts
    <3> HIDE DEF r
    <3>2. r \in Seq(Process) /\ r # <<>> /\ IsInjective(r) /\ ToSet(r) = {} \cup {p}
      BY <3>1, TieRingShape DEF r
    <3>3. QED
      BY <3>2
  <2>2. /\ st \in [Process -> {"none", "passive", "waiting", "ready", "freed"}]
        /\ \A q \in Process : st[q] = IF q = p THEN "ready"
                                      ELSE IF q = Me THEN "passive" ELSE state[q]
    BY <1>1 DEF UnTieState, TieState, TypeOK
  <2> HIDE DEF r, st
  <2>3. Linked(r, st)
    BY <1>1, <2>1, <2>2 DEF Ready, Linked
  <2>4. at[p] # "stopped"
    BY <1>1 DEF Activatable
  <2>5. NoRevival(st)
    BY <2>2, <2>4 DEF SchedulerInv, Ready, NoRevival
  <2>6. Prepared(r, st)
    BY <2>1, <2>2, <2>3, <2>5 DEF Prepared
  <2>7. QED
    BY <2>6 DEF r, st
<1>3. GoNext(k, TieRing(<<>>, p), TieState(UnTieState("passive"), p), body, i, corpse)
  BY <1>1 DEF TieBody
<1>4. corpse \in Process \cup {Nil}
  BY DEF TypeOK
<1>5. QED
  BY <1>2, <1>3, <1>4, GoNextKeeps

\* hcnt counts the attached sources again after Attach and Detach.
LEMMA SourcesKeeps ==
  ASSUME TypeOK, SourcesCounted, NEW e \in Sources, Running, Attach(e) \/ Detach(e), SchedulerInv
  PROVE  TypeOK' /\ SourcesCounted'
<1> DEFINE S == {x \in Sources : events[x] # Nil}
           T == {x \in Sources : events'[x] # Nil}
<1>1. /\ IsFiniteSet(S) /\ hcnt = Cardinality(S) /\ Cardinality(S) \in Nat
  <2>1. IsFiniteSet(S)
    BY ProcessAssumption, FS_Subset
  <2>2. QED
    BY <2>1, FS_CardinalityType DEF SourcesCounted
<1>2. /\ Me \in Process /\ Me # Nil /\ events \in [Sources -> Process \cup {Nil}]
  BY CallerIsCurrent, ProcessAssumption DEF TypeOK
<1>3. /\ UNCHANGED <<ring, running, state, body, info, at, corpse, outcome>>
  BY DEF Attach, Detach
<1>4. CASE Attach(e)
  <2>1. T = S \cup {e}
    BY <1>2, <1>4 DEF Attach
  <2>2. hcnt' = IF e \in S THEN hcnt ELSE hcnt + 1
    BY <1>2, <1>4 DEF Attach
  <2>3. events' \in [Sources -> Process \cup {Nil}]
    BY <1>2, <1>4 DEF Attach
  <2> HIDE DEF S, T
  <2>4. Cardinality(S \cup {e}) = IF e \in S THEN Cardinality(S) ELSE Cardinality(S) + 1
    BY <1>1, FS_AddElement
  <2>5. hcnt' = Cardinality(T) /\ hcnt' \in Nat
    BY <1>1, <2>1, <2>2, <2>4
  <2>6. QED
    BY <1>3, <2>3, <2>5 DEF T, TypeOK, SourcesCounted
<1>5. CASE Detach(e)
  <2>1. T = S \ {e}
    BY <1>2, <1>5 DEF Detach
  <2>2. hcnt' = IF e \in S THEN hcnt - 1 ELSE hcnt
    BY <1>2, <1>5 DEF Detach
  <2>3. events' \in [Sources -> Process \cup {Nil}]
    BY <1>2, <1>5 DEF Detach
  <2> HIDE DEF S, T
  <2>4. /\ IsFiniteSet(S \ {e})
        /\ Cardinality(S \ {e}) = IF e \in S THEN Cardinality(S) - 1 ELSE Cardinality(S)
    BY <1>1, FS_RemoveElement
  <2>5. Cardinality(S \ {e}) \in Nat
    BY <2>4, FS_CardinalityType
  <2>6. hcnt' = Cardinality(T) /\ hcnt' \in Nat
    BY <1>1, <2>1, <2>2, <2>4, <2>5
  <2>7. QED
    BY <1>3, <2>3, <2>6 DEF T, TypeOK, SourcesCounted
<1>6. QED
  BY <1>4, <1>5

\* A step that only ends the program, by a failed assertion or by stopping the
\* last ready process, keeps the invariant.
LEMMA FailureKeeps ==
  ASSUME TypeOK, SchedulerInv, outcome' \in {"assert", "halted"},
         UNCHANGED <<ring, running, state, body, info, at, corpse, events, hcnt>>
  PROVE  TypeOK' /\ SchedulerInv'
<1>1. TypeOK'
  BY DEF TypeOK
<1>2. SchedulerInv'
  BY DEF SchedulerInv, ReadyRing, Ready, Running, Me
<1>3. QED
  BY <1>1, <1>2

\* The module body of Processes.mod (538-559) establishes the invariant.
LEMMA InitInv == Init => Inv
<1> SUFFICES ASSUME Init PROVE Inv
  OBVIOUS
<1>1. /\ <<Main>> \in Seq(Process) /\ <<Main>> # <<>> /\ Len(<<Main>>) = 1
      /\ <<Main>>[1] = Main /\ DOMAIN <<Main>> = 1..1 /\ Head(<<Main>>) = Main
  BY ProcessAssumption
<1>2. TypeOK
  BY <1>1, ProcessAssumption DEF Init, TypeOK
<1>3. SourcesCounted
  <2>1. {e \in Sources : events[e] # Nil} = {}
    BY DEF Init
  <2>2. QED
    BY <2>1, FS_EmptySet DEF Init, SourcesCounted
<1>4. ReadyRing
  <2>1. IsInjective(<<Main>>)
    BY <1>1 DEF IsInjective
  <2>2. ToSet(<<Main>>) = {Main}
    BY <1>1 DEF ToSet
  <2>3. {p \in Process : Ready(p)} = {Main}
    BY ProcessAssumption DEF Init, Ready
  <2>4. QED
    BY <2>1, <2>2, <2>3 DEF Init, ReadyRing
<1>5. SchedulerInv
  BY <1>1, <1>4, ProcessAssumption DEF Init, SchedulerInv, Ready, Me
<1>6. QED
  BY <1>2, <1>3, <1>5 DEF Inv

\* Every operation preserves the invariant.
LEMMA NextInv ==
  ASSUME FreeHandOff = FALSE, Inv, [Next]_vars
  PROVE  Inv'
<1> USE DEF Inv
<1>1. CASE UNCHANGED vars
  <2>1. TypeOK'
    BY <1>1 DEF TypeOK, vars
  <2>2. SourcesCounted'
    BY <1>1 DEF SourcesCounted, vars
  <2>3. SchedulerInv'
    BY <1>1 DEF SchedulerInv, ReadyRing, Ready, Running, Me, vars
  <2>4. QED
    BY <2>1, <2>2, <2>3
<1>2. ASSUME UNCHANGED <<events, hcnt>>
      PROVE  SourcesCounted'
  BY <1>2 DEF SourcesCounted
<1>3. ASSUME NEW p \in Process, Create(p) PROVE Inv'
  <2>1. TypeOK'
    BY <1>3 DEF Create, TypeOK
  <2>2. \A q \in Process : state'[q] = IF q = p THEN "passive" ELSE state[q]
    BY <1>3 DEF Create, TypeOK
  <2>3. state[p] = "none" /\ UNCHANGED <<ring, running, body, at, corpse, events, hcnt, outcome>>
    BY <1>3 DEF Create
  <2>4. SchedulerInv'
    BY <2>2, <2>3 DEF SchedulerInv, ReadyRing, Ready, Running, Me
  <2>5. QED
    BY <1>2, <2>1, <2>3, <2>4
<1>4. ASSUME NEW p \in Process, Activate(p) \/ Start(p) PROVE Inv'
  <2>1. Running /\ UNCHANGED <<events, hcnt>> /\ ~Ready(p)
    BY <1>4 DEF Activate, Start, Activatable, Ready
  <2>2. at[p] # "stopped"
    BY <1>4 DEF Activate, Start, Activatable, SchedulerInv
  <2>3. CASE TieAsserts(ring, p)
    <3>1. GoNext("call", TieRing(ring, p), TieState(state, p), TieBody(ring, body),
                 TieInfo(p), corpse)
      BY <1>4, <2>3 DEF Activate, Start, Checked
    <3>2. QED
      BY <1>2, <2>1, <2>2, <2>3, <3>1, TieKeeps
  <2>4. CASE ~TieAsserts(ring, p)
    <3>1. outcome' = "assert" /\ UNCHANGED <<ring, running, state, body, info, at, corpse>>
      BY <1>4, <2>4 DEF Activate, Start, Checked
    <3>2. QED
      BY <1>2, <2>1, <3>1, FailureKeeps
  <2>5. QED
    BY <2>3, <2>4
<1>5. CASE StopMe
  <2>1. Running /\ UNCHANGED <<events, hcnt>>
    BY <1>5 DEF StopMe
  <2>2. CASE Len(ring) = 1
    <3>1. outcome' = "halted" /\ UNCHANGED <<ring, running, state, body, info, at, corpse>>
      BY <1>5, <2>2 DEF StopMe
    <3>2. QED
      BY <1>2, <2>1, <3>1, FailureKeeps
  <2>3. CASE Len(ring) # 1
    <3>1. GoNext("stopped", UnTieRing(ring), UnTieState("passive"), UnTieBody, info, Me)
      BY <1>5, <2>3 DEF StopMe
    <3>2. Me \in Process
      BY <2>1, CallerIsCurrent
    <3>3. QED
      BY <1>2, <2>1, <2>3, <3>1, <3>2, UnTieKeeps
  <2>4. QED
    BY <2>2, <2>3
<1>6. CASE SuspendMe
  <2>1. Running /\ UNCHANGED <<events, hcnt>>
    BY <1>6 DEF SuspendMe
  <2>2. CASE Len(ring) = 1 /\ hcnt = 0
    <3>1. /\ info' = TieInfo(Me) /\ body' = body
          /\ UNCHANGED <<ring, running, state, at, corpse, outcome>>
      BY <1>6, <2>1, <2>2, CallerIsCurrent DEF SuspendMe
    <3>2. TypeOK'
      BY <2>1, <3>1 DEF TypeOK, TieInfo
    <3>3. SchedulerInv'
      BY <3>1 DEF SchedulerInv, ReadyRing, Ready, Running, Me
    <3>4. QED
      BY <1>2, <2>1, <3>2, <3>3
  <2>3. CASE ~(Len(ring) = 1 /\ hcnt = 0)
    <3>1. GoNext("call", UnTieRing(ring), UnTieState("passive"), UnTieBody, info, corpse)
      BY <1>6, <2>3 DEF SuspendMe
    <3>2. corpse \in Process \cup {Nil}
      BY DEF TypeOK
    <3>3. QED
      BY <1>2, <2>1, <3>1, <3>2, UnTieKeeps
  <2>4. QED
    BY <2>2, <2>3
<1>7. CASE Wait
  <2>1. /\ Running /\ UNCHANGED <<events, hcnt>>
        /\ GoNext("call", UnTieRing(ring), UnTieState("waiting"), UnTieBody, info, corpse)
    BY <1>7 DEF Wait
  <2>2. corpse \in Process \cup {Nil}
    BY DEF TypeOK
  <2>3. QED
    BY <1>2, <2>1, <2>2, UnTieKeeps
<1>8. ASSUME NEW p \in Process, SuspendMeAndActivate(p) PROVE Inv'
  <2>1. /\ Running /\ UNCHANGED <<events, hcnt>> /\ Len(ring) = 1
        /\ Activatable(p) \/ p = Me
    BY <1>8 DEF SuspendMeAndActivate
  <2>2. UnTieRing(ring) = <<>>
    BY <2>1, CallerIsCurrent DEF UnTieRing
  <2>3. TieAsserts(UnTieRing(ring), p)
    BY <2>2 DEF TieAsserts
  <2>4. GoNext("call", TieRing(UnTieRing(ring), p), TieState(UnTieState("passive"), p),
               TieBody(UnTieRing(ring), UnTieBody), TieInfo(p), corpse)
    BY <1>8, <2>3 DEF SuspendMeAndActivate, Checked
  <2>5. TieInfo(p) \in [Process -> Process \cup {Nil}]
    BY DEF TieInfo, TypeOK
  <2>6. QED
    BY <1>2, <2>1, <2>4, <2>5, HandOffKeeps
<1>9. ASSUME NEW p \in Process, Switch(p) PROVE Inv'
  <2>1. /\ Running /\ UNCHANGED <<events, hcnt>> /\ Len(ring) = 1
        /\ Activatable(p) /\ Urgency[Me] <= Urgency[p]
    BY <1>9 DEF Switch
  <2>2. UnTieRing(ring) = <<>>
    BY <2>1, CallerIsCurrent DEF UnTieRing
  <2>3. TieAsserts(UnTieRing(ring), p)
    BY <2>2 DEF TieAsserts
  <2>4. GoNext("switch", TieRing(UnTieRing(ring), p), TieState(UnTieState("passive"), p),
               TieBody(UnTieRing(ring), UnTieBody), [info EXCEPT ![p] = running], corpse)
    BY <1>9, <2>1, <2>3 DEF Switch, Checked
  <2>5. [info EXCEPT ![p] = running] \in [Process -> Process \cup {Nil}]
    BY DEF TypeOK
  <2>6. QED
    BY <1>2, <2>1, <2>4, <2>5, HandOffKeeps
<1>10. ASSUME NEW e \in Sources, Attach(e) \/ Detach(e) PROVE Inv'
  <2>1. Running /\ UNCHANGED <<ring, running, state, body, info, at, corpse, outcome>>
    BY <1>10 DEF Attach, Detach
  <2>2. SchedulerInv'
    BY <2>1 DEF SchedulerInv, ReadyRing, Ready, Running, Me
  <2>3. QED
    BY <1>10, <2>1, <2>2, SourcesKeeps
<1>11. QED
  BY <1>1, <1>3, <1>4, <1>5, <1>6, <1>7, <1>8, <1>9, <1>10 DEF Next

\* Without handing off while others are ready, the scheduler keeps the ring, the
\* states, the coroutines and the count of sources consistent, for ever.
THEOREM Consistent ==
  ASSUME FreeHandOff = FALSE
  PROVE  Spec => []Inv
<1>1. Inv /\ [Next]_vars => Inv'
  BY NextInv
<1>2. QED
  BY InitInv, <1>1, PTL DEF Spec

\* Type correctness.
THEOREM TypeCorrect ==
  ASSUME FreeHandOff = FALSE
  PROVE  Spec => []TypeOK
<1>1. Inv => TypeOK
  BY DEF Inv
<1>2. QED
  BY Consistent, <1>1, PTL

\* hcnt is the number of attached sources.
THEOREM CountsSources ==
  ASSUME FreeHandOff = FALSE
  PROVE  Spec => []SourcesCounted
<1>1. Inv => SourcesCounted
  BY DEF Inv
<1>2. QED
  BY Consistent, <1>1, PTL

\* The ring links exactly the ready processes, each once.
THEOREM RingIsReady ==
  ASSUME FreeHandOff = FALSE
  PROVE  Spec => []ReadyRing
<1>1. Inv => ReadyRing
  BY DEF Inv, SchedulerInv
<1>2. QED
  BY Consistent, <1>1, PTL

\* Every process executes, and is resumed, under its own identity.
THEOREM OwnIdentity ==
  ASSUME FreeHandOff = FALSE
  PROVE  Spec => []RunsAsMe
<1>1. Inv => RunsAsMe
  BY DEF Inv, SchedulerInv, RunsAsMe, MeIsCaller
<1>2. QED
  BY Consistent, <1>1, PTL

\* GoNext disposes of a workspace only when nothing can resume it any more.
THEOREM DisposesTheDead ==
  ASSUME FreeHandOff = FALSE
  PROVE  Spec => []NothingRunsFreed
<1>1. Inv => NothingRunsFreed
  BY DEF Inv, SchedulerInv, NothingRunsFreed
<1>2. QED
  BY Consistent, <1>1, PTL
-----------------------------------------------------------------------------
(***************************************************************************)
(* Urgencies: with at most one process above the others the ring has its   *)
(* most urgent process in front, and only then do Tie's assertions hold.   *)
(***************************************************************************)

Ordered(r) == r # <<>> => \A x \in ToSet(r) : Urgency[x] <= Urgency[Head(r)]
UrgencyInv == Ordered(ring) /\ outcome # "assert"

\* Whoever UnTie leaves in front is as urgent as the rest.
LEMMA OrderedTail ==
  ASSUME AtMostOneAbove, NEW r \in Seq(Process), r # <<>>, IsInjective(r), Ordered(r)
  PROVE  Ordered(Tail(r))
<1>1. /\ Head(r) \in Process /\ Tail(r) \in Seq(Process)
      /\ ToSet(Tail(r)) = ToSet(r) \ {Head(r)}
  BY TailShape
<1>2. PICK top \in Process :
        \A p, q \in Process \ {top} : Urgency[p] = Urgency[q] /\ Urgency[p] <= Urgency[top]
  BY DEF AtMostOneAbove
<1>3. ASSUME Tail(r) # <<>>, NEW x \in ToSet(Tail(r))
      PROVE  Urgency[x] <= Urgency[Head(Tail(r))]
  <2> DEFINE h == Head(r)
             y == Head(Tail(r))
  <2>1. y \in ToSet(Tail(r))
    BY <1>1, <1>3, HeadMember
  <2>2. \A z \in ToSet(Tail(r)) : z \in Process /\ z # h /\ Urgency[z] <= Urgency[h]
    <3>1. ASSUME NEW z \in ToSet(r) PROVE z \in Process
      BY ToSetMember
    <3>2. QED
      BY <1>1, <3>1 DEF Ordered
  <2>3. \A z \in Process : Urgency[z] \in Int
    BY ProcessAssumption
  <2> HIDE DEF h, y
  <2>4. h \in Process /\ x \in Process /\ y \in Process /\ x # h /\ y # h
    BY <1>1, <1>3, <2>1, <2>2 DEF h
  <2>5. Urgency[x] <= Urgency[h] /\ Urgency[y] <= Urgency[h]
    BY <1>3, <2>1, <2>2
  <2>6. CASE x # top /\ y # top
    <3>1. Urgency[x] = Urgency[y]
      BY <1>2, <2>4, <2>6
    <3>2. Urgency[x] <= Urgency[y]
      BY <2>3, <2>4, <3>1
    <3>3. QED
      BY <3>2 DEF y
  <2>7. CASE x = top \/ y = top
    <3>1. h # top
      BY <2>4, <2>7
    <3>2. \A q \in Process \ {top} : Urgency[h] = Urgency[q] /\ Urgency[h] <= Urgency[top]
      BY <1>2, <2>4, <3>1
    <3>3. (x = top \/ Urgency[x] = Urgency[h]) /\ (y = top \/ Urgency[y] = Urgency[h])
      BY <2>4, <3>2
    <3>4. Urgency[h] <= Urgency[top] /\ Urgency[top] <= Urgency[h]
      BY <2>4, <2>5, <2>7, <3>1, <3>2
    <3>5. Urgency[x] = Urgency[h] /\ Urgency[y] = Urgency[h]
      BY <2>3, <2>4, <2>5, <3>3, <3>4
    <3>6. QED
      BY <2>3, <2>4, <3>5 DEF y
  <2>8. QED
    BY <2>6, <2>7
<1>4. QED
  BY <1>3 DEF Ordered

\* Tie's first loop ends right behind the current, and its assertions hold.
LEMMA AssertsHold ==
  ASSUME AtMostOneAbove, NEW r \in Seq(Process), IsInjective(r), Ordered(r),
         NEW p \in Process, p \notin ToSet(r)
  PROVE  TieAsserts(r, p)
<1> SUFFICES ASSUME r # <<>>, Urgency[p] # UrgencyAt(r, 1)
             PROVE  LET m == MinIndex(r)
                    IN  /\ UrgencyAt(r, m - 1) >= UrgencyAt(r, m)
                        /\ UrgencyAt(r, m - 1) = UrgencyAt(r, 1)
  BY DEF TieAsserts
<1> DEFINE n == Len(r)
           u(j) == UrgencyAt(r, j)
<1>1. n \in Nat \ {0} /\ Head(r) = r[1] /\ Head(r) \in Process
  BY EmptySeq, HeadMember
<1>2. \A j \in 1..n : /\ r[j] \in Process /\ u(j) = Urgency[r[j]] /\ u(j) \in Int
                      /\ u(j) <= u(1) /\ r[j] # p
  <2>1. ASSUME NEW j \in 1..n PROVE r[j] \in Process /\ r[j] \in ToSet(r)
    BY ToSetMember
  <2>2. \A j \in 1..n : u(j) = Urgency[r[j]]
    BY <1>1 DEF UrgencyAt
  <2>3. 1 \in 1..n
    BY <1>1
  <2>4. QED
    BY <1>1, <2>1, <2>2, <2>3, ProcessAssumption DEF Ordered
<1>3. u(n + 1) = u(1) /\ u(1) \in Int /\ 1 \in 1..n
  BY <1>1, <1>2 DEF UrgencyAt
<1>4. \A i, j \in 1..n : r[i] = r[j] => i = j
  BY InjectiveSeq
<1>5. PICK top \in Process :
        \A x, y \in Process \ {top} : Urgency[x] = Urgency[y] /\ Urgency[x] <= Urgency[top]
  BY DEF AtMostOneAbove
<1>6. \A i, j \in 2..n : u(i) = u(j)
  <2>1. CASE r[1] = top
    <3>1. \A j \in 2..n : j \in 1..n /\ r[j] \in Process \ {top}
      BY <1>1, <1>2, <1>4, <2>1
    <3>2. QED
      BY <1>2, <1>5, <3>1
  <2>2. CASE r[1] # top
    <3>1. p = top
      BY <1>2, <1>3, <1>5, <2>2
    <3>2. \A j \in 1..n : r[j] \in Process \ {top}
      BY <1>2, <3>1
    <3>3. QED
      BY <1>1, <1>2, <1>5, <3>2
  <2>3. QED
    BY <2>1, <2>2
<1>7. MinIndex(r) = 2
  <2> DEFINE S == {m \in 2..n + 1 : \A j \in m..n : u(j) <= u(j + 1)}
  <2> HIDE DEF u
  <2>1. ASSUME NEW j \in 2..n PROVE u(j) <= u(j + 1)
    <3>1. CASE j = n
      BY <1>1, <1>2, <1>3, <3>1
    <3>2. CASE j # n
      <4>1. j \in 1..n /\ j + 1 \in 1..n /\ j + 1 \in 2..n
        BY <1>1, <3>2
      <4>2. QED
        BY <1>2, <1>6, <4>1
    <3>3. QED
      BY <3>1, <3>2
  <2>2. 2 \in S /\ S \in SUBSET Nat
    BY <1>1, <2>1
  <2>3. Min(S) \in S /\ \A y \in S : Min(S) <= y
    BY <2>2, LeastExists
  <2>4. Min(S) \in 2..n + 1 /\ Min(S) <= 2
    BY <2>2, <2>3
  <2>5. MinIndex(r) = Min(S)
    BY DEF MinIndex, u
  <2>6. QED
    BY <1>1, <2>4, <2>5
<1>8. u(2) <= u(1) /\ u(2) \in Int
  <2>1. CASE n = 1
    BY <1>3, <2>1
  <2>2. CASE n # 1
    <3>1. \A k \in Nat \ {0} : k # 1 => 2 \in 1..k
      OBVIOUS
    <3>2. 2 \in 1..n
      BY <1>1, <2>2, <3>1
    <3>3. QED
      BY <1>2, <3>2
  <2>3. QED
    BY <2>1, <2>2
<1>9. QED
  BY <1>3, <1>7, <1>8

\* Tie puts p in front exactly when it is more urgent than everybody else.
LEMMA TiedOrdered ==
  ASSUME NEW r \in Seq(Process), IsInjective(r), Ordered(r),
         NEW p \in Process, p \notin ToSet(r), TieAsserts(r, p)
  PROVE  Ordered(TieRing(r, p))
<1>1. /\ ToSet(TieRing(r, p)) = ToSet(r) \cup {p}
      /\ Head(TieRing(r, p)) = IF r = <<>> \/ Urgency[r[1]] < Urgency[p] THEN p ELSE r[1]
  BY TieRingShape
<1>2. \A x \in ToSet(r) : x \in Process
  BY ToSetMember
<1>3. \A x \in Process : Urgency[x] \in Int
  BY ProcessAssumption
<1>4. CASE r = <<>>
  <2>1. ToSet(r) = {}
    BY <1>4 DEF ToSet
  <2>2. QED
    BY <1>1, <1>3, <1>4, <2>1 DEF Ordered
<1>5. CASE r # <<>>
  <2>1. Head(r) = r[1] /\ r[1] \in Process /\ \A x \in ToSet(r) : Urgency[x] <= Urgency[r[1]]
    BY <1>5, HeadMember DEF Ordered
  <2>2. QED
    BY <1>1, <1>2, <1>3, <1>5, <2>1 DEF Ordered
<1>6. QED
  BY <1>4, <1>5

\* A step of GoNext keeps the order of the ring it was given and fails no assertion.
LEMMA GoNextUrgent ==
  ASSUME UrgencyInv, SchedulerInv', NEW k, NEW r, NEW st, NEW b, NEW i, NEW dead,
         Ordered(r), GoNext(k, r, st, b, i, dead)
  PROVE  UrgencyInv'
<1>1. ring' = r /\ (outcome' = outcome \/ outcome' \in {"spinning", "crash"})
  BY DEF GoNext
<1>2. outcome' # "assert"
  BY <1>1 DEF UrgencyInv
<1>3. QED
  BY <1>1, <1>2 DEF UrgencyInv, Ordered

\* Every operation keeps the most urgent ready process in front.
LEMMA NextUrgent ==
  ASSUME FreeHandOff = FALSE, AtMostOneAbove, Inv, UrgencyInv, [Next]_vars
  PROVE  UrgencyInv'
<1>1. ASSUME UNCHANGED ring, outcome' # "assert" PROVE UrgencyInv'
  BY <1>1 DEF UrgencyInv, Ordered
<1>2. CASE UNCHANGED vars
  BY <1>1, <1>2 DEF vars, UrgencyInv
<1>3. ASSUME NEW p \in Process, Create(p) PROVE UrgencyInv'
  BY <1>1, <1>3 DEF Create, UrgencyInv
<1>4. /\ ring \in Seq(Process) /\ IsInjective(ring) /\ Ordered(ring)
      /\ ToSet(ring) = {p \in Process : Ready(p)}
  BY DEF Inv, TypeOK, SchedulerInv, ReadyRing, UrgencyInv
<1>5. SchedulerInv'
  BY NextInv DEF Inv
<1>6. ASSUME NEW p \in Process, Activate(p) \/ Start(p) PROVE UrgencyInv'
  <2>1. p \notin ToSet(ring)
    BY <1>4, <1>6 DEF Activate, Start, Activatable, Ready
  <2>2. TieAsserts(ring, p)
    BY <1>4, <2>1, AssertsHold
  <2>3. GoNext("call", TieRing(ring, p), TieState(state, p), TieBody(ring, body),
               TieInfo(p), corpse)
    BY <1>6, <2>2 DEF Activate, Start, Checked
  <2>4. Ordered(TieRing(ring, p))
    BY <1>4, <2>1, <2>2, TiedOrdered
  <2>5. QED
    BY <1>5, <2>3, <2>4, GoNextUrgent
<1>7. Running => Ordered(UnTieRing(ring))
  BY <1>4, CallerIsCurrent, OrderedTail DEF UnTieRing, Inv
<1>8. CASE StopMe
  <2>1. CASE Len(ring) = 1
    BY <1>1, <1>8, <2>1 DEF StopMe
  <2>2. CASE Len(ring) # 1
    <3>1. Running /\ GoNext("stopped", UnTieRing(ring), UnTieState("passive"), UnTieBody, info, Me)
      BY <1>8, <2>2 DEF StopMe
    <3>2. QED
      BY <1>5, <1>7, <3>1, GoNextUrgent
  <2>3. QED
    BY <2>1, <2>2
<1>9. CASE SuspendMe
  <2>1. CASE Len(ring) = 1 /\ hcnt = 0
    BY <1>1, <1>9, <2>1 DEF SuspendMe, UrgencyInv
  <2>2. CASE ~(Len(ring) = 1 /\ hcnt = 0)
    <3>1. Running /\ GoNext("call", UnTieRing(ring), UnTieState("passive"), UnTieBody, info, corpse)
      BY <1>9, <2>2 DEF SuspendMe
    <3>2. QED
      BY <1>5, <1>7, <3>1, GoNextUrgent
  <2>3. QED
    BY <2>1, <2>2
<1>10. CASE Wait
  <2>1. Running /\ GoNext("call", UnTieRing(ring), UnTieState("waiting"), UnTieBody, info, corpse)
    BY <1>10 DEF Wait
  <2>2. QED
    BY <1>5, <1>7, <2>1, GoNextUrgent
<1>11. ASSUME NEW p \in Process, Running, Len(ring) = 1
       PROVE  /\ UnTieRing(ring) = <<>> /\ TieAsserts(UnTieRing(ring), p)
              /\ Ordered(TieRing(UnTieRing(ring), p))
  <2>1. UnTieRing(ring) = <<>>
    BY <1>11, CallerIsCurrent DEF UnTieRing, Inv
  <2>2. <<>> \in Seq(Process) /\ IsInjective(<<>>) /\ ToSet(<<>>) = {} /\ TieAsserts(<<>>, p)
        /\ Ordered(<<>>)
    BY DEF IsInjective, ToSet, TieAsserts, Ordered
  <2>3. Ordered(TieRing(<<>>, p))
    BY <2>2, TiedOrdered
  <2>4. QED
    BY <2>1, <2>2, <2>3
<1>12. ASSUME NEW p \in Process, SuspendMeAndActivate(p) PROVE UrgencyInv'
  <2>1. Running /\ Len(ring) = 1
    BY <1>12 DEF SuspendMeAndActivate
  <2>2. GoNext("call", TieRing(UnTieRing(ring), p), TieState(UnTieState("passive"), p),
               TieBody(UnTieRing(ring), UnTieBody), TieInfo(p), corpse)
    BY <1>11, <1>12, <2>1 DEF SuspendMeAndActivate, Checked
  <2>3. QED
    BY <1>5, <1>11, <2>1, <2>2, GoNextUrgent
<1>13. ASSUME NEW p \in Process, Switch(p) PROVE UrgencyInv'
  <2>1. Running /\ Len(ring) = 1 /\ Urgency[Me] <= Urgency[p]
    BY <1>13 DEF Switch
  <2>2. GoNext("switch", TieRing(UnTieRing(ring), p), TieState(UnTieState("passive"), p),
               TieBody(UnTieRing(ring), UnTieBody), [info EXCEPT ![p] = running], corpse)
    BY <1>11, <1>13, <2>1 DEF Switch, Checked
  <2>3. QED
    BY <1>5, <1>11, <2>1, <2>2, GoNextUrgent
<1>14. ASSUME NEW e \in Sources, Attach(e) \/ Detach(e) PROVE UrgencyInv'
  BY <1>1, <1>14 DEF Attach, Detach, UrgencyInv
<1>15. QED
  BY <1>2, <1>3, <1>6, <1>8, <1>9, <1>10, <1>12, <1>13, <1>14 DEF Next

\* The main program alone is in order.
LEMMA InitUrgent == Init => UrgencyInv
<1>1. /\ <<Main>> \in Seq(Process) /\ Head(<<Main>>) = Main /\ DOMAIN <<Main>> = 1..1
      /\ <<Main>>[1] = Main /\ Urgency[Main] \in Int
  BY ProcessAssumption
<1>2. ToSet(<<Main>>) = {Main}
  BY <1>1 DEF ToSet
<1>3. QED
  BY <1>1, <1>2 DEF Init, UrgencyInv, Ordered

\* With at most one process above the others, the ready process that executes is
\* never less urgent than another one, no assertion of Tie fails, and no stopped
\* coroutine is resumed.
THEOREM MostUrgentFirst ==
  ASSUME FreeHandOff = FALSE, AtMostOneAbove
  PROVE  Spec => []MostUrgentRuns /\ []NoFailure
<1>1. Init => UrgencyInv
  BY InitUrgent
<1>2. Inv /\ UrgencyInv /\ [Next]_vars => UrgencyInv'
  BY NextUrgent
<1>3. Inv /\ UrgencyInv => MostUrgentRuns
  BY DEF Inv, SchedulerInv, ReadyRing, UrgencyInv, Ordered, MostUrgentRuns, Me
<1>4. Inv /\ UrgencyInv => NoFailure
  BY DEF Inv, SchedulerInv, UrgencyInv, NoFailure
<1>5. QED
  BY Consistent, <1>1, <1>2, <1>3, <1>4, PTL DEF Spec

-----------------------------------------------------------------------------
(***************************************************************************)
(* Refinement: the scheduler does what Processes.def says.  The choice of  *)
(* the next process is where the order of the ring is needed.              *)
(***************************************************************************)

\* What the specification sees of a process, given his state, whether he has
\* stopped, and whether he executes.
StatusIn(s, stopped, executes) ==
  IF s = "none" THEN "absent"
  ELSE IF stopped THEN "terminated"
  ELSE IF executes THEN "current" ELSE s

\* What it sees before a call: the caller is the current process, the others that
\* are linked are ready.
LEMMA StatusNow ==
  ASSUME Inv, Running
  PROVE  /\ statusOf = [p \in Process |-> StatusIn(state[p], at[p] = "stopped", p = running)]
         /\ statusOf[running] = "current" /\ running \in Process
         /\ ISO!ReadySet = ToSet(Tail(ring))
         /\ \A p \in Process \ {running} : Activatable(p) => ISO!Suspended(p)
         /\ \A p \in Process : state[p] = "none" => statusOf[p] = "absent"
<1>1. /\ Me = running /\ running \in Process /\ state[running] = "ready" /\ at[running] = "live"
      /\ ToSet(Tail(ring)) = {p \in Process : Ready(p)} \ {running}
  BY CallerIsCurrent DEF Inv
<1>2. /\ \A p \in Process : at[p] = "stopped" => state[p] # "ready"
      /\ \A p \in Process : state[p] = "freed" => at[p] = "stopped"
      /\ state \in [Process -> {"none", "passive", "waiting", "ready", "freed"}]
  BY DEF Inv, SchedulerInv, TypeOK, Ready
<1>3. \A p \in Process : statusOf[p] = StatusIn(state[p], at[p] = "stopped", p = running)
  BY DEF statusOf, StatusIn, Running
<1>4. statusOf = [p \in Process |-> StatusIn(state[p], at[p] = "stopped", p = running)]
  BY DEF statusOf, StatusIn, Running
<1>5. statusOf[running] = "current"
  BY <1>1, <1>3 DEF StatusIn
<1>6. \A p \in Process : statusOf[p] = "ready" <=> (Ready(p) /\ p # running)
  BY <1>2, <1>3 DEF StatusIn, Ready
<1>7. ISO!ReadySet = ToSet(Tail(ring))
  BY <1>1, <1>6 DEF ISO!ReadySet
<1>8. \A p \in Process \ {running} : Activatable(p) => ISO!Suspended(p)
  BY <1>3 DEF StatusIn, ISO!Suspended, Activatable
<1>9. \A p \in Process : state[p] = "none" => statusOf[p] = "absent"
  BY <1>3 DEF StatusIn
<1>10. QED
  BY <1>1, <1>4, <1>5, <1>7, <1>8, <1>9

\* And after a transfer of control: the first of the ring executes.
StatusAfter(st, k, r) ==
  [p \in Process |-> StatusIn(st[p], at[p] = "stopped" \/ (p = running /\ k = "stopped"),
                             r # <<>> /\ p = Head(r))]

LEMMA StatusThen ==
  ASSUME Inv, Inv', Running, NEW k \in {"call", "switch", "stopped"}, NEW r, NEW st, NEW i,
         NEW dead, GoNext(k, r, st, body, i, dead),
         st \in [Process -> {"none", "passive", "waiting", "ready", "freed"}],
         r \in Seq(Process), \A p \in Process : p = corpse => st[p] # "none",
         dead = corpse \/ (dead = running /\ k = "stopped"), st[running] # "none"
  PROVE  statusOf' = StatusAfter(st, k, r)
<1>1. /\ Me = running /\ running \in Process /\ at[running] = "live"
      /\ at \in [Process -> {"fresh", "live", "call", "switch", "stopped"}]
      /\ \A p \in Process : body[p] = p
      /\ \A p \in Process : p = corpse => at[p] = "stopped"
  BY CallerIsCurrent DEF Inv, TypeOK, SchedulerInv
<1>2. ASSUME NEW p \in Process
      PROVE  statusOf'[p] = StatusIn(st[p], at[p] = "stopped" \/ (p = running /\ k = "stopped"),
                                     r # <<>> /\ p = Head(r))
  <2>1. statusOf'[p] = IF state'[p] = "none" THEN "absent"
                       ELSE IF at'[p] = "stopped" THEN "terminated"
                       ELSE IF p = running' /\ outcome' # "spinning" THEN "current"
                       ELSE state'[p]
    BY DEF statusOf
  <2>2. CASE r = <<>>
    <3>1. outcome' = "spinning" /\ at' = [at EXCEPT ![running] = k] /\ state' = st
      BY <2>2 DEF GoNext
    <3>2. at'[p] = IF p = running THEN k ELSE at[p]
      BY <1>1, <3>1
    <3>3. QED
      BY <1>1, <2>1, <2>2, <3>1, <3>2 DEF StatusIn
  <2>3. CASE r # <<>>
    <3>1. Head(r) \in Process
      BY <2>3, HeadMember
    <3>2. /\ running' = Head(r)
          /\ at' = [[at EXCEPT ![running] = k] EXCEPT ![Head(r)] = "live"]
          /\ outcome' = outcome \/ outcome' = "crash"
          /\ state' = st \/ state' = [st EXCEPT ![dead] = "freed"]
      BY <1>1, <2>3, <3>1 DEF GoNext
    <3>3. outcome' = "running"
      BY <3>2 DEF Inv, SchedulerInv, Running
    <3>4. at'[p] = IF p = Head(r) THEN "live" ELSE IF p = running THEN k ELSE at[p]
      BY <1>1, <3>1, <3>2
    <3>5. state'[p] = st[p] \/ (p = dead /\ state'[p] = "freed")
      BY <3>2
    <3>6. state'[Head(r)] = "ready"
      <4>1. ring' = r
        BY DEF GoNext
      <4>2. QED
        BY <2>3, <4>1, HeadMember DEF Inv, SchedulerInv, ReadyRing, Ready
    <3>7. state'[p] = "freed" => at'[p] = "stopped"
      BY DEF Inv, SchedulerInv
    <3>8. p = Head(r) => ~(at[p] = "stopped" \/ (p = running /\ k = "stopped"))
      <4>1. outcome' = IF [at EXCEPT ![running] = k][body[Head(r)]] = "stopped"
                       THEN "crash" ELSE outcome
        BY <2>3 DEF GoNext
      <4>2. [at EXCEPT ![running] = k][Head(r)] # "stopped"
        BY <1>1, <3>1, <3>3, <4>1
      <4>3. QED
        BY <1>1, <4>2
    <3>9. QED
      BY <1>1, <2>1, <2>3, <3>2, <3>3, <3>4, <3>5, <3>6, <3>7, <3>8 DEF StatusIn
  <2>4. QED
    BY <2>2, <2>3
<1>3. \E f : statusOf' = [p \in Process |-> f[p]]
  <2>1. statusOf' = [p \in Process |-> statusOf'[p]]
    BY DEF statusOf
  <2>2. QED
    BY <2>1
<1>4. QED
  BY <1>2, <1>3 DEF StatusAfter

\* UnTie and GoNext: the caller leaves the processor, to a most urgent ready process.
LEMMA LeaveRefines ==
  ASSUME Inv, Inv', Running, Ordered(UnTieRing(ring)),
         NEW s \in {"passive", "waiting"}, NEW k \in {"call", "stopped"}, NEW dead,
         dead = corpse \/ (dead = running /\ k = "stopped"),
         GoNext(k, UnTieRing(ring), UnTieState(s), UnTieBody, info, dead)
  PROVE  ISO!Leave(running, IF k = "stopped" THEN "terminated" ELSE s, ISO!ReadySet)
<1> DEFINE rest == UnTieRing(ring)
           end == IF k = "stopped" THEN "terminated" ELSE s
           left == [p \in Process |-> IF p = running THEN end
                                      ELSE IF p \in ISO!ReadySet THEN "ready" ELSE statusOf[p]]
<1>1. /\ Me = running /\ running \in Process /\ at[running] = "live" /\ Me # corpse
      /\ UnTieBody = body /\ rest \in Seq(Process) /\ rest = Tail(ring)
      /\ ToSet(rest) = {p \in Process : Ready(p)} \ {running}
  BY CallerIsCurrent DEF Inv, UnTieRing
<1>2. /\ UnTieState(s) \in [Process -> {"none", "passive", "waiting", "ready", "freed"}]
      /\ \A p \in Process : UnTieState(s)[p] = IF p = running THEN s ELSE state[p]
  BY <1>1 DEF UnTieState, Inv, TypeOK
<1>3. \A p \in Process : /\ at[p] = "stopped" => state[p] # "ready"
                         /\ p = corpse => state[p] # "none"
  BY DEF Inv, SchedulerInv, Ready
<1>4. statusOf' = StatusAfter(UnTieState(s), k, rest)
  <2>1. \A p \in Process : p = corpse => UnTieState(s)[p] # "none"
    BY <1>2, <1>3
  <2>2. UnTieState(s)[running] # "none"
    BY <1>1, <1>2
  <2>3. GoNext(k, rest, UnTieState(s), body, info, dead)
    BY <1>1
  <2>4. k \in {"call", "switch", "stopped"} /\ rest \in Seq(Process)
    BY <1>1
  <2> HIDE DEF rest
  <2> PICK st : st = UnTieState(s)
    OBVIOUS
  <2>5. /\ st \in [Process -> {"none", "passive", "waiting", "ready", "freed"}]
        /\ \A p \in Process : p = corpse => st[p] # "none"
        /\ st[running] # "none"
        /\ GoNext(k, rest, st, body, info, dead)
    BY <1>2, <2>1, <2>2, <2>3
  <2>6. statusOf' = StatusAfter(st, k, rest)
    BY <2>4, <2>5, StatusThen
  <2>7. QED
    BY <2>6
<1>5. /\ \A p \in Process : statusOf[p] = StatusIn(state[p], at[p] = "stopped", p = running)
      /\ ISO!ReadySet = ToSet(rest)
  BY <1>1, StatusNow
<1>6. rest # <<>> => Head(rest) \in ISO!ReadySet /\ Head(rest) \in Process
  BY <1>1, <1>5, HeadMember
<1> HIDE DEF rest
<1>7. ASSUME NEW p \in Process
      PROVE  statusOf'[p] = IF rest # <<>> /\ p = Head(rest) THEN "current" ELSE left[p]
  <2>1. statusOf'[p] = StatusIn(UnTieState(s)[p], at[p] = "stopped" \/ (p = running /\ k = "stopped"),
                                rest # <<>> /\ p = Head(rest))
    BY <1>4 DEF StatusAfter
  <2>2. CASE p = running
    <3>1. ~(rest # <<>> /\ p = Head(rest))
      BY <1>1, <1>5, <1>6, <2>2
    <3>2. QED
      BY <1>1, <1>2, <2>1, <2>2, <3>1 DEF StatusIn
  <2>3. CASE p # running /\ p \in ISO!ReadySet
    <3>1. state[p] = "ready" /\ at[p] # "stopped"
      BY <1>1, <1>3, <1>5, <2>3 DEF Ready
    <3>2. QED
      BY <1>2, <2>1, <2>3, <3>1 DEF StatusIn
  <2>4. CASE p # running /\ p \notin ISO!ReadySet
    <3>1. ~(rest # <<>> /\ p = Head(rest))
      BY <1>6, <2>4
    <3>2. QED
      BY <1>2, <1>5, <2>1, <2>4, <3>1 DEF StatusIn
  <2>5. QED
    BY <2>2, <2>3, <2>4
<1>8. \E f : statusOf' = [p \in Process |-> f[p]]
  <2>1. statusOf' = [p \in Process |-> statusOf'[p]]
    BY DEF statusOf
  <2>2. QED
    BY <2>1
<1>9. CASE rest = <<>>
  <2>1. ISO!ReadySet = {}
    BY <1>5, <1>9 DEF ToSet
  <2>2. statusOf' = left
    BY <1>7, <1>8, <1>9
  <2>3. QED
    BY <2>1, <2>2 DEF ISO!Leave
<1>10. CASE rest # <<>>
  <2>1. Head(rest) \in ISO!MostUrgentIn(ISO!ReadySet)
    <3>1. \A x \in ToSet(rest) : Urgency[x] <= Urgency[Head(rest)]
      BY <1>10 DEF Ordered, rest
    <3>2. QED
      BY <1>5, <1>6, <1>10, <3>1 DEF ISO!MostUrgentIn
  <2>2. statusOf' = [left EXCEPT ![Head(rest)] = "current"]
    BY <1>6, <1>7, <1>8, <1>10
  <2>3. ISO!ReadySet # {}
    BY <1>6, <1>10
  <2>4. QED
    BY <2>1, <2>2, <2>3 DEF ISO!Leave
<1>11. QED
  BY <1>9, <1>10

\* Tie and GoNext: a process becomes ready, and preempts a less urgent caller.
LEMMA TieRefines ==
  ASSUME Inv, Inv', UrgencyInv, UrgencyInv', AtMostOneAbove, Running, NEW p \in Process,
         ~Ready(p), at[p] # "stopped", TieAsserts(ring, p),
         GoNext("call", TieRing(ring, p), TieState(state, p), TieBody(ring, body),
                TieInfo(p), corpse)
  PROVE  ISO!MakeReady(running, p)
<1> DEFINE r == TieRing(ring, p)
           st == TieState(state, p)
<1>1. /\ Me = running /\ running \in Process /\ state[running] = "ready" /\ Me # corpse
      /\ TieBody(ring, body) = body /\ ring \in Seq(Process) /\ ring # <<>> /\ IsInjective(ring)
      /\ at[running] = "live"
  BY CallerIsCurrent DEF Inv
<1>2. ToSet(ring) = {q \in Process : Ready(q)} /\ ring[1] = running
  <2>1. Head(ring) = ring[1]
    BY <1>1
  <2>2. QED
    BY <1>1, <2>1 DEF Inv, SchedulerInv, ReadyRing, Me
<1>3. /\ r \in Seq(Process) /\ r # <<>>
      /\ Head(r) = IF Urgency[running] < Urgency[p] THEN p ELSE running
  <2>1. p \notin ToSet(ring)
    BY <1>2
  <2>2. /\ r \in Seq(Process) /\ r # <<>>
        /\ Head(r) = IF ring = <<>> \/ Urgency[ring[1]] < Urgency[p] THEN p ELSE ring[1]
    BY <1>1, <2>1, TieRingShape
  <2>3. QED
    BY <1>1, <1>2, <2>2
<1>4. /\ st \in [Process -> {"none", "passive", "waiting", "ready", "freed"}]
      /\ \A q \in Process : st[q] = IF q = p THEN "ready" ELSE state[q]
  BY DEF TieState, Inv, TypeOK
<1>5. \A q \in Process : /\ at[q] = "stopped" => state[q] # "ready"
                         /\ q = corpse => state[q] # "none"
  BY DEF Inv, SchedulerInv, Ready
<1>6. \A q \in Process : q = corpse => st[q] # "none"
  BY <1>4, <1>5
<1>7. p # running /\ st[running] = "ready"
  BY <1>1, <1>4 DEF Ready
<1>8. GoNext("call", r, st, body, TieInfo(p), corpse)
  BY <1>1
<1> HIDE DEF r, st
<1>9. statusOf' = StatusAfter(st, "call", r)
  BY <1>3, <1>4, <1>6, <1>7, <1>8, StatusThen
<1>10. /\ \A q \in Process : statusOf[q] = StatusIn(state[q], at[q] = "stopped", q = running)
       /\ DOMAIN statusOf = Process
  BY StatusNow
<1>11. ASSUME NEW q \in Process
       PROVE  statusOf'[q] = IF q = Head(r) THEN "current"
                             ELSE IF q = p \/ q = running THEN "ready" ELSE statusOf[q]
  BY <1>1, <1>3, <1>4, <1>5, <1>7, <1>9, <1>10 DEF StatusIn, StatusAfter
<1>12. statusOf = [q \in Process |-> statusOf[q]]
  BY DEF statusOf
<1>13. statusOf' = [q \in Process |-> statusOf'[q]]
  BY DEF statusOf
<1>14. CASE Urgency[running] < Urgency[p]
  <2>1. PICK f : f = [statusOf EXCEPT ![p] = "current", ![running] = "ready"]
    OBVIOUS
  <2>2. f = [q \in Process |-> f[q]]
    BY <1>12, <2>1
  <2>3. \A q \in Process : f[q] = IF q = running THEN "ready" ELSE IF q = p THEN "current"
                                  ELSE statusOf[q]
    BY <1>10, <2>1
  <2>4. \A q \in Process : statusOf'[q] = f[q]
    BY <1>1, <1>3, <1>7, <1>11, <1>14, <2>3
  <2>5. statusOf' = f
    BY <1>13, <2>2, <2>4
  <2>6. QED
    BY <1>14, <2>1, <2>5 DEF ISO!MakeReady
<1>15. CASE ~(Urgency[running] < Urgency[p])
  <2>1. PICK f : f = [statusOf EXCEPT ![p] = "ready"]
    OBVIOUS
  <2>2. f = [q \in Process |-> f[q]]
    BY <1>12, <2>1
  <2>3. \A q \in Process : f[q] = IF q = p THEN "ready" ELSE statusOf[q]
    BY <1>10, <2>1
  <2>4. statusOf[running] = "current"
    BY StatusNow
  <2>5. \A q \in Process : statusOf'[q] = f[q]
    BY <1>1, <1>3, <1>7, <1>11, <1>15, <2>3, <2>4
  <2>6. statusOf' = f
    BY <1>13, <2>2, <2>5
  <2>7. QED
    BY <1>15, <2>1, <2>6 DEF ISO!MakeReady
<1>16. QED
  BY <1>14, <1>15

\* UnTie, Tie and GoNext by the only ready process: the other one executes.
LEMMA HandOffStatus ==
  ASSUME Inv, Inv', Running, Len(ring) = 1, NEW k \in {"call", "switch"},
         NEW p \in Process, Activatable(p) \/ p = Me, NEW i,
         GoNext(k, TieRing(UnTieRing(ring), p), TieState(UnTieState("passive"), p),
                TieBody(UnTieRing(ring), UnTieBody), i, corpse)
  PROVE  /\ ISO!ReadySet = {}
         /\ \A q \in Process : statusOf'[q] = IF q = p THEN "current"
                                              ELSE IF q = running THEN "passive" ELSE statusOf[q]
<1>1. /\ Me = running /\ running \in Process /\ at[running] = "live" /\ Me # corpse
      /\ UnTieRing(ring) = <<>> /\ UnTieBody = body /\ TieBody(<<>>, body) = body
  BY CallerIsCurrent DEF Inv, UnTieRing, TieBody
<1>2. TieRing(<<>>, p) = <<p>>
  BY DEF TieRing
<1>3. <<p>> \in Seq(Process) /\ <<p>> # <<>> /\ Head(<<p>>) = p
  OBVIOUS
<1>4. PICK st : st = TieState(UnTieState("passive"), p)
  OBVIOUS
<1>5. /\ st \in [Process -> {"none", "passive", "waiting", "ready", "freed"}]
      /\ \A q \in Process : st[q] = IF q = p THEN "ready"
                                    ELSE IF q = running THEN "passive" ELSE state[q]
  BY <1>1, <1>4 DEF UnTieState, TieState, Inv, TypeOK
<1>6. \A q \in Process : q = corpse => at[q] = "stopped" /\ state[q] # "none"
  BY DEF Inv, SchedulerInv
<1>7. \A q \in Process : q = corpse => st[q] # "none"
  BY <1>5, <1>6
<1>8. GoNext(k, <<p>>, st, body, i, corpse)
  BY <1>1, <1>2, <1>4
<1>9. k \in {"call", "switch", "stopped"} /\ st[running] # "none"
  BY <1>1, <1>5
<1>10. statusOf' = StatusAfter(st, k, <<p>>)
  <2>1. PICK r \in Seq(Process) : r = <<p>>
    BY <1>3
  <2>2. GoNext(k, r, st, body, i, corpse)
    BY <1>8, <2>1
  <2>3. statusOf' = StatusAfter(st, k, r)
    BY <1>5, <1>7, <1>9, <2>2, StatusThen
  <2>4. QED
    BY <2>1, <2>3
<1>11. /\ \A q \in Process : statusOf[q] = StatusIn(state[q], at[q] = "stopped", q = running)
       /\ ISO!ReadySet = ToSet(<<>>)
  BY <1>1, StatusNow DEF UnTieRing
<1>12. at[p] # "stopped"
  BY <1>1 DEF Activatable
<1>13. ASSUME NEW q \in Process
       PROVE  statusOf'[q] = IF q = p THEN "current"
                             ELSE IF q = running THEN "passive" ELSE statusOf[q]
  <2>1. statusOf'[q] = StatusIn(st[q], at[q] = "stopped" \/ (q = running /\ k = "stopped"), q = p)
    BY <1>3, <1>10 DEF StatusAfter
  <2>2. QED
    BY <1>1, <1>5, <1>11, <1>12, <2>1 DEF StatusIn
<1>14. QED
  BY <1>11, <1>13 DEF ToSet

\* What a step that transfers control to nobody leaves of the statuses.
LEMMA StatusKept ==
  ASSUME Inv, Running, UNCHANGED <<state, at, running>>, outcome' # "spinning"
  PROVE  UNCHANGED statusOf
BY DEF statusOf, Running

\* Each operation is the one of Processes.def with its name.
LEMMA StepRefines ==
  ASSUME FreeHandOff = FALSE, AtMostOneAbove, Inv, UrgencyInv, Inv', UrgencyInv', Next
  PROVE  ISO!Next \/ UNCHANGED statusOf
<1>1. Running
  BY DEF Next, Create, Start, Activate, SuspendMeAndActivate, Switch, StopMe, SuspendMe, Wait,
         Attach, Detach
<1>2. /\ Me = running /\ running \in Process /\ statusOf[running] = "current"
      /\ \A p \in Process \ {running} : Activatable(p) => ISO!Suspended(p)
      /\ \A p \in Process : state[p] = "none" => statusOf[p] = "absent"
      /\ statusOf = [p \in Process |-> statusOf[p]]
      /\ statusOf' = [p \in Process |-> statusOf'[p]]
  BY <1>1, StatusNow, CallerIsCurrent DEF Inv, statusOf
<1>3. /\ state[running] = "ready" /\ at[running] = "live" /\ Ordered(UnTieRing(ring))
  BY <1>1, CallerIsCurrent, OrderedTail DEF Inv, UrgencyInv, UnTieRing
<1>4. ASSUME NEW p \in Process, Create(p) PROVE ISO!Next
  <2>1. /\ state[p] = "none" /\ state' = [state EXCEPT ![p] = "passive"]
        /\ UNCHANGED <<at, running, outcome>>
    BY <1>4 DEF Create
  <2>2. at[p] = "fresh" /\ p # running /\ state \in [Process -> {"none", "passive", "waiting", "ready", "freed"}]
    BY <1>3, <2>1 DEF Inv, SchedulerInv, TypeOK
  <2>3. \A q \in Process : statusOf'[q] = IF q = p THEN "passive" ELSE statusOf[q]
    BY <1>1, <2>1, <2>2 DEF statusOf, Running
  <2>4. statusOf' = [statusOf EXCEPT ![p] = "passive"]
    <3>1. PICK f : f = [statusOf EXCEPT ![p] = "passive"]
      OBVIOUS
    <3>2. f = [q \in Process |-> f[q]] /\ \A q \in Process : f[q] = statusOf'[q]
      BY <1>2, <2>3, <3>1
    <3>3. QED
      BY <1>2, <3>1, <3>2
  <2>5. ISO!Create(p)
    BY <1>2, <2>1, <2>4 DEF ISO!Create
  <2>6. QED
    BY <1>2, <2>5 DEF ISO!Next
<1>5. ASSUME NEW p \in Process, Activate(p) \/ Start(p) PROVE ISO!Next
  <2>1. ~Ready(p) /\ at[p] # "stopped"
    BY <1>5 DEF Activate, Start, Activatable, Ready, Inv, SchedulerInv
  <2>2. TieAsserts(ring, p)
    BY <1>5 DEF Activate, Start, Checked, UrgencyInv
  <2>3. GoNext("call", TieRing(ring, p), TieState(state, p), TieBody(ring, body),
               TieInfo(p), corpse)
    BY <1>5, <2>2 DEF Activate, Start, Checked
  <2>4. ISO!MakeReady(running, p)
    BY <1>1, <2>1, <2>2, <2>3, TieRefines
  <2>5. p # running
    BY <1>3, <2>1 DEF Ready
  <2>6. ISO!Activate(running, p) \/ ISO!Start(running, p)
    BY <1>2, <1>5, <2>4, <2>5 DEF ISO!Activate, ISO!Start, Activate, Start
  <2>7. QED
    BY <1>2, <2>6 DEF ISO!Next
<1>6. CASE StopMe
  <2>1. CASE Len(ring) = 1
    BY <1>1, <1>6, <2>1, StatusKept DEF StopMe
  <2>2. CASE Len(ring) # 1
    <3>1. GoNext("stopped", UnTieRing(ring), UnTieState("passive"), UnTieBody, info, Me)
      BY <1>6, <2>2 DEF StopMe
    <3>2. ISO!Leave(running, "terminated", ISO!ReadySet)
      BY <1>1, <1>2, <1>3, <3>1, LeaveRefines
    <3>3. QED
      BY <1>2, <3>2 DEF ISO!Next, ISO!StopMe
  <2>3. QED
    BY <2>1, <2>2
<1>7. ASSUME NEW s \in {"passive", "waiting"},
             GoNext("call", UnTieRing(ring), UnTieState(s), UnTieBody, info, corpse)
      PROVE  ISO!Leave(running, s, ISO!ReadySet)
  BY <1>1, <1>3, <1>7, LeaveRefines
<1>8. CASE SuspendMe
  <2>1. CASE Len(ring) = 1 /\ hcnt = 0
    BY <1>1, <1>8, <2>1, StatusKept DEF SuspendMe, Running
  <2>2. CASE ~(Len(ring) = 1 /\ hcnt = 0)
    <3>1. ISO!Leave(running, "passive", ISO!ReadySet)
      BY <1>7, <1>8, <2>2 DEF SuspendMe
    <3>2. QED
      BY <1>2, <3>1 DEF ISO!Next, ISO!SuspendMe
  <2>3. QED
    BY <2>1, <2>2
<1>9. CASE Wait
  <2>1. ISO!Leave(running, "waiting", ISO!ReadySet)
    BY <1>7, <1>9 DEF Wait
  <2>2. QED
    BY <1>2, <2>1 DEF ISO!Next, ISO!Wait
<1>10. ASSUME NEW p \in Process, Len(ring) = 1
       PROVE  TieAsserts(UnTieRing(ring), p)
  BY <1>1, <1>10, CallerIsCurrent DEF UnTieRing, TieAsserts, Inv
<1>11. ASSUME NEW p \in Process, SuspendMeAndActivate(p) PROVE ISO!Next \/ UNCHANGED statusOf
  <2>1. Len(ring) = 1 /\ (Activatable(p) \/ p = Me)
    BY <1>11 DEF SuspendMeAndActivate
  <2>2. GoNext("call", TieRing(UnTieRing(ring), p), TieState(UnTieState("passive"), p),
               TieBody(UnTieRing(ring), UnTieBody), TieInfo(p), corpse)
    BY <1>10, <1>11, <2>1 DEF SuspendMeAndActivate, Checked
  <2>3. /\ ISO!ReadySet = {}
        /\ \A q \in Process : statusOf'[q] = IF q = p THEN "current"
                                             ELSE IF q = running THEN "passive" ELSE statusOf[q]
    BY <1>1, <2>1, <2>2, HandOffStatus
  <2>4. CASE p = running
    BY <1>2, <2>3, <2>4
  <2>5. CASE p # running
    <3>1. p \in ISO!MostUrgentIn(ISO!ReadySet \cup {p})
      BY <2>3, ProcessAssumption DEF ISO!MostUrgentIn
    <3>2. PICK left : left = [q \in Process |-> IF q = running THEN "passive"
                                ELSE IF q \in ISO!ReadySet \cup {p} THEN "ready" ELSE statusOf[q]]
      OBVIOUS
    <3>3. PICK f : f = [left EXCEPT ![p] = "current"]
      OBVIOUS
    <3>4. f = [q \in Process |-> f[q]] /\ \A q \in Process : f[q] = statusOf'[q]
      BY <2>3, <2>5, <3>2, <3>3
    <3>5. statusOf' = f
      BY <1>2, <3>4
    <3>6. ISO!Leave(running, "passive", ISO!ReadySet \cup {p})
      BY <3>1, <3>2, <3>3, <3>5 DEF ISO!Leave
    <3>7. ISO!Suspended(p)
      BY <1>2, <2>1, <2>5
    <3>8. QED
      BY <1>2, <3>6, <3>7 DEF ISO!Next, ISO!SuspendMeAndActivate
  <2>6. QED
    BY <2>4, <2>5
<1>12. ASSUME NEW p \in Process, Switch(p) PROVE ISO!Next
  <2>1. Len(ring) = 1 /\ Activatable(p) /\ Urgency[Me] <= Urgency[p]
    BY <1>12 DEF Switch
  <2>2. GoNext("switch", TieRing(UnTieRing(ring), p), TieState(UnTieState("passive"), p),
               TieBody(UnTieRing(ring), UnTieBody), [info EXCEPT ![p] = running], corpse)
    BY <1>10, <1>12, <2>1 DEF Switch, Checked
  <2>3. \A q \in Process : statusOf'[q] = IF q = p THEN "current"
                                          ELSE IF q = running THEN "passive" ELSE statusOf[q]
    BY <1>1, <2>1, <2>2, HandOffStatus
  <2>4. p # running
    BY <1>3, <2>1 DEF Activatable
  <2>5. PICK f : f = [statusOf EXCEPT ![p] = "current", ![running] = "passive"]
    OBVIOUS
  <2>6. f = [q \in Process |-> f[q]]
    BY <1>2, <2>5
  <2>7. \A q \in Process : f[q] = IF q = running THEN "passive" ELSE IF q = p THEN "current"
                                  ELSE statusOf[q]
    BY <1>2, <2>5
  <2>8. statusOf' = f
    BY <1>2, <2>3, <2>4, <2>6, <2>7
  <2>9. ISO!Switch(running, p)
    BY <1>2, <2>1, <2>4, <2>5, <2>8 DEF ISO!Switch
  <2>10. QED
    BY <1>2, <2>9 DEF ISO!Next
<1>13. ASSUME NEW e \in Sources, Attach(e) \/ Detach(e) PROVE UNCHANGED statusOf
  BY <1>1, <1>13, StatusKept DEF Attach, Detach, Running
<1>14. QED
  BY <1>4, <1>5, <1>6, <1>8, <1>9, <1>11, <1>12, <1>13 DEF Next

\* With at most one process above the others the scheduler implements what
\* Processes.def promises, for any number of processes.
THEOREM KeepsThePromise ==
  ASSUME FreeHandOff = FALSE, AtMostOneAbove
  PROVE  Spec => ImplementsISO
<1>1. Init => ISO!Init
  <2> SUFFICES ASSUME Init PROVE ISO!Init
    OBVIOUS
  <2>1. \A p \in Process : statusOf[p] = IF p = Main THEN "current" ELSE "absent"
    BY DEF Init, statusOf
  <2>2. statusOf = [p \in Process |-> statusOf[p]]
    BY DEF statusOf
  <2>3. QED
    BY <2>1, <2>2 DEF ISO!Init
<1>2. Inv /\ UrgencyInv /\ [Next]_vars => UrgencyInv'
  BY NextUrgent
<1>3. Inv /\ Inv' /\ UrgencyInv /\ UrgencyInv' /\ [Next]_vars => [ISO!Next]_statusOf
  <2>1. UNCHANGED vars => UNCHANGED statusOf
    BY DEF vars, statusOf
  <2>2. QED
    BY <2>1, StepRefines
<1>4. QED
  BY Consistent, InitUrgent, <1>1, <1>2, <1>3, PTL DEF Spec, ImplementsISO, ISO!Spec
-----------------------------------------------------------------------------
(* Two properties of single steps *)

\* A transfer to c, which was parked: c is the first of the ring.
LEMMA GoNextResumes ==
  ASSUME Inv, Inv', Running, NEW k, NEW r, NEW st, NEW i, NEW dead, r \in Seq(Process),
         GoNext(k, r, st, body, i, dead), running' # running
  PROVE  /\ r # <<>> /\ running' = Head(r) /\ Head(r) \in Process
         /\ at'[running] = k
         /\ ring' = r /\ info' = i
<1>1. running \in Process /\ at \in [Process -> {"fresh", "live", "call", "switch", "stopped"}]
      /\ \A p \in Process : body[p] = p
  BY DEF Inv, TypeOK, SchedulerInv
<1>2. r # <<>>
  BY DEF GoNext
<1>3. Head(r) \in Process
  BY <1>2, HeadMember
<1>4. running' = Head(r) /\ at' = [[at EXCEPT ![running] = k] EXCEPT ![Head(r)] = "live"]
  BY <1>1, <1>2, <1>3 DEF GoNext
<1>5. at'[running] = k
  BY <1>1, <1>4
<1>6. QED
  BY <1>2, <1>3, <1>4, <1>5 DEF GoNext

\* Who was made ready while parked in Switch was made ready by Tie.
SwitchersInv == \A p \in Process : Ready(p) /\ at[p] = "switch" => info[p] = Nil

\* Whoever gets ready in a step has info cleared, or executes.
LEMMA GoNextSwitchers ==
  ASSUME Inv, Inv', Running, SwitchersInv, NEW k, NEW r, NEW st, NEW i, NEW dead,
         r \in Seq(Process), GoNext(k, r, st, body, i, dead),
         \A p \in Process \ {running} : p \in ToSet(r) /\ p # Head(r) => i[p] = Nil \/ (Ready(p) /\ i[p] = info[p]),
         k = "switch" => running \notin ToSet(r)
  PROVE  SwitchersInv'
<1> SUFFICES ASSUME NEW p \in Process, Ready(p)', at'[p] = "switch" PROVE info'[p] = Nil
  BY DEF SwitchersInv
<1>1. /\ running \in Process /\ at[running] = "live"
      /\ at \in [Process -> {"fresh", "live", "call", "switch", "stopped"}]
      /\ \A q \in Process : body[q] = q
  BY DEF Inv, TypeOK, SchedulerInv
<1>2. ring' = r /\ info' = i
  BY DEF GoNext
<1>3. p \in ToSet(r)
  BY <1>2 DEF Inv, SchedulerInv, ReadyRing
<1>4. r # <<>>
  BY <1>3 DEF ToSet
<1>5. Head(r) \in Process
  BY <1>4, HeadMember
<1>6. at' = [[at EXCEPT ![running] = k] EXCEPT ![Head(r)] = "live"]
  BY <1>1, <1>4, <1>5 DEF GoNext
<1>7. p # Head(r) /\ (p = running => k = "switch") /\ (p # running => at[p] = "switch")
  BY <1>1, <1>5, <1>6
<1>8. p # running
  BY <1>3, <1>7
<1>9. info'[p] = Nil \/ (Ready(p) /\ info'[p] = info[p])
  BY <1>2, <1>3, <1>7, <1>8
<1>10. QED
  BY <1>7, <1>8, <1>9 DEF SwitchersInv


SwitchStep ==
  \A c \in Process : at[c] = "switch" /\ running' = c =>
    info'[Head(ring')] = IF at'[running] = "switch" THEN running ELSE Nil

\* What is passed to the first of the ring is what his Switch returns.
LEMMA GoNextPasses ==
  ASSUME Inv, Inv', Running, NEW k, NEW r, NEW st, NEW i, NEW dead, r \in Seq(Process),
         GoNext(k, r, st, body, i, dead),
         r # <<>> /\ at[Head(r)] = "switch" => i[Head(r)] = IF k = "switch" THEN running ELSE Nil
  PROVE  SwitchStep
<1> SUFFICES ASSUME NEW c \in Process, at[c] = "switch", running' = c
             PROVE  info'[Head(ring')] = IF at'[running] = "switch" THEN running ELSE Nil
  BY DEF SwitchStep
<1>1. at[running] = "live"
  BY CallerIsCurrent DEF Inv
<1>2. running' # running
  BY <1>1
<1>3. /\ r # <<>> /\ running' = Head(r) /\ at'[running] = k /\ ring' = r /\ info' = i
  BY <1>2, GoNextResumes
<1>4. QED
  BY <1>3

\* Every operation passes on what it should, and clears what it should.
LEMMA NextSwitchers ==
  ASSUME FreeHandOff = FALSE, Inv, Inv', SwitchersInv, Next
  PROVE  SwitchersInv' /\ SwitchStep
<1>1. Running
  BY DEF Next, Create, Start, Activate, SuspendMeAndActivate, Switch, StopMe, SuspendMe, Wait,
         Attach, Detach
<1>2. /\ Me = running /\ running \in Process /\ at[running] = "live" /\ state[running] = "ready"
      /\ UnTieBody = body /\ TieBody(ring, body) = body
      /\ ring \in Seq(Process) /\ ring # <<>> /\ IsInjective(ring)
      /\ UnTieRing(ring) \in Seq(Process)
      /\ ToSet(UnTieRing(ring)) = {p \in Process : Ready(p)} \ {running}
      /\ Len(ring) = 1 => UnTieRing(ring) = <<>>
      /\ info \in [Process -> Process \cup {Nil}]
  BY <1>1, CallerIsCurrent DEF Inv, UnTieRing, TypeOK
<1>3. ASSUME UNCHANGED <<at, running>>,
             \A p \in Process \ {running} : Ready(p)' /\ at[p] = "switch" => Ready(p) /\ info'[p] = info[p]
      PROVE  SwitchersInv' /\ SwitchStep
  <2>1. SwitchersInv'
    BY <1>2, <1>3 DEF SwitchersInv
  <2>2. SwitchStep
    BY <1>2, <1>3 DEF SwitchStep
  <2>3. QED
    BY <2>1, <2>2
<1>4. ASSUME NEW p \in Process, Create(p) PROVE SwitchersInv' /\ SwitchStep
  <2>1. UNCHANGED <<at, running, info>> /\ state' = [state EXCEPT ![p] = "passive"]
    BY <1>4 DEF Create
  <2>2. \A q \in Process : Ready(q)' => Ready(q)
    BY <2>1 DEF Ready, Inv, TypeOK
  <2>3. QED
    BY <1>3, <2>1, <2>2
<1>5. ASSUME NEW p \in Process, Activate(p) \/ Start(p) PROVE SwitchersInv' /\ SwitchStep
  <2>1. ~Ready(p)
    BY <1>5 DEF Activate, Start, Activatable, Ready
  <2>2. CASE ~TieAsserts(ring, p)
    <3>1. UNCHANGED <<at, running, info, state>>
      BY <1>5, <2>2 DEF Activate, Start, Checked
    <3>2. QED
      BY <1>3, <3>1 DEF Ready
  <2>3. CASE TieAsserts(ring, p)
    <3>1. GoNext("call", TieRing(ring, p), TieState(state, p), body, TieInfo(p), corpse)
      BY <1>2, <1>5, <2>3 DEF Activate, Start, Checked
    <3>2. ToSet(ring) = {q \in Process : Ready(q)} /\ p \notin ToSet(ring) /\ ring[1] = running
      <4>1. Head(ring) = ring[1]
        BY <1>2
      <4>2. QED
        BY <1>2, <2>1, <4>1 DEF Inv, SchedulerInv, ReadyRing, Me
    <3>3. /\ TieRing(ring, p) \in Seq(Process)
          /\ ToSet(TieRing(ring, p)) = ToSet(ring) \cup {p}
          /\ Head(TieRing(ring, p)) \in {p, running}
      BY <1>2, <2>3, <3>2, TieRingShape
    <3>4. \A q \in Process : TieInfo(p)[q] = IF q = p THEN Nil ELSE info[q]
      BY <1>2 DEF TieInfo
    <3>5. SwitchersInv'
      BY <1>1, <3>1, <3>2, <3>3, <3>4, GoNextSwitchers
    <3>6. SwitchStep
      BY <1>1, <1>2, <3>1, <3>3, <3>4, GoNextPasses
    <3>7. QED
      BY <3>5, <3>6
  <2>4. QED
    BY <2>2, <2>3
<1>6. ASSUME NEW s, NEW k, k # "switch", NEW dead,
             GoNext(k, UnTieRing(ring), UnTieState(s), UnTieBody, info, dead)
      PROVE  SwitchersInv' /\ SwitchStep
  <2>1. GoNext(k, UnTieRing(ring), UnTieState(s), body, info, dead)
    BY <1>2, <1>6
  <2>2. \A p \in ToSet(UnTieRing(ring)) : Ready(p)
    BY <1>2
  <2>3. SwitchersInv'
    BY <1>1, <1>2, <1>6, <2>1, <2>2, GoNextSwitchers
  <2>4. UnTieRing(ring) # <<>> => Head(UnTieRing(ring)) \in ToSet(UnTieRing(ring))
    BY <1>2, HeadMember
  <2>5. SwitchStep
    BY <1>1, <1>2, <1>6, <2>1, <2>2, <2>4, GoNextPasses DEF SwitchersInv
  <2>6. QED
    BY <2>3, <2>5
<1>7. CASE StopMe
  <2>1. CASE Len(ring) = 1
    BY <1>3, <1>7, <2>1 DEF StopMe, Ready
  <2>2. CASE Len(ring) # 1
    BY <1>6, <1>7, <2>2 DEF StopMe
  <2>3. QED
    BY <2>1, <2>2
<1>8. CASE SuspendMe
  <2>1. CASE Len(ring) = 1 /\ hcnt = 0
    <3>1. info' = TieInfo(Me) /\ UNCHANGED <<at, running, state>>
      BY <1>8, <2>1 DEF SuspendMe
    <3>2. \A q \in Process \ {running} : info'[q] = info[q]
      BY <1>2, <3>1 DEF TieInfo
    <3>3. QED
      BY <1>3, <3>1, <3>2 DEF Ready
  <2>2. CASE ~(Len(ring) = 1 /\ hcnt = 0)
    BY <1>6, <1>8, <2>2 DEF SuspendMe
  <2>3. QED
    BY <2>1, <2>2
<1>9. CASE Wait
  BY <1>6, <1>9 DEF Wait
<1>10. ASSUME NEW p \in Process, Len(ring) = 1, NEW k, k = "switch" => p # running,
              NEW st, NEW i \in [Process -> Process \cup {Nil}],
              i[p] = IF k = "switch" THEN running ELSE Nil,
              GoNext(k, TieRing(UnTieRing(ring), p), st, TieBody(UnTieRing(ring), UnTieBody), i, corpse)
       PROVE  SwitchersInv' /\ SwitchStep
  <2>1. TieRing(UnTieRing(ring), p) = <<p>> /\ TieBody(UnTieRing(ring), UnTieBody) = body
    BY <1>2, <1>10 DEF TieRing, TieBody
  <2>2. GoNext(k, <<p>>, st, body, i, corpse)
    BY <1>10, <2>1
  <2>3. <<p>> \in Seq(Process) /\ Head(<<p>>) = p /\ ToSet(<<p>>) = {p}
    BY DEF ToSet
  <2>4. SwitchersInv'
    BY <1>1, <1>10, <2>2, <2>3, GoNextSwitchers
  <2>5. SwitchStep
    BY <1>1, <1>10, <2>2, <2>3, GoNextPasses
  <2>6. QED
    BY <2>4, <2>5
<1>11. ASSUME NEW p \in Process, Len(ring) = 1 PROVE TieAsserts(UnTieRing(ring), p)
  BY <1>2, <1>11 DEF TieAsserts
<1>12. ASSUME NEW p \in Process, SuspendMeAndActivate(p) PROVE SwitchersInv' /\ SwitchStep
  <2>1. Len(ring) = 1
    BY <1>12 DEF SuspendMeAndActivate
  <2>2. GoNext("call", TieRing(UnTieRing(ring), p), TieState(UnTieState("passive"), p),
               TieBody(UnTieRing(ring), UnTieBody), TieInfo(p), corpse)
    BY <1>11, <1>12, <2>1 DEF SuspendMeAndActivate, Checked
  <2>3. TieInfo(p) \in [Process -> Process \cup {Nil}] /\ TieInfo(p)[p] = Nil
    BY <1>2 DEF TieInfo
  <2>4. QED
    BY <1>10, <2>1, <2>2, <2>3
<1>13. ASSUME NEW p \in Process, Switch(p) PROVE SwitchersInv' /\ SwitchStep
  <2>1. Len(ring) = 1 /\ Activatable(p) /\ Urgency[Me] <= Urgency[p]
    BY <1>13 DEF Switch
  <2>2. GoNext("switch", TieRing(UnTieRing(ring), p), TieState(UnTieState("passive"), p),
               TieBody(UnTieRing(ring), UnTieBody), [info EXCEPT ![p] = running], corpse)
    BY <1>11, <1>13, <2>1 DEF Switch, Checked
  <2>3. [info EXCEPT ![p] = running] \in [Process -> Process \cup {Nil}]
        /\ [info EXCEPT ![p] = running][p] = running
    BY <1>2
  <2>4. p # running
    BY <1>2, <2>1 DEF Activatable
  <2>5. QED
    BY <1>10, <2>1, <2>2, <2>3, <2>4
<1>14. ASSUME NEW e \in Sources, Attach(e) \/ Detach(e) PROVE SwitchersInv' /\ SwitchStep
  BY <1>3, <1>14 DEF Attach, Detach, Ready
<1>15. QED
  BY <1>4, <1>5, <1>7, <1>8, <1>9, <1>12, <1>13, <1>14 DEF Next

\* Switch returns what the process that switched back has passed, and nothing when the
\* caller was resumed in another way, for any number of processes and any urgencies.
THEOREM SwitchIsAnswered ==
  ASSUME FreeHandOff = FALSE
  PROVE  Spec => SwitchResult
<1>1. Init => SwitchersInv
  BY DEF Init, SwitchersInv
<1>2. Inv /\ SwitchersInv /\ [Next]_vars => SwitchersInv'
  <2>1. UNCHANGED vars /\ SwitchersInv => SwitchersInv'
    BY DEF vars, SwitchersInv, Ready
  <2>2. QED
    BY <2>1, NextInv, NextSwitchers
<1>3. Inv /\ SwitchersInv /\ [Next]_vars => [SwitchStep]_vars
  BY NextInv, NextSwitchers
<1>4. QED
  BY Consistent, <1>1, <1>2, <1>3, PTL DEF Spec, SwitchResult, SwitchStep

-----------------------------------------------------------------------------
(* The ring as a queue *)

\* Tying a process as urgent as the others appends it.
LEMMA TieAppends ==
  ASSUME NEW r \in Seq(Process), r # <<>>, NEW p \in Process, Urgency[p] = Urgency[r[1]]
  PROVE  /\ TieRing(r, p) \in Seq(Process) /\ Len(TieRing(r, p)) = Len(r) + 1
         /\ \A j \in 1..Len(r) : TieRing(r, p)[j] = r[j]
         /\ TieRing(r, p)[Len(r) + 1] = p
<1>1. Len(r) \in Nat \ {0} /\ r[1] \in Process
  BY EmptySeq
<1>2. UrgencyAt(r, 1) = Urgency[r[1]]
  BY <1>1 DEF UrgencyAt
<1>3. TieIndex(r, p) = Len(r) + 1
  BY <1>2 DEF TieIndex
<1>4. ~(Urgency[r[1]] < Urgency[p])
  BY <1>1, ProcessAssumption
<1>5. TieRing(r, p) = InsertAt(r, Len(r) + 1, p)
  BY <1>3, <1>4 DEF TieRing
<1>6. Len(r) + 1 \in 1..Len(r) + 1
  BY <1>1
<1>7. ASSUME NEW k \in 1..Len(r) + 1, k = Len(r) + 1
      PROVE  /\ InsertAt(r, k, p) \in Seq(Process) /\ Len(InsertAt(r, k, p)) = Len(r) + 1
             /\ \A j \in 1..Len(r) : InsertAt(r, k, p)[j] = r[j]
             /\ InsertAt(r, k, p)[Len(r) + 1] = p
  <2>1. /\ InsertAt(r, k, p) \in Seq(Process)
        /\ Len(InsertAt(r, k, p)) = Len(r) + 1
        /\ \A i \in 1..Len(r) + 1 :
             InsertAt(r, k, p)[i] = IF i < k THEN r[i] ELSE IF i = k THEN p ELSE r[i - 1]
    BY InsertAtShape
  <2>2. \A j \in 1..Len(r) : j \in 1..Len(r) + 1 /\ j < k
    BY <1>1, <1>7
  <2>3. QED
    BY <1>6, <1>7, <2>1, <2>2
<1>8. QED
  BY <1>5, <1>6, <1>7

\* Nobody gets ahead of those of r that wait behind the first.
Queue(r, s) == \A p \in ToSet(r) \ {Head(r)} : Ahead(s, p) \subseteq Ahead(r, p)

LEMMA AheadMember ==
  ASSUME NEW r \in Seq(Process), NEW p, NEW x
  PROVE  x \in Ahead(r, p) <=> \E i, j \in 1..Len(r) : r[i] = x /\ r[j] = p /\ i < j
BY ToSetMember DEF Ahead

\* Neither unlinking the first nor appending a new one lets anybody get ahead.
LEMMA QueueTail ==
  ASSUME NEW r \in Seq(Process), r # <<>>
  PROVE  Queue(r, Tail(r))
<1>1. /\ Tail(r) \in Seq(Process) /\ Len(Tail(r)) = Len(r) - 1 /\ Len(r) \in Nat
      /\ \A i \in 1..Len(r) - 1 : Tail(r)[i] = r[i + 1]
  OBVIOUS
<1>2. ASSUME NEW p, NEW x \in Ahead(Tail(r), p) PROVE x \in Ahead(r, p)
  <2>1. PICK i, j \in 1..Len(Tail(r)) : Tail(r)[i] = x /\ Tail(r)[j] = p /\ i < j
    <3>1. PICK s \in Seq(Process) : s = Tail(r)
      BY <1>1
    <3>2. x \in Ahead(s, p)
      BY <1>2, <3>1
    <3>3. \E i, j \in 1..Len(s) : s[i] = x /\ s[j] = p /\ i < j
      BY <3>2, AheadMember
    <3>4. QED BY <3>1, <3>3
  <2>2. /\ i + 1 \in 1..Len(r) /\ j + 1 \in 1..Len(r) /\ i + 1 < j + 1
        /\ r[i + 1] = x /\ r[j + 1] = p
    BY <1>1, <2>1
  <2>3. QED
    BY <2>2, AheadMember
<1>3. QED
  BY <1>2 DEF Queue

LEMMA QueueAppend ==
  ASSUME NEW r \in Seq(Process), NEW s \in Seq(Process), NEW p \in Process, p \notin ToSet(r),
         Len(s) = Len(r) + 1, \A j \in 1..Len(r) : s[j] = r[j], s[Len(r) + 1] = p
  PROVE  Queue(r, s)
<1>1. Len(r) \in Nat
  OBVIOUS
<1>2. ASSUME NEW q \in ToSet(r), NEW x \in Ahead(s, q) PROVE x \in Ahead(r, q)
  <2>1. PICK i, j \in 1..Len(s) : s[i] = x /\ s[j] = q /\ i < j
    BY <1>2, AheadMember
  <2>2. j # Len(r) + 1
    BY <1>2, <2>1
  <2>3. i \in 1..Len(r) /\ j \in 1..Len(r)
    BY <1>1, <2>1, <2>2
  <2>4. r[i] = x /\ r[j] = q
    BY <2>1, <2>3
  <2>5. QED
    BY <2>1, <2>3, <2>4, AheadMember
<1>3. QED
  BY <1>2 DEF Queue

LEMMA QueueAlone ==
  ASSUME NEW r \in Seq(Process), Len(r) = 1, NEW s
  PROVE  Queue(r, s)
<1>1. ToSet(r) = {Head(r)}
  BY DEF ToSet
<1>2. QED
  BY <1>1 DEF Queue

\* Every operation keeps the order of those who wait.
LEMMA NextQueue ==
  ASSUME FreeHandOff = FALSE, Inv, Next, Alike(ToSet(ring) \cup ToSet(ring'))
  PROVE  Queue(ring, ring')
<1>1. Running
  BY DEF Next, Create, Start, Activate, SuspendMeAndActivate, Switch, StopMe, SuspendMe, Wait,
         Attach, Detach
<1>2. /\ ring \in Seq(Process) /\ ring # <<>> /\ IsInjective(ring)
      /\ ToSet(ring) = {q \in Process : Ready(q)}
  BY <1>1, CallerIsCurrent DEF Inv, TypeOK, SchedulerInv, ReadyRing
<1>3. ASSUME ring' = ring PROVE Queue(ring, ring')
  BY <1>3 DEF Queue
<1>4. ASSUME ring' = Tail(ring) PROVE Queue(ring, ring')
  BY <1>2, <1>4, QueueTail
<1>5. CASE Len(ring) = 1
  BY <1>2, <1>5, QueueAlone
<1>6. ASSUME NEW p \in Process, Activate(p) \/ Start(p) PROVE Queue(ring, ring')
  <2>1. CASE ~TieAsserts(ring, p)
    BY <1>3, <1>6, <2>1 DEF Activate, Start, Checked
  <2>2. CASE TieAsserts(ring, p)
    <3>1. ring' = TieRing(ring, p)
      BY <1>6, <2>2 DEF Activate, Start, Checked, GoNext
    <3>2. p \notin ToSet(ring)
      BY <1>2, <1>6 DEF Activate, Start, Activatable, Ready
    <3>3. p \in ToSet(ring')
      BY <1>2, <2>2, <3>1, <3>2, TieRingShape
    <3>4. Head(ring) = ring[1] /\ ring[1] \in ToSet(ring)
      BY <1>2, HeadMember
    <3>5. Urgency[p] = Urgency[ring[1]]
      BY <3>3, <3>4 DEF Alike
    <3>6. /\ ring' \in Seq(Process) /\ Len(ring') = Len(ring) + 1
          /\ \A j \in 1..Len(ring) : ring'[j] = ring[j]
          /\ ring'[Len(ring) + 1] = p
      BY <1>2, <3>1, <3>5, TieAppends
    <3>7. QED
      BY <1>2, <3>2, <3>6, QueueAppend
  <2>3. QED
    BY <2>1, <2>2
<1>7. ASSUME NEW p \in Process, Create(p) PROVE Queue(ring, ring')
  BY <1>3, <1>7 DEF Create
<1>8. ASSUME NEW p \in Process, SuspendMeAndActivate(p) \/ Switch(p) PROVE Queue(ring, ring')
  BY <1>5, <1>8 DEF SuspendMeAndActivate, Switch
<1>9. ASSUME StopMe \/ SuspendMe \/ Wait PROVE Queue(ring, ring')
  BY <1>3, <1>4, <1>9 DEF StopMe, SuspendMe, Wait, GoNext, UnTieRing
<1>10. ASSUME NEW e \in Sources, Attach(e) \/ Detach(e) PROVE Queue(ring, ring')
  BY <1>3, <1>10 DEF Attach, Detach
<1>11. QED
  BY <1>6, <1>7, <1>8, <1>9, <1>10 DEF Next

\* While the ready processes are equally urgent nobody gets ahead of one that waits
\* for its turn, for any number of processes.
THEOREM EqualsTakeTurns ==
  ASSUME FreeHandOff = FALSE
  PROVE  Spec => NoOvertaking
<1>1. Inv /\ [Next]_vars =>
        [Alike(ToSet(ring) \cup ToSet(ring')) =>
           \A p \in ToSet(ring) \ {Me} : Ahead(ring', p) \subseteq Ahead(ring, p)]_vars
  BY NextQueue DEF Queue, Me
<1>2. QED
  BY Consistent, <1>1, PTL DEF Spec, NoOvertaking

-----------------------------------------------------------------------------
(* The semaphores *)

\* The obligations of the clients.
Obligations == FreeHandOff = FALSE /\ PassiveClaims = FALSE /\ AtMostOneAbove

-----------------------------------------------------------------------------
(* What a step of the scheduler leaves of the coroutines that are parked in a *)
(* call: they keep their states, and only the one that executes now returns.  *)

Stays(X) ==
  \A q \in Process \ X : at[q] = "call" =>
    /\ state'[q] = state[q]
    /\ at'[q] = "call" \/ (at'[q] = "live" /\ q = running' /\ Running')

\* A transfer of control disturbs nobody but the processes the operation names.
LEMMA GoNextStays ==
  ASSUME Inv, Inv', Running, NEW X, NEW k, NEW r, NEW st, NEW b, NEW i, NEW dead,
         dead = corpse \/ dead = Me, \A q \in Process \ (X \cup {Me}) : st[q] = state[q],
         st \in [Process -> {"none", "passive", "waiting", "ready", "freed"}],
         b = body, GoNext(k, r, st, b, i, dead)
  PROVE  Stays(X)
<1>1. /\ at \in [Process -> {"fresh", "live", "call", "switch", "stopped"}]
      /\ Me = running /\ at[Me] = "live" /\ Me \in Process
  BY CallerIsCurrent DEF Inv, TypeOK
<1>2. \A q \in Process : q = corpse => at[q] = "stopped"
  BY DEF Inv, SchedulerInv
<1>3. SUFFICES ASSUME NEW q \in Process \ X, at[q] = "call"
               PROVE  /\ state'[q] = state[q]
                      /\ at'[q] = "call" \/ (at'[q] = "live" /\ q = running' /\ Running')
  BY DEF Stays
<1>4. q # Me /\ q # dead /\ st[q] = state[q]
  BY <1>1, <1>2, <1>3
<1>5. state'[q] = st[q]
  <2>1. CASE r = <<>>
    BY <2>1 DEF GoNext
  <2>2. CASE r # <<>>
    <3>1. state' = st \/ state' = [st EXCEPT ![dead] = "freed"]
      BY <2>2 DEF GoNext
    <3>2. QED
      BY <3>1, <1>4
  <2>3. QED
    BY <2>1, <2>2
<1>6. CASE r = <<>>
  <2>1. at' = [at EXCEPT ![running] = k]
    BY <1>6 DEF GoNext
  <2>2. at'[q] = at[q]
    BY <2>1, <1>1, <1>4
  <2>3. QED
    BY <1>3, <1>4, <1>5, <2>2
<1>7. CASE r # <<>>
  <2>1. /\ at' = [[at EXCEPT ![running] = k] EXCEPT ![running'] = "live"]
        /\ outcome' = outcome \/ outcome' = "crash"
    BY <1>7 DEF GoNext
  <2>2. outcome' # "crash"
    BY DEF Inv, SchedulerInv
  <2>3. Running'
    BY <2>1, <2>2 DEF Running
  <2>4. at'[q] = IF q = running' THEN "live" ELSE at[q]
    BY <2>1, <1>1, <1>4
  <2>5. QED
    BY <1>3, <1>4, <1>5, <2>3, <2>4
<1>8. QED
  BY <1>6, <1>7

\* The operations of Processes, with the processes they name.
LEMMA NextStays ==
  ASSUME FreeHandOff = FALSE, Inv, Inv', outcome' # "assert"
  PROVE  /\ \A p \in Process : Create(p) \/ Start(p) \/ Activate(p) \/ SuspendMeAndActivate(p)
                               \/ Switch(p) => Stays({p})
         /\ StopMe \/ SuspendMe \/ Wait => Stays({})
         /\ (\E e \in Sources : Attach(e) \/ Detach(e)) => Stays({})
         /\ UNCHANGED vars => Stays({})
<1>1. ASSUME NEW X, \A q \in Process \ X : state'[q] = state[q], UNCHANGED at PROVE Stays(X)
  BY <1>1 DEF Stays
<1>2. /\ state \in [Process -> {"none", "passive", "waiting", "ready", "freed"}]
      /\ TieBody(<<>>, body) = body
  BY DEF Inv, TypeOK, TieBody
<1>3. Running => Me \in Process /\ UnTieBody = body /\ TieBody(ring, body) = body
  BY CallerIsCurrent DEF Inv
<1>4. \A s \in {"passive", "waiting"} : Running =>
        /\ UnTieState(s) \in [Process -> {"none", "passive", "waiting", "ready", "freed"}]
        /\ \A q \in Process \ {Me} : UnTieState(s)[q] = state[q]
  BY <1>2, <1>3 DEF UnTieState
<1>5. ASSUME NEW p \in Process,
             NEW st \in [Process -> {"none", "passive", "waiting", "ready", "freed"}]
      PROVE  /\ TieState(st, p) \in [Process -> {"none", "passive", "waiting", "ready", "freed"}]
             /\ \A q \in Process \ {p} : TieState(st, p)[q] = st[q]
  BY DEF TieState
<1>6. ASSUME NEW p \in Process, Create(p) PROVE Stays({p})
  <2>1. UNCHANGED at /\ state' = [state EXCEPT ![p] = "passive"]
    BY <1>6 DEF Create
  <2>2. QED
    BY <1>1, <1>2, <2>1
<1>7. ASSUME NEW p \in Process, Start(p) \/ Activate(p) PROVE Stays({p})
  <2>1. Running /\ GoNext("call", TieRing(ring, p), TieState(state, p), TieBody(ring, body), TieInfo(p), corpse)
    BY <1>7 DEF Start, Activate, Checked
  <2>2. \A q \in Process \ ({p} \cup {Me}) : TieState(state, p)[q] = state[q]
    BY <1>2, <1>5
  <2>3. TieState(state, p) \in [Process -> {"none", "passive", "waiting", "ready", "freed"}]
    BY <1>2, <1>5
  <2>4. QED
    BY <1>3, <2>1, <2>2, <2>3, GoNextStays
<1>8. ASSUME NEW p \in Process, Running, Len(ring) = 1
      PROVE  /\ UnTieRing(ring) = <<>> /\ TieAsserts(UnTieRing(ring), p)
             /\ TieState(UnTieState("passive"), p) \in
                  [Process -> {"none", "passive", "waiting", "ready", "freed"}]
             /\ \A q \in Process \ ({p} \cup {Me}) : TieState(UnTieState("passive"), p)[q] = state[q]
             /\ TieBody(UnTieRing(ring), UnTieBody) = body
  <2>1. UnTieRing(ring) = <<>>
    BY <1>8, CallerIsCurrent DEF UnTieRing, Inv
  <2>2. TieAsserts(<<>>, p)
    BY DEF TieAsserts
  <2>3. UnTieState("passive") \in [Process -> {"none", "passive", "waiting", "ready", "freed"}]
        /\ \A q \in Process \ {Me} : UnTieState("passive")[q] = state[q]
    BY <1>4, <1>8
  <2>4. TieState(UnTieState("passive"), p) \in [Process -> {"none", "passive", "waiting", "ready", "freed"}]
    BY <1>5, <2>3
  <2>5. \A q \in Process \ ({p} \cup {Me}) : TieState(UnTieState("passive"), p)[q] = state[q]
    BY <1>5, <2>3
  <2>6. QED
    BY <1>2, <1>3, <1>8, <2>1, <2>2, <2>4, <2>5
<1>9. ASSUME NEW p \in Process, SuspendMeAndActivate(p) PROVE Stays({p})
  <2>1. Running /\ Len(ring) = 1
    BY <1>9 DEF SuspendMeAndActivate
  <2>2. GoNext("call", TieRing(UnTieRing(ring), p), TieState(UnTieState("passive"), p),
               TieBody(UnTieRing(ring), UnTieBody), TieInfo(p), corpse)
    BY <1>8, <1>9, <2>1 DEF SuspendMeAndActivate, Checked
  <2>3. QED
    BY <1>8, <2>1, <2>2, GoNextStays
<1>10. ASSUME NEW p \in Process, Switch(p) PROVE Stays({p})
  <2>1. Running /\ Len(ring) = 1 /\ Urgency[Me] <= Urgency[p]
    BY <1>10 DEF Switch
  <2>2. GoNext("switch", TieRing(UnTieRing(ring), p), TieState(UnTieState("passive"), p),
               TieBody(UnTieRing(ring), UnTieBody), [info EXCEPT ![p] = running], corpse)
    BY <1>8, <1>10, <2>1 DEF Switch, Checked
  <2>3. QED
    BY <1>8, <2>1, <2>2, GoNextStays
<1>11. ASSUME NEW s \in {"passive", "waiting"}, NEW k, NEW dead, dead = corpse \/ dead = Me, Running,
              GoNext(k, UnTieRing(ring), UnTieState(s), UnTieBody, info, dead)
       PROVE  Stays({})
  <2>1. \A q \in Process \ ({} \cup {Me}) : UnTieState(s)[q] = state[q]
    BY <1>4, <1>11
  <2>2. QED
    BY <1>3, <1>4, <1>11, <2>1, GoNextStays
<1>12. ASSUME StopMe PROVE Stays({})
  <2>1. CASE Len(ring) = 1
    BY <1>1, <1>12, <2>1 DEF StopMe
  <2>2. CASE Len(ring) # 1
    <3>1. Running /\ GoNext("stopped", UnTieRing(ring), UnTieState("passive"), UnTieBody, info, Me)
      BY <1>12, <2>2 DEF StopMe
    <3>2. QED
      BY <1>11, <3>1
  <2>3. QED
    BY <2>1, <2>2
<1>13. ASSUME SuspendMe PROVE Stays({})
  <2>1. CASE Len(ring) = 1 /\ hcnt = 0
    BY <1>1, <1>13, <2>1 DEF SuspendMe
  <2>2. CASE ~(Len(ring) = 1 /\ hcnt = 0)
    <3>1. Running /\ GoNext("call", UnTieRing(ring), UnTieState("passive"), UnTieBody, info, corpse)
      BY <1>13, <2>2 DEF SuspendMe
    <3>2. QED
      BY <1>11, <3>1
  <2>3. QED
    BY <2>1, <2>2
<1>14. ASSUME Wait PROVE Stays({})
  <2>1. Running /\ GoNext("call", UnTieRing(ring), UnTieState("waiting"), UnTieBody, info, corpse)
    BY <1>14 DEF Wait
  <2>2. QED
    BY <1>11, <2>1
<1>15. ASSUME NEW e \in Sources, Attach(e) \/ Detach(e) PROVE Stays({})
  BY <1>1, <1>15 DEF Attach, Detach
<1>16. ASSUME UNCHANGED vars PROVE Stays({})
  BY <1>1, <1>16 DEF vars
<1>17. QED
  BY <1>6, <1>7, <1>9, <1>10, <1>12, <1>13, <1>14, <1>15, <1>16

-----------------------------------------------------------------------------
(* The invariant of the calls *)

SemTypeOK ==
  /\ alive \in [Semaphore -> BOOLEAN]
  /\ cnt \in [Semaphore -> Nat]
  /\ lst \in [Semaphore -> Seq(Process)]
  /\ waitsFor \in [Process -> Semaphore \cup {Nil}]
  /\ destroys \in [Process -> Semaphore \cup {Nil}]
  /\ permits \in [Semaphore -> Int]

\* Who waits in a Claim is parked in SuspendMe: he sleeps, or has been woken and
\* has not run yet.
WaitersParked ==
  \A p \in Process : waitsFor[p] # Nil => at[p] = "call" /\ state[p] \in {"ready", "passive"}

QueueOf(s) ==
  /\ IsInjective(lst[s])
  /\ ToSet(lst[s]) = Sleeping(s)
  /\ lst[s] # <<>> => cnt[s] = 0
Queues == \A s \in Semaphore : QueueOf(s)

Woken(s) == {p \in Process : waitsFor[p] = s /\ Ready(p)}
InUse(s) == alive[s] /\ \A p \in Process : destroys[p] # s
Balanced(s) == permits[s] = cnt[s] + Cardinality(Woken(s))
DeadHaveNone == \A s \in Semaphore : ~alive[s] => permits[s] = 0
Permits == Running => \A s \in Semaphore : InUse(s) => Balanced(s)

SchedInv == Inv /\ UrgencyInv
CallsInv == SchedInv /\ SemTypeOK /\ WaitersParked /\ Queues /\ DeadHaveNone /\ Permits

\* The invariant contains the properties.
LEMMA CallsSuffice == CallsInv => SleepersAreQueued /\ PermitsConserved
<1> SUFFICES ASSUME CallsInv PROVE SleepersAreQueued /\ PermitsConserved
  OBVIOUS
<1>1. ASSUME NEW s \in Semaphore
      PROVE  /\ \A i, j \in 1..Len(lst[s]) : lst[s][i] = lst[s][j] => i = j
             /\ ToSet(lst[s]) = {p \in Process : waitsFor[p] = s /\ ~Ready(p)}
             /\ lst[s] # <<>> => cnt[s] = 0
  <2>1. lst[s] \in Seq(Process)
    BY DEF CallsInv, SemTypeOK
  <2>2. QueueOf(s)
    BY DEF CallsInv, Queues
  <2>3. IsInjective(lst[s]) /\ ToSet(lst[s]) = Sleeping(s) /\ (lst[s] # <<>> => cnt[s] = 0)
    BY <2>2 DEF QueueOf
  <2>4. \A i, j \in 1..Len(lst[s]) : lst[s][i] = lst[s][j] => i = j
    BY <2>1, <2>3, InjectiveSeq
  <2>5. QED
    BY <2>3, <2>4 DEF Sleeping
<1>2. ASSUME NEW s \in Semaphore, alive[s], \A p \in Process : destroys[p] # s, Running
      PROVE  permits[s] = cnt[s] + Cardinality({p \in Process : waitsFor[p] = s /\ Ready(p)})
  BY <1>2 DEF CallsInv, Permits, InUse, Balanced, Woken
<1>3. SleepersAreQueued
  BY <1>1 DEF SleepersAreQueued
<1>4. PermitsConserved
  BY <1>2 DEF PermitsConserved
<1>5. QED
  BY <1>3, <1>4

\* Whoever has just returned from his call is ready, and the only one.
LEMMA OneReturns ==
  ASSUME Inv', Running'
  PROVE  Ready(running)' /\ running' \in Process
<1>1. /\ ring' \in Seq(Process) /\ ring' # <<>> /\ running' = Head(ring')
      /\ ToSet(ring') = {p \in Process : Ready(p)'}
  BY DEF Inv, TypeOK, SchedulerInv, ReadyRing, Me
<1>2. QED
  BY <1>1, HeadMember

\* The processes of the set X are woken, or none if nobody of X waits; the claimants
\* that continue return from their Claim.
Wakes(X) ==
  \A q \in X : q \in Process /\ (waitsFor[q] # Nil =>
     /\ state[q] = "passive" /\ state'[q] = "ready"
     /\ at'[q] = "call" \/ (at'[q] = "live" /\ q = running' /\ Running'))

\* What becomes of the claimants of t: those of X are woken, and those that run take
\* their permits.
Effect(t, X) ==
  /\ Woken(t)' = (Woken(t) \cup (Sleeping(t) \cap X)) \ Granted(t)
  /\ Granted(t) \subseteq Woken(t) \cup (Sleeping(t) \cap X)

\* The sleepers of X are woken, and nobody else.
LEMMA WakeEffect ==
  ASSUME CallsInv, Inv', NEW X, Wakes(X), Stays(X), ClaimsReturn
  PROVE  /\ WaitersParked'
         /\ waitsFor' \in [Process -> Semaphore \cup {Nil}]
         /\ \A t \in Semaphore : Effect(t, X) /\ Sleeping(t)' = Sleeping(t) \ X
<1>0. waitsFor \in [Process -> Semaphore \cup {Nil}] /\ Nil \notin Semaphore
  BY SemaphoreAssumption DEF CallsInv, SemTypeOK
<1>1. /\ waitsFor' \in [Process -> Semaphore \cup {Nil}]
      /\ \A p \in Process : waitsFor'[p] = IF at'[p] = "live" THEN Nil ELSE waitsFor[p]
  BY <1>0 DEF ClaimsReturn
<1>2. ASSUME NEW p \in Process, waitsFor[p] # Nil
      PROVE  /\ at[p] = "call" /\ state[p] \in {"ready", "passive"}
             /\ p \in X => state[p] = "passive" /\ state'[p] = "ready"
             /\ p \notin X => state'[p] = state[p]
             /\ at'[p] = "call" \/ (at'[p] = "live" /\ state'[p] = "ready")
  <2>1. at[p] = "call" /\ state[p] \in {"ready", "passive"}
    BY <1>2 DEF CallsInv, WaitersParked
  <2>2. p \in X => /\ state[p] = "passive" /\ state'[p] = "ready"
                   /\ at'[p] = "call" \/ at'[p] = "live"
    BY <1>2 DEF Wakes
  <2>3. p \notin X => /\ state'[p] = state[p]
                      /\ at'[p] = "call" \/ (at'[p] = "live" /\ p = running' /\ Running')
    BY <2>1 DEF Stays
  <2>4. Running' => state'[running'] = "ready"
    BY OneReturns DEF Ready
  <2>5. QED
    BY <2>1, <2>2, <2>3, <2>4
<1>3. WaitersParked'
  BY <1>1, <1>2 DEF WaitersParked
<1>4. ASSUME NEW t \in Semaphore PROVE Sleeping(t)' = Sleeping(t) \ X
  BY <1>0, <1>1, <1>2 DEF Sleeping, Ready
<1>5. ASSUME NEW t \in Semaphore PROVE Effect(t, X)
  <2>1. ASSUME NEW p \in Granted(t) PROVE p \in Woken(t) \cup (Sleeping(t) \cap X)
    BY <1>0, <1>2, <2>1 DEF Granted, Woken, Sleeping, Ready
  <2>2. ASSUME NEW p \in Process
        PROVE  p \in Woken(t)' <=> p \in (Woken(t) \cup (Sleeping(t) \cap X)) \ Granted(t)
    BY <1>0, <1>1, <1>2 DEF Granted, Woken, Sleeping, Ready
  <2>3. Woken(t) \subseteq Process /\ Woken(t)' \subseteq Process /\ Sleeping(t) \subseteq Process
    BY DEF Woken, Sleeping
  <2>4. QED
    BY <2>1, <2>2, <2>3 DEF Effect
<1>6. QED
  BY <1>1, <1>3, <1>4, <1>5

\* What becomes of the claimants when the caller parks himself in Claim(s).
LEMMA ClaimEffect ==
  ASSUME CallsInv, Inv', Running, NEW s \in Semaphore, Stays({}),
         at'[Me] = "call", state'[Me] = "passive",
         waitsFor' = [p \in Process |-> IF at'[p] = "live" THEN Nil
                                        ELSE IF p = running THEN s ELSE waitsFor[p]]
  PROVE  /\ WaitersParked'
         /\ waitsFor' \in [Process -> Semaphore \cup {Nil}]
         /\ \A t \in Semaphore : Effect(t, {})
         /\ \A t \in Semaphore \ {s} : Sleeping(t)' = Sleeping(t)
         /\ Sleeping(s)' = Sleeping(s) \cup {Me}
<1>0. waitsFor \in [Process -> Semaphore \cup {Nil}] /\ Nil \notin Semaphore
  BY SemaphoreAssumption DEF CallsInv, SemTypeOK
<1>1. Me = running /\ Me \in Process /\ at[Me] = "live" /\ state[Me] = "ready"
  BY CallerIsCurrent DEF CallsInv, SchedInv, Inv
<1>2. waitsFor[Me] = Nil
  BY <1>1 DEF CallsInv, WaitersParked
<1>3. waitsFor'[Me] = s
  BY <1>1
<1>4. ASSUME NEW p \in Process \ {Me}
      PROVE  waitsFor'[p] = IF at'[p] = "live" THEN Nil ELSE waitsFor[p]
  BY <1>1
<1>5. waitsFor' \in [Process -> Semaphore \cup {Nil}]
  BY <1>0
<1>6. ASSUME NEW p \in Process \ {Me}, waitsFor[p] # Nil
      PROVE  /\ at[p] = "call" /\ state[p] \in {"ready", "passive"}
             /\ state'[p] = state[p]
             /\ at'[p] = "call" \/ (at'[p] = "live" /\ state'[p] = "ready")
  <2>1. at[p] = "call" /\ state[p] \in {"ready", "passive"}
    BY <1>6 DEF CallsInv, WaitersParked
  <2>2. state'[p] = state[p] /\ (at'[p] = "call" \/ (at'[p] = "live" /\ p = running' /\ Running'))
    BY <2>1 DEF Stays
  <2>3. Running' => state'[running'] = "ready"
    BY OneReturns DEF Ready
  <2>4. QED
    BY <2>1, <2>2, <2>3
<1>7. WaitersParked'
  BY <1>3, <1>4, <1>6 DEF WaitersParked
<1>8. ASSUME NEW t \in Semaphore PROVE Effect(t, {})
  <2>1. ASSUME NEW p \in Granted(t) PROVE p \in Woken(t)
    <3>1. p \in Process \ {Me} /\ waitsFor[p] = t /\ at'[p] = "live"
      BY <1>0, <1>2, <2>1 DEF Granted
    <3>2. QED
      BY <1>0, <1>6, <3>1 DEF Woken, Ready
  <2>2. ASSUME NEW p \in Process PROVE p \in Woken(t)' <=> p \in Woken(t) \ Granted(t)
    <3>1. CASE p = Me
      BY <1>0, <1>2, <3>1 DEF Woken, Ready
    <3>2. CASE p # Me
      BY <1>0, <1>4, <1>6, <3>2 DEF Granted, Woken, Ready
    <3>3. QED
      BY <3>1, <3>2
  <2>3. Woken(t) \subseteq Process /\ Woken(t)' \subseteq Process
    BY DEF Woken
  <2>4. QED
    BY <2>1, <2>2, <2>3 DEF Effect
<1>9. ASSUME NEW t \in Semaphore, NEW p \in Process \ {Me}
      PROVE  p \in Sleeping(t)' <=> p \in Sleeping(t)
  BY <1>0, <1>4, <1>6, <1>9 DEF Sleeping, Ready
<1>10. ASSUME NEW t \in Semaphore
       PROVE  Me \notin Sleeping(t) /\ (Me \in Sleeping(t)' <=> t = s)
              /\ Sleeping(t) \subseteq Process /\ Sleeping(t)' \subseteq Process
  BY <1>0, <1>1, <1>2, <1>3 DEF Sleeping, Ready
<1>11. \A t \in Semaphore \ {s} : Sleeping(t)' = Sleeping(t)
  BY <1>9, <1>10
<1>12. Sleeping(s)' = Sleeping(s) \cup {Me}
  BY <1>1, <1>9, <1>10
<1>13. QED
  BY <1>5, <1>7, <1>8, <1>11, <1>12

-----------------------------------------------------------------------------
(* The accounts *)

\* Woken claimants are linked in the ring, so there are finitely many.
LEMMA WokenFinite ==
  ASSUME Inv, NEW t
  PROVE  IsFiniteSet(Woken(t))
<1>1. ring \in Seq(Process) /\ ToSet(ring) = {p \in Process : Ready(p)}
  BY DEF Inv, TypeOK, SchedulerInv, ReadyRing
<1>2. Woken(t) \in SUBSET ToSet(ring)
  BY <1>1 DEF Woken
<1>3. QED
  BY <1>1, <1>2, ListFinite, FS_Subset

\* Elements that join a finite set and elements that leave it.
LEMMA JoinAndLeave ==
  ASSUME NEW W, IsFiniteSet(W), NEW A, IsFiniteSet(A), W \cap A = {}, NEW G, G \subseteq W \cup A
  PROVE  /\ Cardinality((W \cup A) \ G) = Cardinality(W) + Cardinality(A) - Cardinality(G)
         /\ Cardinality(W) \in Nat /\ Cardinality(A) \in Nat /\ Cardinality(G) \in Nat
<1>1. /\ IsFiniteSet(W \cup A)
      /\ Cardinality(W \cup A) = Cardinality(W) + Cardinality(A) - Cardinality(W \cap A)
  BY FS_Union
<1>2. Cardinality(W \cap A) = 0
  BY FS_EmptySet
<1>3. Cardinality((W \cup A) \ G) = Cardinality(W \cup A) - Cardinality((W \cup A) \cap G)
  BY <1>1, FS_Difference
<1>4. (W \cup A) \cap G = G /\ G \in SUBSET (W \cup A)
  OBVIOUS
<1>5. IsFiniteSet(G)
  BY <1>1, <1>4, FS_Subset
<1>6. Cardinality(W) \in Nat /\ Cardinality(A) \in Nat /\ Cardinality(G) \in Nat
  BY <1>5, FS_CardinalityType
<1>7. Cardinality(W \cup A) = Cardinality(W) + Cardinality(A)
  BY <1>1, <1>2, <1>6
<1>8. Cardinality((W \cup A) \cap G) = Cardinality(G)
  BY <1>4
<1>9. QED
  BY <1>3, <1>6, <1>7, <1>8

\* The account of t is settled if what the call adds to it is what it gives to the
\* count and to the claimants it wakes.
Settled(t, X, d) ==
  InUse(t)' => permits[t] + d = cnt'[t] + Cardinality(Woken(t)) + Cardinality(Sleeping(t) \cap X)

\* Then the accounts stay balanced.
LEMMA Settles ==
  ASSUME CallsInv, Inv', NEW s, NEW d \in Int, Account(s, d), NEW X, IsFiniteSet(X),
         cnt' \in [Semaphore -> Nat], alive' \in [Semaphore -> BOOLEAN],
         \A t \in Semaphore : Effect(t, X),
         \A t \in Semaphore : Settled(t, X, IF t = s THEN d ELSE 0)
  PROVE  permits' \in [Semaphore -> Int] /\ DeadHaveNone' /\ Permits'
<1>1. ASSUME NEW t \in Semaphore
      PROVE  /\ Cardinality(Granted(t)) \in Nat
             /\ Cardinality(Woken(t)) \in Nat /\ Cardinality(Sleeping(t) \cap X) \in Nat
             /\ Cardinality(Woken(t)') =
                  Cardinality(Woken(t)) + Cardinality(Sleeping(t) \cap X) - Cardinality(Granted(t))
  <2>1. IsFiniteSet(Woken(t))
    BY WokenFinite DEF CallsInv, SchedInv
  <2>2. Sleeping(t) \cap X \in SUBSET X
    OBVIOUS
  <2>3. IsFiniteSet(Sleeping(t) \cap X)
    BY <2>2, FS_Subset
  <2>4. Woken(t) \cap (Sleeping(t) \cap X) = {}
    BY DEF Woken, Sleeping
  <2>5. /\ Woken(t)' = (Woken(t) \cup (Sleeping(t) \cap X)) \ Granted(t)
        /\ Granted(t) \subseteq Woken(t) \cup (Sleeping(t) \cap X)
    BY DEF Effect
  <2> DEFINE W == Woken(t)
             A == Sleeping(t) \cap X
             G == Granted(t)
  <2> HIDE DEF W, A, G
  <2>6. IsFiniteSet(W) /\ IsFiniteSet(A) /\ W \cap A = {} /\ G \subseteq W \cup A
    BY <2>1, <2>3, <2>4, <2>5 DEF W, A, G
  <2>7. /\ Cardinality((W \cup A) \ G) = Cardinality(W) + Cardinality(A) - Cardinality(G)
        /\ Cardinality(W) \in Nat /\ Cardinality(A) \in Nat /\ Cardinality(G) \in Nat
    BY <2>6, JoinAndLeave
  <2>8. Woken(t)' = (W \cup A) \ G
    BY <2>5 DEF W, A, G
  <2>9. Cardinality(Woken(t)') = Cardinality(W) + Cardinality(A) - Cardinality(G)
    BY <2>7, <2>8
  <2>10. QED
    BY <2>7, <2>9 DEF W, A, G
<1>2. permits \in [Semaphore -> Int]
  BY DEF CallsInv, SemTypeOK
<1>3. ASSUME NEW t \in Semaphore
      PROVE  /\ permits'[t] \in Int
             /\ ~alive'[t] => permits'[t] = 0
             /\ InUse(t)' => permits'[t] = permits[t] + (IF t = s THEN d ELSE 0) - Cardinality(Granted(t))
  <2>1. permits'[t] = IF \E p \in Process : destroys'[p] = t THEN 0
                      ELSE IF ~alive'[t] THEN 0
                      ELSE permits[t] + (IF t = s THEN d ELSE 0) - Cardinality(Granted(t))
    BY DEF Account
  <2> DEFINE g == Cardinality(Granted(t))
             u == InUse(t)'
  <2>2. permits[t] \in Int /\ g \in Nat
    BY <1>1, <1>2
  <2>3. u => alive'[t] /\ ~ \E p \in Process : destroys'[p] = t
    BY DEF InUse
  <2> HIDE DEF g, u
  <2>4. permits'[t] = IF \E p \in Process : destroys'[p] = t THEN 0
                      ELSE IF ~alive'[t] THEN 0
                      ELSE permits[t] + (IF t = s THEN d ELSE 0) - g
    BY <2>1 DEF g
  <2>5. /\ permits'[t] \in Int
        /\ ~alive'[t] => permits'[t] = 0
        /\ u => permits'[t] = permits[t] + (IF t = s THEN d ELSE 0) - g
    BY <2>2, <2>3, <2>4
  <2>6. QED
    BY <2>5 DEF g, u
<1>4. permits' \in [Semaphore -> Int]
  <2>1. \E f : permits' = [t \in Semaphore |-> f[t]]
    <3>1. permits' = [t \in Semaphore |-> permits'[t]]
      BY DEF Account
    <3>2. QED
      BY <3>1
  <2>2. QED
    BY <1>3, <2>1
<1>5. DeadHaveNone'
  BY <1>3 DEF DeadHaveNone
<1>6. ASSUME NEW t \in Semaphore, InUse(t)' PROVE Balanced(t)'
  <2>1. permits[t] + (IF t = s THEN d ELSE 0)
          = cnt'[t] + Cardinality(Woken(t)) + Cardinality(Sleeping(t) \cap X)
    BY <1>6 DEF Settled
  <2>2. cnt'[t] \in Nat /\ permits[t] \in Int
    BY <1>2
  <2>3. permits'[t] = cnt'[t] + Cardinality(Woken(t)')
    BY <1>1, <1>3, <1>6, <2>1, <2>2
  <2>4. QED
    BY <2>3 DEF Balanced
<1>7. Permits'
  BY <1>6 DEF Permits
<1>8. QED
  BY <1>4, <1>5, <1>7

-----------------------------------------------------------------------------
(* The calls *)

\* The first item of a list belongs to a claimant that sleeps and can be activated.
LEMMA HeadSleeps ==
  ASSUME CallsInv, NEW s \in Semaphore, lst[s] # <<>>
  PROVE  /\ Head(lst[s]) \in Process /\ Head(lst[s]) \in Sleeping(s)
         /\ waitsFor[Head(lst[s])] = s /\ at[Head(lst[s])] = "call"
         /\ state[Head(lst[s])] = "passive" /\ Activatable(Head(lst[s]))
         /\ Tail(lst[s]) \in Seq(Process) /\ IsInjective(Tail(lst[s]))
         /\ ToSet(Tail(lst[s])) = Sleeping(s) \ {Head(lst[s])}
         /\ cnt[s] = 0
<1>1. /\ lst[s] \in Seq(Process) /\ IsInjective(lst[s]) /\ ToSet(lst[s]) = Sleeping(s)
      /\ cnt[s] = 0
  BY DEF CallsInv, SemTypeOK, Queues, QueueOf
<1>2. /\ Head(lst[s]) \in Process /\ Head(lst[s]) \in Sleeping(s)
      /\ Tail(lst[s]) \in Seq(Process) /\ IsInjective(Tail(lst[s]))
      /\ ToSet(Tail(lst[s])) = Sleeping(s) \ {Head(lst[s])}
  BY <1>1, HeadMember, TailShape
<1>3. waitsFor[Head(lst[s])] = s /\ state[Head(lst[s])] # "ready" /\ s # Nil
  BY <1>2, SemaphoreAssumption DEF Sleeping, Ready
<1>4. at[Head(lst[s])] = "call" /\ state[Head(lst[s])] = "passive"
  BY <1>2, <1>3 DEF CallsInv, WaitersParked
<1>5. QED
  BY <1>1, <1>2, <1>3, <1>4 DEF Activatable

\* So waking it is a call of Activate.
LEMMA WakeActivates ==
  ASSUME CallsInv, NEW s \in Semaphore, lst[s] # <<>>, WakeFirst(s)
  PROVE  Activate(Head(lst[s])) /\ lst' = [lst EXCEPT ![s] = Tail(@)]
<1>1. waitsFor[Head(lst[s])] = s /\ Activatable(Head(lst[s]))
  BY HeadSleeps
<1>2. QED
  BY <1>1 DEF WakeFirst, Wake

\* Every call of a semaphore is one of the scheduler, or none.
LEMMA SemStepIsStep ==
  ASSUME Obligations, CallsInv, SemNext
  PROVE  [Next]_vars
<1>1. CASE Scheduling
  BY <1>1 DEF Scheduling, Next
<1>2. ASSUME NEW s \in Semaphore, lst[s] # <<>>, WakeFirst(s) PROVE Next
  BY <1>2, WakeActivates, HeadSleeps DEF Next
<1>3. ASSUME NEW s \in Semaphore,
             \/ \E n \in 0..MaxCount : SemCreate(s, n)
             \/ Claim(s) \/ CondClaim(s) \/ Release(s) \/ Destroy(s)
      PROVE  [Next]_vars
  <2>1. CASE \E n \in 0..MaxCount : SemCreate(s, n)
    BY <2>1 DEF SemCreate
  <2>2. CASE Claim(s)
    BY <2>2 DEF Claim, TakePermit, ClaimWait, Next
  <2>3. CASE CondClaim(s)
    BY <2>3 DEF CondClaim, TakePermit
  <2>4. CASE Release(s)
    BY <1>2, <2>4 DEF Release
  <2>5. CASE Destroy(s)
    <3>1. CASE lst[s] = <<>>
      BY <2>5, <3>1 DEF Destroy
    <3>2. CASE lst[s] # <<>>
      BY <1>2, <2>5, <3>2, HeadSleeps DEF Destroy
    <3>3. QED
      BY <3>1, <3>2
  <2>6. QED
    BY <1>3, <2>1, <2>2, <2>3, <2>4, <2>5
<1>4. QED
  BY <1>1, <1>3 DEF SemNext

\* Activate makes a sleeper ready, on its own stack.
LEMMA ActivateWakes ==
  ASSUME CallsInv, SchedInv', NEW h \in Process, Activate(h), at[h] = "call",
         state[h] = "passive"
  PROVE  Wakes({h}) /\ Stays({h}) /\ Running
<1>1. /\ Running
      /\ GoNext("call", TieRing(ring, h), TieState(state, h), TieBody(ring, body),
                TieInfo(h), corpse)
  BY DEF Activate, Checked, SchedInv, UrgencyInv
<1>2. h # corpse /\ h # running
  BY <1>1 DEF CallsInv, SchedInv, Inv, SchedulerInv
<1>3. /\ state \in [Process -> {"none", "passive", "waiting", "ready", "freed"}]
      /\ at \in [Process -> {"fresh", "live", "call", "switch", "stopped"}]
  BY DEF CallsInv, SchedInv, Inv, TypeOK
<1>4. /\ TieState(state, h)[h] = "ready"
      /\ TieState(state, h) \in [Process -> {"none", "passive", "waiting", "ready", "freed"}]
  BY <1>3 DEF TieState
<1>5. state'[h] = "ready" /\ (at'[h] = "call" \/ (at'[h] = "live" /\ h = running' /\ Running'))
  <2>1. CASE TieRing(ring, h) = <<>>
    <3>1. state' = TieState(state, h) /\ at' = [at EXCEPT ![running] = "call"]
      BY <1>1, <2>1 DEF GoNext
    <3>2. QED
      BY <1>2, <1>3, <1>4, <3>1
  <2>2. CASE TieRing(ring, h) # <<>>
    <3>1. /\ state' = TieState(state, h) \/ state' = [TieState(state, h) EXCEPT ![corpse] = "freed"]
          /\ at' = [[at EXCEPT ![running] = "call"] EXCEPT ![running'] = "live"]
          /\ outcome' = outcome \/ outcome' = "crash"
      BY <1>1, <2>2 DEF GoNext
    <3>2. Running'
      BY <1>1, <3>1 DEF Running, SchedInv, Inv, SchedulerInv
    <3>3. state'[h] = "ready"
      BY <1>2, <1>4, <3>1
    <3>4. at'[h] = IF h = running' THEN "live" ELSE "call"
      BY <1>2, <1>3, <3>1
    <3>5. QED
      BY <3>2, <3>3, <3>4
  <2>3. QED
    BY <2>1, <2>2
<1>6. Stays({h})
  <2>1. \A q \in Process \ ({h} \cup {Me}) : TieState(state, h)[q] = state[q]
    BY <1>3 DEF TieState
  <2>2. TieState(state, h) \in [Process -> {"none", "passive", "waiting", "ready", "freed"}]
    BY <1>3 DEF TieState
  <2>3. TieBody(ring, body) = body
    BY <1>1, CallerIsCurrent DEF CallsInv, SchedInv, Inv
  <2>4. Inv /\ Inv'
    BY DEF CallsInv, SchedInv
  <2>5. QED
    BY <1>1, <2>1, <2>2, <2>3, <2>4, GoNextStays
<1>7. QED
  BY <1>1, <1>5, <1>6 DEF Wakes

\* A call that takes no time lets nobody return.
LEMMA NobodyReturns ==
  ASSUME CallsInv, UNCHANGED vars, UNCHANGED waitsFor
  PROVE  ClaimsReturn /\ Wakes({}) /\ Stays({})
<1>1. waitsFor \in [Process -> Semaphore \cup {Nil}]
  BY DEF CallsInv, SemTypeOK
<1>2. UNCHANGED <<at, state>>
  BY DEF vars
<1>3. \A p \in Process : at'[p] = "live" => waitsFor[p] = Nil
  BY <1>2 DEF CallsInv, WaitersParked
<1>4. ClaimsReturn
  BY <1>1, <1>3 DEF ClaimsReturn
<1>5. Wakes({}) /\ Stays({})
  BY <1>2 DEF Wakes, Stays
<1>6. QED
  BY <1>4, <1>5

\* A list that keeps its items, with the same sleepers.
LEMMA SameQueue ==
  ASSUME CallsInv, NEW t \in Semaphore, lst'[t] = lst[t], Sleeping(t)' = Sleeping(t),
         cnt'[t] = cnt[t] \/ lst[t] = <<>>
  PROVE  QueueOf(t)'
<1>1. IsInjective(lst[t]) /\ ToSet(lst[t]) = Sleeping(t) /\ (lst[t] # <<>> => cnt[t] = 0)
  BY DEF CallsInv, Queues, QueueOf
<1>2. IsInjective(lst'[t]) /\ ToSet(lst'[t]) = Sleeping(t)' /\ (lst'[t] # <<>> => cnt'[t] = 0)
  BY <1>1
<1>3. QED
  BY <1>2 DEF QueueOf

\* Somebody uses t after the call as he did before.
LEMMA StillBalanced ==
  ASSUME CallsInv, Running, NEW t \in Semaphore, InUse(t)
  PROVE  permits[t] = cnt[t] + Cardinality(Woken(t)) /\ Cardinality(Woken(t)) \in Nat
         /\ cnt[t] \in Nat /\ permits[t] \in Int
<1>1. Balanced(t)
  BY DEF CallsInv, Permits
<1>2. IsFiniteSet(Woken(t))
  BY WokenFinite DEF CallsInv, SchedInv
<1>3. Cardinality(Woken(t)) \in Nat
  BY <1>2, FS_CardinalityType
<1>4. cnt[t] \in Nat /\ permits[t] \in Int
  BY DEF CallsInv, SemTypeOK
<1>5. QED
  BY <1>1, <1>3, <1>4 DEF Balanced

\* What a call that wakes the processes of X, or nobody, has to show.
QueuesFollow(X) == \A t \in Semaphore : Sleeping(t)' = Sleeping(t) \ X => QueueOf(t)'
AllSettled(X, s, d) == \A t \in Semaphore : Settled(t, X, IF t = s THEN d ELSE 0)
FieldsTyped ==
  /\ alive' \in [Semaphore -> BOOLEAN]
  /\ cnt' \in [Semaphore -> Nat]
  /\ lst' \in [Semaphore -> Seq(Process)]
  /\ destroys' \in [Process -> Semaphore \cup {Nil}]

\* Then the invariant holds again.
LEMMA CallKeeps ==
  ASSUME CallsInv, SchedInv', NEW X, IsFiniteSet(X), Wakes(X), Stays(X), ClaimsReturn,
         NEW s, NEW d \in Int, Account(s, d),
         FieldsTyped, QueuesFollow(X), AllSettled(X, s, d)
  PROVE  CallsInv'
<1>1. Inv'
  BY DEF SchedInv
<1>2. /\ WaitersParked'
      /\ waitsFor' \in [Process -> Semaphore \cup {Nil}]
      /\ \A t \in Semaphore : Effect(t, X) /\ Sleeping(t)' = Sleeping(t) \ X
  BY <1>1, WakeEffect
<1>3. Queues'
  BY <1>2 DEF Queues, QueuesFollow
<1>4. permits' \in [Semaphore -> Int] /\ DeadHaveNone' /\ Permits'
  <2>1. \A t \in Semaphore : Settled(t, X, IF t = s THEN d ELSE 0)
    BY DEF AllSettled
  <2>2. alive' \in [Semaphore -> BOOLEAN] /\ cnt' \in [Semaphore -> Nat]
    BY DEF FieldsTyped
  <2>3. \A t \in Semaphore : Effect(t, X)
    BY <1>2
  <2>4. QED
    BY <1>1, <2>1, <2>2, <2>3, Settles
<1>5. SemTypeOK'
  BY <1>2, <1>4 DEF SemTypeOK, FieldsTyped
<1>6. QED
  BY <1>2, <1>3, <1>4, <1>5 DEF CallsInv

\* The operations of the scheduler name only processes that wait for no semaphore.
WakesNobody ==
  \E X : /\ IsFiniteSet(X) /\ Stays(X)
         /\ \A q \in X : q \in Process /\ waitsFor[q] = Nil

\* Nobody whom they name waits.
LEMMA SchedulingWakesNobody ==
  ASSUME Obligations, CallsInv, SchedInv', Scheduling
  PROVE  WakesNobody
<1>1. /\ Inv /\ Inv' /\ outcome' # "assert" /\ FreeHandOff = FALSE
  BY DEF CallsInv, SchedInv, UrgencyInv, Obligations
<1>2. ASSUME NEW p \in Process, Create(p) \/ Start(p) PROVE waitsFor[p] = Nil
  BY <1>2 DEF Create, Start, CallsInv, WaitersParked
<1>3. ASSUME NEW X, IsFiniteSet(X), Stays(X), \A q \in X : q \in Process /\ waitsFor[q] = Nil
      PROVE  WakesNobody
  BY <1>3 DEF WakesNobody
<1>4. ASSUME NEW p \in Process, waitsFor[p] = Nil, Stays({p}) PROVE WakesNobody
  <2>1. IsFiniteSet({p})
    BY FS_Singleton
  <2>2. QED
    BY <1>3, <1>4, <2>1
<1>5. ASSUME Stays({}) PROVE WakesNobody
  BY <1>3, <1>5, FS_EmptySet
<1>6. QED
  BY <1>1, <1>2, <1>4, <1>5, NextStays DEF Scheduling

\* They leave the semaphores alone, and claimants that run take their permits.
LEMMA SchedulingKeeps ==
  ASSUME Obligations, CallsInv, SchedInv', Scheduling
  PROVE  CallsInv'
<1>1. /\ Running /\ ClaimsReturn /\ Account(Nil, 0) /\ UNCHANGED <<alive, cnt, lst, destroys>>
  BY DEF Scheduling, Free
<1>2. WakesNobody
  BY SchedulingWakesNobody
<1> PICK X : /\ IsFiniteSet(X) /\ Stays(X)
             /\ \A q \in X : q \in Process /\ waitsFor[q] = Nil
  BY <1>2 DEF WakesNobody
<1>3. Wakes(X)
  BY DEF Wakes
<1>4. \A t \in Semaphore : Sleeping(t) \cap X = {}
  BY SemaphoreAssumption DEF Sleeping
<1>5. ASSUME NEW t \in Semaphore, Sleeping(t)' = Sleeping(t) \ X PROVE QueueOf(t)'
  BY <1>1, <1>4, <1>5, SameQueue
<1>6. ASSUME NEW t \in Semaphore PROVE Settled(t, X, IF t = Nil THEN 0 ELSE 0)
  <2>1. InUse(t)' => InUse(t)
    BY <1>1 DEF InUse
  <2>2. Cardinality(Sleeping(t) \cap X) = 0
    BY <1>4, FS_EmptySet
  <2>3. QED
    BY <1>1, <2>1, <2>2, StillBalanced DEF Settled
<1>7. FieldsTyped
  BY <1>1 DEF CallsInv, SemTypeOK, FieldsTyped
<1>8. QueuesFollow(X)
  BY <1>5 DEF QueuesFollow
<1>9. AllSettled(X, Nil, 0)
  BY <1>6 DEF AllSettled
<1>10. QED
  BY <1>1, <1>3, <1>7, <1>8, <1>9, CallKeeps

\* A new semaphore has what it is created with, and no claimants.
LEMMA CreateKeeps ==
  ASSUME CallsInv, SchedInv', NEW s \in Semaphore, NEW n \in 0..MaxCount, SemCreate(s, n)
  PROVE  CallsInv'
<1>1. /\ ~alive[s] /\ UNCHANGED vars /\ UNCHANGED <<waitsFor, destroys>> /\ Account(s, n)
      /\ \A p \in Process : waitsFor[p] # s
      /\ alive' = [alive EXCEPT ![s] = TRUE]
      /\ cnt' = [cnt EXCEPT ![s] = n]
      /\ lst' = [lst EXCEPT ![s] = <<>>]
      /\ Running
  BY DEF SemCreate, Free
<1>2. ClaimsReturn /\ Wakes({}) /\ Stays({}) /\ IsFiniteSet({}) /\ n \in Nat
  BY <1>1, NobodyReturns, FS_EmptySet, SemaphoreAssumption
<1>3. SemTypeOK
  BY DEF CallsInv
<1>4. FieldsTyped
  BY <1>1, <1>2, <1>3 DEF SemTypeOK, FieldsTyped
<1>5. Sleeping(s) = {} /\ Woken(s) = {}
  BY <1>1 DEF Sleeping, Woken
<1>6. ASSUME NEW t \in Semaphore, Sleeping(t)' = Sleeping(t) \ {} PROVE QueueOf(t)'
  <2>1. CASE t = s
    <3>1. lst'[s] = <<>> /\ Sleeping(s)' = {}
      BY <1>1, <1>3, <1>5, <1>6, <2>1 DEF SemTypeOK
    <3>2. IsInjective(<<>>) /\ ToSet(<<>>) = {}
      BY DEF IsInjective, ToSet
    <3>3. QueueOf(s)'
      BY <3>1, <3>2 DEF QueueOf
    <3>4. QED
      BY <2>1, <3>3
  <2>2. CASE t # s
    BY <1>1, <1>3, <1>6, <2>2, SameQueue DEF SemTypeOK
  <2>3. QED
    BY <2>1, <2>2
<1>7. ASSUME NEW t \in Semaphore PROVE Settled(t, {}, IF t = s THEN n ELSE 0)
  <2>1. Cardinality(Sleeping(t) \cap {}) = 0
    BY FS_EmptySet
  <2>2. CASE t = s
    <3>1. permits[s] = 0 /\ Cardinality(Woken(s)) = 0 /\ cnt'[s] = n
      BY <1>1, <1>3, <1>5, FS_EmptySet DEF CallsInv, DeadHaveNone, SemTypeOK
    <3>2. QED
      BY <1>2, <2>1, <2>2, <3>1 DEF Settled
  <2>3. CASE t # s
    <3>1. cnt'[t] = cnt[t] /\ (InUse(t)' => InUse(t))
      BY <1>1, <1>3, <2>3 DEF SemTypeOK, InUse
    <3>2. QED
      BY <1>1, <2>1, <2>3, <3>1, StillBalanced DEF Settled
  <2>4. QED
    BY <2>2, <2>3
<1>8. QueuesFollow({})
  BY <1>6 DEF QueuesFollow
<1>9. AllSettled({}, s, n)
  BY <1>7 DEF AllSettled
<1>10. QED
  BY <1>1, <1>2, <1>4, <1>8, <1>9, CallKeeps

\* A permit is taken without waiting.
LEMMA TakeKeeps ==
  ASSUME CallsInv, SchedInv', NEW s \in Semaphore, Running, TakePermit(s)
  PROVE  CallsInv'
<1>1. /\ cnt[s] > 0 /\ UNCHANGED vars /\ UNCHANGED <<alive, lst, waitsFor, destroys>>
      /\ Account(s, -1) /\ cnt' = [cnt EXCEPT ![s] = @ - 1]
  BY DEF TakePermit
<1>2. ClaimsReturn /\ Wakes({}) /\ Stays({}) /\ IsFiniteSet({})
  BY <1>1, NobodyReturns, FS_EmptySet
<1>3. SemTypeOK
  BY DEF CallsInv
<1>4. FieldsTyped
  BY <1>1, <1>3 DEF SemTypeOK, FieldsTyped
<1>5. lst[s] = <<>>
  BY <1>1 DEF CallsInv, Queues, QueueOf
<1>6. ASSUME NEW t \in Semaphore, Sleeping(t)' = Sleeping(t) \ {} PROVE QueueOf(t)'
  <2>1. cnt'[t] = cnt[t] \/ lst[t] = <<>>
    BY <1>1, <1>3, <1>5 DEF SemTypeOK
  <2>2. QED
    BY <1>1, <1>6, <2>1, SameQueue
<1>7. ASSUME NEW t \in Semaphore PROVE Settled(t, {}, IF t = s THEN -1 ELSE 0)
  <2>1. Cardinality(Sleeping(t) \cap {}) = 0
    BY FS_EmptySet
  <2>2. InUse(t)' => InUse(t)
    BY <1>1 DEF InUse
  <2>3. cnt'[t] = cnt[t] + (IF t = s THEN -1 ELSE 0)
    BY <1>1, <1>3 DEF SemTypeOK
  <2>4. QED
    BY <2>1, <2>2, <2>3, StillBalanced DEF Settled
<1>8. QueuesFollow({})
  BY <1>6 DEF QueuesFollow
<1>9. AllSettled({}, s, -1)
  BY <1>7 DEF AllSettled
<1>10. QED
  BY <1>1, <1>2, <1>4, <1>8, <1>9, CallKeeps

\* Release and a turn of Destroy: the first claimant is woken.
LEMMA WakeKeeps ==
  ASSUME CallsInv, SchedInv', NEW s \in Semaphore, lst[s] # <<>>, WakeFirst(s), ClaimsReturn,
         UNCHANGED <<alive, cnt>>, destroys' \in [Process -> Semaphore \cup {Nil}],
         NEW d \in Int, Account(s, d),
         \A t \in Semaphore : InUse(t)' => InUse(t) /\ (t = s => d = 1)
  PROVE  CallsInv'
<1> PICK h : h = Head(lst[s])
  OBVIOUS
<1>1. /\ h \in Process /\ h \in Sleeping(s) /\ waitsFor[h] = s
      /\ at[h] = "call" /\ state[h] = "passive"
      /\ Tail(lst[s]) \in Seq(Process) /\ IsInjective(Tail(lst[s]))
      /\ ToSet(Tail(lst[s])) = Sleeping(s) \ {h}
      /\ cnt[s] = 0
  BY HeadSleeps
<1>2. Activate(h) /\ lst' = [lst EXCEPT ![s] = Tail(@)]
  BY WakeActivates
<1>3. Wakes({h}) /\ Stays({h}) /\ Running
  BY <1>1, <1>2, ActivateWakes
<1>4. IsFiniteSet({h}) /\ Cardinality({h}) = 1
  BY FS_Singleton
<1>5. SemTypeOK
  BY DEF CallsInv
<1>6. FieldsTyped
  BY <1>1, <1>2, <1>5 DEF SemTypeOK, FieldsTyped
<1>7. ASSUME NEW t \in Semaphore, Sleeping(t)' = Sleeping(t) \ {h} PROVE QueueOf(t)'
  <2>1. CASE t = s
    <3>1. lst'[s] = Tail(lst[s]) /\ cnt'[s] = 0
      BY <1>1, <1>2, <1>5 DEF SemTypeOK
    <3>2. Sleeping(s)' = Sleeping(s) \ {h}
      BY <1>7, <2>1
    <3>3. QueueOf(s)'
      BY <1>1, <3>1, <3>2 DEF QueueOf
    <3>4. QED
      BY <2>1, <3>3
  <2>2. CASE t # s
    <3>1. h \notin Sleeping(t)
      BY <1>1, <2>2 DEF Sleeping
    <3>2. Sleeping(t)' = Sleeping(t)
      BY <1>7, <3>1
    <3>3. lst'[t] = lst[t] /\ cnt'[t] = cnt[t]
      BY <1>2, <1>5, <2>2 DEF SemTypeOK
    <3>4. QED
      BY <3>2, <3>3, SameQueue
  <2>3. QED
    BY <2>1, <2>2
<1>8. QueuesFollow({h})
  BY <1>7 DEF QueuesFollow
<1>9. ASSUME NEW t \in Semaphore PROVE Settled(t, {h}, IF t = s THEN d ELSE 0)
  <2>1. CASE t = s
    <3>1. Sleeping(s) \cap {h} = {h}
      BY <1>1
    <3>2. Cardinality(Sleeping(t) \cap {h}) = 1
      BY <1>4, <2>1, <3>1
    <3>3. QED
      BY <1>3, <2>1, <3>2, StillBalanced DEF Settled
  <2>2. CASE t # s
    <3>1. Sleeping(t) \cap {h} = {}
      BY <1>1, <2>2 DEF Sleeping
    <3>2. Cardinality(Sleeping(t) \cap {h}) = 0
      BY <3>1, FS_EmptySet
    <3>3. QED
      BY <1>3, <2>2, <3>2, StillBalanced DEF Settled
  <2>3. QED
    BY <2>1, <2>2
<1>10. AllSettled({h}, s, d)
  BY <1>9 DEF AllSettled
<1>11. QED
  BY <1>3, <1>4, <1>6, <1>8, <1>10, CallKeeps

\* Release wakes a claimant, or increments the count.
LEMMA ReleaseKeeps ==
  ASSUME CallsInv, SchedInv', NEW s \in Semaphore, Release(s)
  PROVE  CallsInv'
<1>1. Running /\ UNCHANGED <<alive, destroys>> /\ Account(s, 1)
  BY DEF Release, Free
<1>2. SemTypeOK
  BY DEF CallsInv
<1>3. ASSUME NEW t \in Semaphore PROVE InUse(t)' => InUse(t)
  BY <1>1 DEF InUse
<1>4. CASE lst[s] # <<>>
  <2>1. WakeFirst(s) /\ ClaimsReturn /\ UNCHANGED cnt
    BY <1>4 DEF Release
  <2>2. destroys' \in [Process -> Semaphore \cup {Nil}]
    BY <1>1, <1>2 DEF SemTypeOK
  <2>3. QED
    BY <1>1, <1>3, <1>4, <2>1, <2>2, WakeKeeps
<1>5. CASE lst[s] = <<>>
  <2>1. cnt' = [cnt EXCEPT ![s] = @ + 1] /\ UNCHANGED <<lst, waitsFor>> /\ UNCHANGED vars
    BY <1>5 DEF Release
  <2>2. ClaimsReturn /\ Wakes({}) /\ Stays({}) /\ IsFiniteSet({})
    BY <2>1, NobodyReturns, FS_EmptySet
  <2>3. FieldsTyped
    BY <1>1, <1>2, <2>1 DEF SemTypeOK, FieldsTyped
  <2>4. ASSUME NEW t \in Semaphore, Sleeping(t)' = Sleeping(t) \ {} PROVE QueueOf(t)'
    <3>1. cnt'[t] = cnt[t] \/ lst[t] = <<>>
      BY <1>2, <1>5, <2>1 DEF SemTypeOK
    <3>2. QED
      BY <2>1, <2>4, <3>1, SameQueue
  <2>5. ASSUME NEW t \in Semaphore PROVE Settled(t, {}, IF t = s THEN 1 ELSE 0)
    <3>1. Cardinality(Sleeping(t) \cap {}) = 0
      BY FS_EmptySet
    <3>2. cnt'[t] = cnt[t] + (IF t = s THEN 1 ELSE 0)
      BY <1>2, <2>1 DEF SemTypeOK
    <3>3. QED
      BY <1>1, <1>3, <3>1, <3>2, StillBalanced DEF Settled
  <2>6. QueuesFollow({}) /\ AllSettled({}, s, 1)
    BY <2>4, <2>5 DEF QueuesFollow, AllSettled
  <2>7. QED
    BY <1>1, <2>2, <2>3, <2>6, CallKeeps
<1>6. QED
  BY <1>4, <1>5

\* A turn of Destroy, or its end.
LEMMA DestroyKeeps ==
  ASSUME CallsInv, SchedInv', NEW s \in Semaphore, Destroy(s)
  PROVE  CallsInv'
<1>1. /\ Running /\ UNCHANGED cnt /\ Account(s, 0) /\ destroys[running] \in {Nil, s}
      /\ running \in Process
  BY DEF Destroy, CallsInv, SchedInv, Inv, TypeOK
<1>2. SemTypeOK
  BY DEF CallsInv
<1>3. CASE lst[s] # <<>>
  <2>1. WakeFirst(s) /\ ClaimsReturn /\ UNCHANGED alive /\ destroys' = [destroys EXCEPT ![running] = s]
    BY <1>3, HeadSleeps DEF Destroy
  <2>2. destroys' \in [Process -> Semaphore \cup {Nil}]
    BY <1>2, <2>1 DEF SemTypeOK
  <2>3. ASSUME NEW t \in Semaphore PROVE InUse(t)' => InUse(t) /\ t # s
    <3>1. \A p \in Process : destroys'[p] = IF p = running THEN s ELSE destroys[p]
      BY <1>2, <2>1 DEF SemTypeOK
    <3>2. QED
      BY <1>1, <2>1, <3>1, SemaphoreAssumption DEF InUse
  <2>4. QED
    BY <1>1, <1>3, <2>1, <2>2, <2>3, WakeKeeps
<1>4. CASE lst[s] = <<>>
  <2>1. /\ alive' = [alive EXCEPT ![s] = FALSE] /\ destroys' = [destroys EXCEPT ![running] = Nil]
        /\ UNCHANGED <<lst, waitsFor>> /\ UNCHANGED vars
    BY <1>4 DEF Destroy
  <2>2. ClaimsReturn /\ Wakes({}) /\ Stays({}) /\ IsFiniteSet({})
    BY <2>1, NobodyReturns, FS_EmptySet
  <2>3. FieldsTyped
    BY <1>1, <1>2, <2>1 DEF SemTypeOK, FieldsTyped
  <2>4. ASSUME NEW t \in Semaphore, Sleeping(t)' = Sleeping(t) \ {} PROVE QueueOf(t)'
    BY <1>1, <2>1, <2>4, SameQueue
  <2>5. ASSUME NEW t \in Semaphore PROVE Settled(t, {}, IF t = s THEN 0 ELSE 0)
    <3>1. Cardinality(Sleeping(t) \cap {}) = 0
      BY FS_EmptySet
    <3>2. \A p \in Process : destroys'[p] = IF p = running THEN Nil ELSE destroys[p]
      BY <1>2, <2>1 DEF SemTypeOK
    <3>3. alive'[t] = (t # s /\ alive[t])
      BY <1>2, <2>1 DEF SemTypeOK
    <3>4. InUse(t)' => InUse(t)
      BY <1>1, <3>2, <3>3 DEF InUse
    <3>5. QED
      BY <1>1, <3>1, <3>4, StillBalanced DEF Settled
  <2>6. QueuesFollow({}) /\ AllSettled({}, s, 0)
    BY <2>4, <2>5 DEF QueuesFollow, AllSettled
  <2>7. QED
    BY <1>1, <2>2, <2>3, <2>6, CallKeeps
<1>5. QED
  BY <1>3, <1>4

\* A claimant that finds no permit is suspended, as the program does not get passive.
LEMMA ClaimParks ==
  ASSUME Obligations, CallsInv, SchedInv', NEW s \in Semaphore, Running, ClaimWait(s)
  PROVE  Stays({}) /\ at'[Me] = "call" /\ state'[Me] = "passive"
<1>1. Len(ring) > 1 \/ hcnt > 0
  BY DEF ClaimWait, Obligations
<1>2. GoNext("call", UnTieRing(ring), UnTieState("passive"), UnTieBody, info, corpse)
  <2>1. ~(Len(ring) = 1 /\ hcnt = 0)
    <3>1. ring \in Seq(Process) /\ hcnt \in Nat
      BY DEF CallsInv, SchedInv, Inv, TypeOK
    <3>2. PICK n : n = Len(ring)
      OBVIOUS
    <3>3. n \in Nat /\ hcnt \in Nat /\ (n > 1 \/ hcnt > 0)
      BY <1>1, <3>1, <3>2
    <3>4. ~(n = 1 /\ hcnt = 0)
      BY <3>3
    <3>5. QED
      BY <3>2, <3>4
  <2>2. QED
    BY <2>1 DEF ClaimWait, SuspendMe
<1>3. Inv /\ Inv' /\ outcome' # "assert" /\ FreeHandOff = FALSE
  BY DEF CallsInv, SchedInv, UrgencyInv, Obligations
<1>4. Stays({})
  BY <1>3, NextStays DEF ClaimWait
<1>5. /\ Me = running /\ Me \in Process /\ Me # corpse
      /\ state \in [Process -> {"none", "passive", "waiting", "ready", "freed"}]
      /\ at \in [Process -> {"fresh", "live", "call", "switch", "stopped"}]
  BY <1>3, CallerIsCurrent DEF Inv, TypeOK
<1>6. /\ UnTieState("passive")[Me] = "passive"
      /\ UnTieState("passive") \in [Process -> {"none", "passive", "waiting", "ready", "freed"}]
  BY <1>5 DEF UnTieState
<1>7. CASE UnTieRing(ring) = <<>>
  <2>1. state' = UnTieState("passive") /\ at' = [at EXCEPT ![running] = "call"]
    BY <1>2, <1>7 DEF GoNext
  <2>2. QED
    BY <1>4, <1>5, <1>6, <2>1
<1>8. CASE UnTieRing(ring) # <<>>
  <2>1. /\ state' = UnTieState("passive") \/ state' = [UnTieState("passive") EXCEPT ![corpse] = "freed"]
        /\ at' = [[at EXCEPT ![running] = "call"] EXCEPT ![running'] = "live"]
        /\ outcome' = outcome \/ outcome' = "crash"
    BY <1>2, <1>8 DEF GoNext
  <2>2. Running'
    BY <1>3, <2>1 DEF Running, Inv, SchedulerInv
  <2>3. state'[Me] = "passive"
    BY <1>5, <1>6, <2>1
  <2>4. state'[running'] = "ready"
    BY <1>3, <2>2, OneReturns DEF Ready
  <2>5. running' # Me
    BY <2>3, <2>4
  <2>6. at'[Me] = "call"
    BY <1>5, <2>1, <2>5
  <2>7. QED
    BY <1>4, <2>3, <2>6
<1>9. QED
  BY <1>7, <1>8

\* So his item joins the list as he joins the sleepers.
LEMMA ClaimWaitKeeps ==
  ASSUME Obligations, CallsInv, SchedInv', NEW s \in Semaphore, Running, ClaimWait(s)
  PROVE  CallsInv'
<1>1. /\ cnt[s] = 0 /\ lst' = [lst EXCEPT ![s] = Append(@, Me)]
      /\ waitsFor' = [p \in Process |-> IF at'[p] = "live" THEN Nil
                                        ELSE IF p = running THEN s ELSE waitsFor[p]]
      /\ UNCHANGED <<alive, cnt, destroys>> /\ Account(s, 0)
  BY DEF ClaimWait
<1>2. Inv /\ Inv' /\ SemTypeOK
  BY DEF CallsInv, SchedInv
<1>3. Stays({}) /\ at'[Me] = "call" /\ state'[Me] = "passive"
  BY ClaimParks
<1>4. /\ WaitersParked'
      /\ waitsFor' \in [Process -> Semaphore \cup {Nil}]
      /\ \A t \in Semaphore : Effect(t, {})
      /\ \A t \in Semaphore \ {s} : Sleeping(t)' = Sleeping(t)
      /\ Sleeping(s)' = Sleeping(s) \cup {Me}
  BY <1>1, <1>2, <1>3, ClaimEffect
<1>5. Me \in Process /\ state[Me] = "ready"
  BY <1>2, CallerIsCurrent DEF Inv
<1>6. QueueOf(s)'
  <2>1. lst[s] \in Seq(Process) /\ lst'[s] = Append(lst[s], Me) /\ cnt'[s] = 0
    BY <1>1, <1>2 DEF SemTypeOK
  <2>2. IsInjective(lst[s]) /\ ToSet(lst[s]) = Sleeping(s)
    BY DEF CallsInv, Queues, QueueOf
  <2>3. Me \notin ToSet(lst[s])
    BY <1>5, <2>2 DEF Sleeping, Ready
  <2>4. IsInjective(Append(lst[s], Me)) /\ ToSet(Append(lst[s], Me)) = ToSet(lst[s]) \cup {Me}
    BY <1>5, <2>1, <2>2, <2>3, AppendNew
  <2>5. QED
    BY <1>4, <2>1, <2>2, <2>4 DEF QueueOf
<1>7. Queues'
  <2>1. ASSUME NEW t \in Semaphore \ {s} PROVE QueueOf(t)'
    <3>1. lst'[t] = lst[t] /\ cnt'[t] = cnt[t]
      BY <1>1, <1>2 DEF SemTypeOK
    <3>2. Sleeping(t)' = Sleeping(t)
      BY <1>4
    <3>3. QED
      BY <3>1, <3>2, SameQueue
  <2>2. QED
    BY <1>6, <2>1 DEF Queues
<1>8. FieldsTyped
  BY <1>1, <1>2, <1>5 DEF SemTypeOK, FieldsTyped
<1>9. ASSUME NEW t \in Semaphore PROVE Settled(t, {}, IF t = s THEN 0 ELSE 0)
  <2>1. Cardinality(Sleeping(t) \cap {}) = 0
    BY FS_EmptySet
  <2>2. InUse(t)' => InUse(t)
    BY <1>1 DEF InUse
  <2>3. QED
    BY <1>1, <2>1, <2>2, StillBalanced DEF Settled
<1>10. permits' \in [Semaphore -> Int] /\ DeadHaveNone' /\ Permits'
  <2>1. \A t \in Semaphore : Settled(t, {}, IF t = s THEN 0 ELSE 0)
    BY <1>9
  <2>2. alive' \in [Semaphore -> BOOLEAN] /\ cnt' \in [Semaphore -> Nat] /\ IsFiniteSet({})
    BY <1>8, FS_EmptySet DEF FieldsTyped
  <2>3. \A t \in Semaphore : Effect(t, {})
    BY <1>4
  <2>4. QED
    BY <1>1, <1>2, <2>1, <2>2, <2>3, Settles
<1>11. SemTypeOK'
  BY <1>4, <1>8, <1>10 DEF SemTypeOK, FieldsTyped
<1>12. QED
  BY <1>4, <1>7, <1>10, <1>11 DEF CallsInv

-----------------------------------------------------------------------------
(* The theorems *)

\* The invariant holds at the beginning.
LEMMA SemInitInv == SemInit => CallsInv
<1> SUFFICES ASSUME SemInit PROVE CallsInv
  OBVIOUS
<1>1. SchedInv
  BY InitInv, InitUrgent DEF SemInit, SchedInv
<1>2. \A p \in Process : waitsFor[p] = Nil
  BY DEF SemInit
<1>3. \A s \in Semaphore : lst[s] = <<>> /\ permits[s] = 0 /\ ~alive[s]
  BY DEF SemInit
<1>4. <<>> \in Seq(Process) /\ IsInjective(<<>>) /\ ToSet(<<>>) = {}
  BY DEF IsInjective, ToSet
<1>5. SemTypeOK
  BY <1>4 DEF SemInit, SemTypeOK
<1>6. ASSUME NEW s \in Semaphore PROVE QueueOf(s)
  <2>1. Sleeping(s) = {}
    BY <1>2, SemaphoreAssumption DEF Sleeping
  <2>2. QED
    BY <1>3, <1>4, <2>1 DEF QueueOf
<1>7. WaitersParked /\ Queues /\ DeadHaveNone /\ Permits
  BY <1>2, <1>3, <1>6 DEF WaitersParked, Queues, DeadHaveNone, Permits, InUse
<1>8. QED
  BY <1>1, <1>5, <1>7 DEF CallsInv

\* And every call preserves it.
LEMMA SemNextInv ==
  ASSUME Obligations, CallsInv, [SemNext]_allVars
  PROVE  CallsInv'
<1>1. CASE UNCHANGED allVars
  <2>1. UNCHANGED vars /\ UNCHANGED <<alive, cnt, lst, waitsFor, destroys, permits>>
    BY <1>1 DEF allVars, semVars
  <2>2. SchedInv'
    BY <2>1, NextInv, NextUrgent DEF CallsInv, SchedInv, Obligations
  <2>3. UNCHANGED <<at, state, outcome>>
    BY <2>1 DEF vars
  <2>4. SemTypeOK' /\ WaitersParked' /\ DeadHaveNone'
    BY <2>1, <2>3 DEF CallsInv, SemTypeOK, WaitersParked, DeadHaveNone
  <2>5. ASSUME NEW t \in Semaphore
        PROVE  Sleeping(t)' = Sleeping(t) /\ Woken(t)' = Woken(t) /\ (InUse(t)' <=> InUse(t))
    BY <2>1, <2>3 DEF Sleeping, Woken, InUse, Ready
  <2>6. Queues'
    BY <2>1, <2>5, SameQueue DEF Queues
  <2>7. Permits'
    BY <2>1, <2>3, <2>5 DEF CallsInv, Permits, Balanced, Running
  <2>8. QED
    BY <2>2, <2>4, <2>6, <2>7 DEF CallsInv
<1>2. CASE SemNext
  <2>1. SchedInv'
    BY <1>2, SemStepIsStep, NextInv, NextUrgent DEF CallsInv, SchedInv, Obligations
  <2>2. CASE Scheduling
    BY <2>1, <2>2, SchedulingKeeps
  <2>3. ASSUME NEW s \in Semaphore, NEW n \in 0..MaxCount, SemCreate(s, n) PROVE CallsInv'
    BY <2>1, <2>3, CreateKeeps
  <2>4. ASSUME NEW s \in Semaphore, Claim(s) \/ CondClaim(s) PROVE CallsInv'
    BY <2>1, <2>4, TakeKeeps, ClaimWaitKeeps DEF Claim, CondClaim, Free
  <2>5. ASSUME NEW s \in Semaphore, Release(s) \/ Destroy(s) PROVE CallsInv'
    BY <2>1, <2>5, ReleaseKeeps, DestroyKeeps
  <2>6. QED
    BY <1>2, <2>2, <2>3, <2>4, <2>5 DEF SemNext
<1>3. QED
  BY <1>1, <1>2

\* Whatever the programs do within their obligations, the lists of the semaphores,
\* the scheduler and the accounts agree after every call.
THEOREM CallsAgree ==
  ASSUME Obligations
  PROVE  SemSpec => []CallsInv
<1>1. CallsInv /\ [SemNext]_allVars => CallsInv'
  BY SemNextInv
<1>2. QED
  BY SemInitInv, <1>1, PTL DEF SemSpec

\* No wakeup is lost or given to a stranger: a process sleeps in Claim exactly when
\* its item is in the list, once, and nobody sleeps while there is a permit.
THEOREM NoWakeupIsLost ==
  ASSUME Obligations
  PROVE  SemSpec => []SleepersAreQueued
<1>1. CallsInv => SleepersAreQueued
  BY CallsSuffice
<1>2. QED
  BY CallsAgree, <1>1, PTL

\* A semaphore in use gives out exactly what it was created with and what was released.
THEOREM PermitsAreKept ==
  ASSUME Obligations
  PROVE  SemSpec => []PermitsConserved
<1>1. CallsInv => PermitsConserved
  BY CallsSuffice
<1>2. QED
  BY CallsAgree, <1>1, PTL

\* The semaphores use the scheduler through its operations only: what a program with
\* semaphores does is a history of Processes.
THEOREM UsesScheduler ==
  ASSUME Obligations
  PROVE  SemSpec => Spec
<1>1. SemInit => Init
  BY DEF SemInit
<1>2. CallsInv /\ [SemNext]_allVars => [Next]_vars
  <2>1. UNCHANGED allVars => UNCHANGED vars
    BY DEF allVars
  <2>2. QED
    BY <2>1, SemStepIsStep
<1>3. QED
  BY CallsAgree, <1>1, <1>2, PTL DEF SemSpec, Spec

-----------------------------------------------------------------------------
(* Refinement: s1 is any semaphore. *)

\* A call that leaves the semaphore alone.
Aside == UNCHANGED <<alive[s1], cnt[s1]>> /\ Sleeping(s1)' = Sleeping(s1)

\* It is a stuttering step of the abstract one.
LEMMA AsideStutters == Aside => UNCHANGED Promise!svars
  BY DEF Aside, Promise!svars

\* Calls that take no time keep who sleeps.
LEMMA SameSleepers ==
  ASSUME UNCHANGED vars, UNCHANGED waitsFor
  PROVE  Sleeping(s1)' = Sleeping(s1)
BY DEF vars, Sleeping, Ready

\* The operations of the scheduler change nothing of a semaphore.
LEMMA SchedulingRefines ==
  ASSUME Obligations, CallsInv, SchedInv', s1 \in Semaphore, Scheduling
  PROVE  Aside
<1>1. /\ ClaimsReturn /\ UNCHANGED <<alive, cnt, lst, destroys>>
      /\ Inv' /\ WakesNobody
  BY SchedulingWakesNobody DEF Scheduling, SchedInv
<1> PICK X : /\ IsFiniteSet(X) /\ Stays(X)
             /\ \A q \in X : q \in Process /\ waitsFor[q] = Nil
  BY <1>1 DEF WakesNobody
<1>2. Wakes(X)
  BY DEF Wakes
<1>3. Sleeping(s1)' = Sleeping(s1) \ X
  BY <1>1, <1>2, WakeEffect
<1>4. Sleeping(s1) \cap X = {}
  BY SemaphoreAssumption DEF Sleeping
<1>5. QED
  BY <1>1, <1>3, <1>4 DEF Aside

\* A wakeup is the Release of the abstract semaphore, or of another one.
LEMMA WakeRefines ==
  ASSUME CallsInv, SchedInv', s1 \in Semaphore, NEW s \in Semaphore, lst[s] # <<>>, alive[s],
         WakeFirst(s), ClaimsReturn, UNCHANGED <<alive, cnt>>
  PROVE  Aside \/ Promise!Next
<1> PICK h : h = Head(lst[s])
  OBVIOUS
<1>1. h \in Process /\ h \in Sleeping(s) /\ waitsFor[h] = s /\ at[h] = "call" /\ state[h] = "passive"
  BY HeadSleeps
<1>2. Activate(h)
  BY WakeActivates
<1>3. Wakes({h}) /\ Stays({h}) /\ Inv'
  BY <1>1, <1>2, ActivateWakes DEF SchedInv
<1>4. Sleeping(s1)' = Sleeping(s1) \ {h}
  BY <1>3, WakeEffect
<1>5. CASE s = s1
  <2>1. Promise!Release
    BY <1>1, <1>4, <1>5 DEF Promise!Release
  <2>2. QED
    BY <2>1 DEF Promise!Next
<1>6. CASE s # s1
  <2>1. h \notin Sleeping(s1)
    BY <1>1, <1>6 DEF Sleeping
  <2>2. QED
    BY <1>4, <2>1 DEF Aside
<1>7. QED
  BY <1>5, <1>6

\* A Claim either takes a permit or suspends.
LEMMA ClaimRefines ==
  ASSUME Obligations, CallsInv, SchedInv', s1 \in Semaphore, NEW s \in Semaphore,
         Running, alive[s], TakePermit(s) \/ ClaimWait(s)
  PROVE  Aside \/ Promise!Next
<1>1. Me \in Process /\ Ready(Me) /\ SemTypeOK /\ Inv'
  BY CallerIsCurrent DEF CallsInv, SchedInv, Inv, Ready
<1>2. CASE TakePermit(s)
  <2>1. /\ UNCHANGED alive /\ cnt[s] > 0 /\ cnt' = [cnt EXCEPT ![s] = @ - 1]
        /\ Sleeping(s1)' = Sleeping(s1)
    BY <1>2, SameSleepers DEF TakePermit
  <2>2. CASE s = s1
    <3>1. Promise!CondClaim
      BY <1>1, <2>1, <2>2 DEF Promise!CondClaim, SemTypeOK
    <3>2. QED
      BY <3>1 DEF Promise!Next
  <2>3. CASE s # s1
    BY <1>1, <2>1, <2>3 DEF Aside, SemTypeOK
  <2>4. QED
    BY <2>2, <2>3
<1>3. CASE ClaimWait(s)
  <2>1. /\ UNCHANGED <<alive, cnt>> /\ cnt[s] = 0
        /\ waitsFor' = [p \in Process |-> IF at'[p] = "live" THEN Nil
                                          ELSE IF p = running THEN s ELSE waitsFor[p]]
    BY <1>3 DEF ClaimWait
  <2>2. Stays({}) /\ at'[Me] = "call" /\ state'[Me] = "passive"
    BY <1>3, ClaimParks
  <2>3. /\ \A t \in Semaphore \ {s} : Sleeping(t)' = Sleeping(t)
        /\ Sleeping(s)' = Sleeping(s) \cup {Me}
    BY <1>1, <2>1, <2>2, ClaimEffect
  <2>4. CASE s = s1
    <3>1. Me \notin Sleeping(s1)
      BY <1>1 DEF Sleeping
    <3>2. Promise!Claim(Me)
      BY <2>1, <2>3, <2>4, <3>1 DEF Promise!Claim
    <3>3. QED
      BY <1>1, <3>2 DEF Promise!Next
  <2>5. CASE s # s1
    BY <2>1, <2>3, <2>5 DEF Aside
  <2>6. QED
    BY <2>4, <2>5
<1>4. QED
  BY <1>2, <1>3

\* Each call of s1 is one of the abstract semaphore.
LEMMA SemStepRefines ==
  ASSUME Obligations, CallsInv, SchedInv', s1 \in Semaphore, SemNext
  PROVE  Aside \/ Promise!Next
<1>1. SemTypeOK
  BY DEF CallsInv
<1>2. ASSUME NEW s \in Semaphore, lst[s] = <<>> PROVE Sleeping(s) = {}
  <2>1. ToSet(lst[s]) = Sleeping(s) /\ ToSet(<<>>) = {}
    BY DEF CallsInv, Queues, QueueOf, ToSet
  <2>2. QED
    BY <1>2, <2>1
<1>3. ASSUME NEW s \in Semaphore, NEW n \in 0..MaxCount, SemCreate(s, n)
      PROVE  Aside \/ Promise!Next
  <2>1. /\ ~alive[s] /\ n \in Nat /\ Sleeping(s1)' = Sleeping(s1)
        /\ \A p \in Process : waitsFor[p] # s
        /\ alive' = [alive EXCEPT ![s] = TRUE] /\ cnt' = [cnt EXCEPT ![s] = n]
    BY <1>3, SameSleepers, SemaphoreAssumption DEF SemCreate
  <2>2. CASE s = s1
    <3>1. Sleeping(s1) = {}
      BY <2>1, <2>2 DEF Sleeping
    <3>2. Promise!Create
      BY <1>1, <2>1, <2>2, <3>1 DEF Promise!Create, SemTypeOK
    <3>3. QED
      BY <3>2 DEF Promise!Next
  <2>3. CASE s # s1
    BY <1>1, <2>1, <2>3 DEF Aside, SemTypeOK
  <2>4. QED
    BY <2>2, <2>3
<1>4. ASSUME NEW s \in Semaphore, Claim(s) \/ CondClaim(s) PROVE Aside \/ Promise!Next
  BY <1>4, ClaimRefines DEF Claim, CondClaim, Free
<1>5. ASSUME NEW s \in Semaphore, Release(s) PROVE Aside \/ Promise!Next
  <2>1. CASE lst[s] # <<>>
    BY <1>5, <2>1, WakeRefines DEF Release
  <2>2. CASE lst[s] = <<>>
    <3>1. /\ alive[s] /\ UNCHANGED alive /\ cnt' = [cnt EXCEPT ![s] = @ + 1]
          /\ Sleeping(s1)' = Sleeping(s1)
      BY <1>5, <2>2, SameSleepers DEF Release
    <3>2. CASE s = s1
      <4>1. Promise!Release
        BY <1>1, <1>2, <2>2, <3>1, <3>2 DEF Promise!Release, SemTypeOK
      <4>2. QED
        BY <4>1 DEF Promise!Next
    <3>3. CASE s # s1
      BY <1>1, <3>1, <3>3 DEF Aside, SemTypeOK
    <3>4. QED
      BY <3>2, <3>3
  <2>3. QED
    BY <2>1, <2>2
<1>6. ASSUME NEW s \in Semaphore, Destroy(s) PROVE Aside \/ Promise!Next
  <2>1. CASE lst[s] # <<>>
    BY <1>6, <2>1, HeadSleeps, WakeRefines DEF Destroy
  <2>2. CASE lst[s] = <<>>
    <3>1. /\ alive[s] /\ UNCHANGED cnt /\ alive' = [alive EXCEPT ![s] = FALSE]
          /\ Sleeping(s1)' = Sleeping(s1)
      BY <1>6, <2>2, SameSleepers DEF Destroy
    <3>2. CASE s = s1
      <4>1. Promise!Destroy
        BY <1>1, <1>2, <2>2, <3>1, <3>2 DEF Promise!Destroy, SemTypeOK
      <4>2. QED
        BY <4>1 DEF Promise!Next
    <3>3. CASE s # s1
      BY <1>1, <3>1, <3>3 DEF Aside, SemTypeOK
    <3>4. QED
      BY <3>2, <3>3
  <2>3. QED
    BY <2>1, <2>2
<1>7. QED
  BY <1>3, <1>4, <1>5, <1>6, SchedulingRefines DEF SemNext

\* Every semaphore does what Semaphores.def promises: it lets claimants through as
\* long as its count lasts, keeps the others suspended, and each Release wakes one of
\* them or increments the count, whatever the scheduler does in between.
THEOREM KeepsItsPromise ==
  ASSUME Obligations, s1 \in Semaphore
  PROVE  SemSpec => ImplementsSemaphore
<1>1. SemInit => Promise!Init
  <2> SUFFICES ASSUME SemInit PROVE Promise!Init
    OBVIOUS
  <2>1. Sleeping(s1) = {}
    BY SemaphoreAssumption DEF SemInit, Sleeping
  <2>2. QED
    BY <2>1 DEF SemInit, Promise!Init
<1>2. CallsInv /\ [SemNext]_allVars => [Promise!Next]_Promise!svars
  <2> SUFFICES ASSUME CallsInv, [SemNext]_allVars PROVE [Promise!Next]_Promise!svars
    OBVIOUS
  <2>1. CASE UNCHANGED allVars
    <3>1. UNCHANGED vars /\ UNCHANGED <<alive, cnt, waitsFor>>
      BY <2>1 DEF allVars, semVars
    <3>2. Aside
      BY <3>1, SameSleepers DEF Aside
    <3>3. QED
      BY <3>2, AsideStutters
  <2>2. CASE SemNext
    <3>1. SchedInv'
      BY <2>2, SemNextInv DEF CallsInv
    <3>2. QED
      BY <2>2, <3>1, SemStepRefines, AsideStutters
  <2>3. QED
    BY <2>1, <2>2
<1>3. QED
  BY CallsAgree, <1>1, <1>2, PTL DEF SemSpec, ImplementsSemaphore, Promise!Spec
=============================================================================
