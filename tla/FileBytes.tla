------------------------------ MODULE FileBytes ------------------------------
(***************************************************************************)
(* Files and buffers as sequences of bytes; positions count from 0.        *)
(***************************************************************************)
EXTENDS Integers, Sequences

Least(m, n) == IF m < n THEN m ELSE n

\* The bytes of s at position p, at most n of them.
Bytes(s, p, n) == SubSeq(s, p + 1, Least(p + n, Len(s)))

\* s after t was written at position p.  A write beyond the end leaves a gap the
\* system fills with hole; writing nothing changes nothing.
Overlay(s, p, t, hole) ==
  IF t = <<>> THEN s
  ELSE [i \in 1..(IF p + Len(t) > Len(s) THEN p + Len(t) ELSE Len(s)) |->
          IF i \in (p + 1)..(p + Len(t)) THEN t[i - p]
          ELSE IF i <= Len(s) THEN s[i] ELSE hole]
=============================================================================
