--------------------------- MODULE SequenceLemmas ---------------------------
(***************************************************************************)
(* What Append, Tail, RemoveAt and FlattenSeq do to the elements of a      *)
(* sequence; induction over numbers, which FlattenSeq needs.               *)
(***************************************************************************)
EXTENDS Naturals, SequencesExt, SequenceTheorems, WellFoundedInduction, TLAPS

LEMMA AppendSet ==
  ASSUME NEW S, NEW s \in Seq(S), NEW e
  PROVE  ToSet(Append(s, e)) = ToSet(s) \union {e}
<1>1. DOMAIN Append(s, e) = DOMAIN s \union {Len(s) + 1}
  OBVIOUS
<1>2. \A i \in DOMAIN s : Append(s, e)[i] = s[i]
  OBVIOUS
<1>3. Append(s, e)[Len(s) + 1] = e
  OBVIOUS
<1>4. QED
  BY <1>1, <1>2, <1>3 DEF ToSet

LEMMA TailSet ==
  ASSUME NEW S, NEW s \in Seq(S), s # <<>>
  PROVE  /\ Head(s) \in ToSet(s)
         /\ ToSet(s) = {Head(s)} \union ToSet(Tail(s))
<1>1. DOMAIN s = 1..Len(s) /\ Len(s) >= 1 /\ Head(s) = s[1]
  OBVIOUS
<1>2. DOMAIN Tail(s) = 1..(Len(s) - 1)
  OBVIOUS
<1>3. \A i \in DOMAIN Tail(s) : Tail(s)[i] = s[i + 1]
  OBVIOUS
<1>4. \A x \in ToSet(s) : x = s[1] \/ x \in ToSet(Tail(s))
  <2> SUFFICES ASSUME NEW i \in DOMAIN s, i # 1 PROVE s[i] \in ToSet(Tail(s))
    BY DEF ToSet
  <2>1. i - 1 \in DOMAIN Tail(s) /\ Tail(s)[i - 1] = s[i]
    BY <1>1, <1>2, <1>3
  <2>2. QED
    BY <2>1 DEF ToSet
<1>5. \A x \in ToSet(Tail(s)) : x \in ToSet(s)
  BY <1>1, <1>2, <1>3 DEF ToSet
<1>6. s[1] \in ToSet(s)
  BY <1>1 DEF ToSet
<1>7. QED
  BY <1>1, <1>4, <1>5, <1>6

LEMMA RemoveAtShape ==
  ASSUME NEW S, NEW r \in Seq(S), NEW p \in DOMAIN r
  PROVE  /\ RemoveAt(r, p) \in Seq(S)
         /\ Len(RemoveAt(r, p)) = Len(r) - 1
         /\ \A i \in 1..(Len(r) - 1) :
              RemoveAt(r, p)[i] = IF i < p THEN r[i] ELSE r[i + 1]
<1>1. p \in 1..Len(r) /\ Len(r) \in Nat
  OBVIOUS
<1>2. PICK front : front = SubSeq(r, 1, p - 1)
  OBVIOUS
<1>3. PICK back : back = SubSeq(r, p + 1, Len(r))
  OBVIOUS
<1>4. front \in Seq(S) /\ Len(front) = p - 1 /\ \A i \in 1..(p - 1) : front[i] = r[i]
  BY <1>1, <1>2
<1>5. /\ back \in Seq(S) /\ Len(back) = Len(r) - p
      /\ \A i \in 1..(Len(r) - p) : back[i] = r[p + i]
  BY <1>1, <1>3
<1>6. RemoveAt(r, p) = front \o back
  BY <1>2, <1>3 DEF RemoveAt
<1>7. /\ front \o back \in Seq(S)
      /\ Len(front \o back) = Len(front) + Len(back)
      /\ \A i \in 1..(Len(front) + Len(back)) :
           (front \o back)[i] = IF i <= Len(front) THEN front[i] ELSE back[i - Len(front)]
  BY <1>4, <1>5, ConcatProperties
<1>8. Len(front) + Len(back) = Len(r) - 1
  BY <1>1, <1>4, <1>5
<1>9. ASSUME NEW i \in 1..(Len(r) - 1)
      PROVE  (front \o back)[i] = IF i < p THEN r[i] ELSE r[i + 1]
  <2>1. CASE i < p
    BY <2>1, <1>1, <1>4, <1>7, <1>8
  <2>2. CASE ~(i < p)
    <3>1. (front \o back)[i] = back[i - (p - 1)]
      BY <2>2, <1>1, <1>4, <1>7, <1>8
    <3>2. i - (p - 1) \in 1..(Len(r) - p) /\ p + (i - (p - 1)) = i + 1
      BY <2>2, <1>1
    <3>3. QED
      BY <3>1, <3>2, <2>2, <1>5
  <2>3. QED
    BY <2>1, <2>2
<1>10. QED
  BY <1>6, <1>7, <1>8, <1>9

LEMMA NotAlone ==
  ASSUME NEW S, NEW q \in Seq(S), NEW i \in DOMAIN q, NEW e, q[i] = e, q # <<e>>
  PROVE  Len(q) \in Nat /\ Len(q) > 1
<1>1. DOMAIN q = 1..Len(q) /\ Len(q) \in Nat /\ i \in 1..Len(q)
  BY LenProperties
<1>2. CASE Len(q) = 1
  <2>1. e \in S /\ i = 1
    BY <1>1, <1>2
  <2>2. <<e>> \in Seq(S) /\ Len(<<e>>) = 1 /\ <<e>>[1] = e
    BY <2>1
  <2>3. q = <<e>>
    BY <1>2, <2>1, <2>2, SeqEqual
  <2>4. QED
    BY <2>3
<1>3. QED
  BY <1>1, <1>2

-----------------------------------------------------------------------------
(* Induction, and where FlattenSeq puts what.                              *)

LEMMA Smallest ==
  ASSUME NEW S \in SUBSET Nat, S # {}
  PROVE  \E i \in S : \A j \in S : i <= j
<1>1. PICK i \in S : \A j \in S : ~(<<j, i>> \in OpToRel(<, Nat))
  BY NatLessThanWellFounded, WFMin
<1>2. \A j \in S : j \in Nat /\ i \in Nat /\ ~(j < i)
  BY <1>1 DEF OpToRel
<1>3. QED
  BY <1>2

\* Induction, for a set of numbers in the place of a predicate.
LEMMA Reaching ==
  ASSUME NEW n \in Nat, NEW P \in SUBSET Nat, n >= 1 => 1 \in P,
         \A m \in 1..(n - 1) : m \in P => m + 1 \in P
  PROVE  1..n \subseteq P
<1> SUFFICES ASSUME (1..n) \ P # {} PROVE FALSE
  OBVIOUS
<1>1. (1..n) \ P \in SUBSET Nat
  OBVIOUS
<1>2. PICK b \in (1..n) \ P : \A j \in (1..n) \ P : b <= j
  BY <1>1, Smallest
<1>3. b # 1
  BY <1>2
<1>4. b - 1 \in 1..(n - 1) /\ (b - 1) + 1 = b /\ b - 1 \in 1..n /\ ~(b <= b - 1)
  BY <1>2, <1>3
<1>5. b - 1 \in P
  BY <1>2, <1>4
<1> QED
  BY <1>2, <1>4, <1>5

\* g[m] is the first m of seqs put together.
Unrolls(g, seqs, m, S) ==
  /\ g \in [1..m -> Seq(S)]
  /\ g[1] = seqs[1]
  /\ \A i \in 1..(m - 1) : g[i + 1] = g[i] \o seqs[i + 1]

LEMMA Unrolled ==
  ASSUME NEW S, NEW n \in Nat \ {0}, NEW seqs \in [1..n -> Seq(S)]
  PROVE  \E g : Unrolls(g, seqs, n, S) /\ FlattenSeq(seqs) = g[n]
<1> DEFINE P == {m \in 1..n : \E g : Unrolls(g, seqs, m, S)}
<1>1. 1 \in P
  <2>1. Unrolls([i \in 1..1 |-> seqs[1]], seqs, 1, S)
    BY DEF Unrolls
  <2> QED
    BY <2>1
<1>2. ASSUME NEW m \in 1..(n - 1), m \in P
      PROVE  m + 1 \in P
  <2>1. PICK h : Unrolls(h, seqs, m, S)
    BY <1>2
  <2>2. /\ m \in Nat /\ m \in 1..m /\ m + 1 \in 1..n /\ seqs[m + 1] \in Seq(S)
        /\ \A i \in 1..(m + 1) : i \in 1..m \/ i = m + 1
        /\ m + 1 \notin 1..m /\ 1 \in 1..m
    OBVIOUS
  <2>3. PICK last : last = h[m] \o seqs[m + 1]
    OBVIOUS
  <2>4. last \in Seq(S)
    BY <2>1, <2>2, <2>3 DEF Unrolls
  <2>5. PICK g : g = [i \in 1..(m + 1) |-> IF i = m + 1 THEN last ELSE h[i]]
    OBVIOUS
  <2>6. /\ g \in [1..(m + 1) -> Seq(S)] /\ g[m + 1] = last
        /\ \A i \in 1..m : g[i] = h[i]
    BY <2>1, <2>2, <2>4, <2>5 DEF Unrolls
  <2>7. ASSUME NEW i \in 1..((m + 1) - 1) PROVE g[i + 1] = g[i] \o seqs[i + 1]
    <3>1. i \in 1..m /\ (i = m \/ (i \in 1..(m - 1) /\ i + 1 \in 1..m))
      BY <2>2
    <3>2. CASE i = m
      BY <2>3, <2>6, <3>1, <3>2
    <3>3. CASE i \in 1..(m - 1) /\ i + 1 \in 1..m
      BY <2>1, <2>6, <3>1, <3>3 DEF Unrolls
    <3> QED
      BY <3>1, <3>2, <3>3
  <2>8. Unrolls(g, seqs, m + 1, S)
    <3>1. g[1] = seqs[1]
      BY <2>1, <2>2, <2>6 DEF Unrolls
    <3> QED
      BY <2>6, <2>7, <3>1 DEF Unrolls
  <2> QED
    BY <2>2, <2>8
<1>3. n \in P
  <2>1. P \in SUBSET Nat
    OBVIOUS
  <2>2. 1..n \subseteq P
    <3> HIDE DEF P
    <3> QED
      BY <1>1, <1>2, <2>1, Reaching
  <2> HIDE DEF P
  <2> QED
    BY <2>2
<1>4. PICK g : Unrolls(g, seqs, n, S)
  BY <1>3
<1> HIDE DEF P
<1> DEFINE Step(h) == [i \in 1..n |-> IF i = 1 THEN seqs[i] ELSE h[i - 1] \o seqs[i]]
           flat == CHOOSE h : h = Step(h)
<1>5. g = Step(g)
  <2>1. ASSUME NEW i \in 1..n, i # 1 PROVE g[i] = g[i - 1] \o seqs[i]
    <3>1. i - 1 \in 1..(n - 1) /\ (i - 1) + 1 = i
      BY <2>1
    <3> QED
      BY <1>4, <3>1 DEF Unrolls
  <2> QED
    BY <1>4, <2>1 DEF Unrolls
<1>6. flat = Step(flat)
  BY <1>5
<1>7. FlattenSeq(seqs) = flat[n]
  <2>1. Len(seqs) = n
    OBVIOUS
  <2> QED
    BY <2>1 DEF FlattenSeq
<1> HIDE DEF flat
<1>8. flat[n] = g[n]
  <2> DEFINE Q == {m \in 1..n : flat[m] = g[m]}
  <2>1. 1 \in Q
    BY <1>5, <1>6
  <2>2. ASSUME NEW m \in 1..(n - 1), m \in Q PROVE m + 1 \in Q
    <3>1. m + 1 \in 1..n /\ m + 1 # 1 /\ (m + 1) - 1 = m
      OBVIOUS
    <3>2. flat[m + 1] = flat[m] \o seqs[m + 1] /\ g[m + 1] = g[m] \o seqs[m + 1]
      BY <1>5, <1>6, <3>1
    <3> QED
      BY <2>2, <3>1, <3>2
  <2>3. Q \in SUBSET Nat
    OBVIOUS
  <2>4. 1..n \subseteq Q
    <3> HIDE DEF Q
    <3> QED
      BY <2>1, <2>2, <2>3, Reaching
  <2> QED
    BY <2>4
<1> QED
  BY <1>4, <1>7, <1>8

\* From element m on, flat consists of the n sequences seqs; at[i] elements are
\* before the i-th.
Places(at, seqs, n, m, flat) ==
  /\ at \in [1..(n + 1) -> Nat]
  /\ at[1] = m /\ at[n + 1] = Len(flat)
  /\ \A i \in 1..n :
       /\ at[i + 1] = at[i] + Len(seqs[i]) /\ at[i + 1] <= Len(flat)
       /\ \A j \in 1..Len(seqs[i]) : flat[at[i] + j] = seqs[i][j]

LEMMA Flattened ==
  ASSUME NEW S, NEW n \in Nat \ {0}, NEW seqs \in [1..n -> Seq(S)]
  PROVE  FlattenSeq(seqs) \in Seq(S) /\ \E at : Places(at, seqs, n, 0, FlattenSeq(seqs))
<1>1. PICK g : Unrolls(g, seqs, n, S) /\ FlattenSeq(seqs) = g[n]
  BY Unrolled
<1>2. /\ \A i \in 1..n : g[i] \in Seq(S) /\ Len(g[i]) \in Nat
      /\ \A i \in 1..n : seqs[i] \in Seq(S) /\ Len(seqs[i]) \in Nat
      /\ g[1] = seqs[1] /\ n \in 1..n /\ 1 \in 1..n
  BY <1>1 DEF Unrolls
<1>3. ASSUME NEW i \in 1..(n - 1)
      PROVE  /\ i \in 1..n /\ i + 1 \in 1..n
             /\ Len(g[i + 1]) = Len(g[i]) + Len(seqs[i + 1])
             /\ \A j \in 1..Len(g[i]) : g[i + 1][j] = g[i][j]
             /\ \A j \in 1..Len(seqs[i + 1]) : g[i + 1][Len(g[i]) + j] = seqs[i + 1][j]
  <2>0. i \in 1..n /\ i + 1 \in 1..n
    OBVIOUS
  <2>1. i \in 1..n /\ i + 1 \in 1..n /\ g[i + 1] = g[i] \o seqs[i + 1]
    BY <1>1, <2>0 DEF Unrolls
  <2>2. PICK s \in Seq(S), t \in Seq(S) : s = g[i] /\ t = seqs[i + 1]
    BY <1>2, <2>1
  <2>3. /\ Len(s \o t) = Len(s) + Len(t) /\ Len(s) \in Nat /\ Len(t) \in Nat
        /\ \A j \in 1..(Len(s) + Len(t)) :
             (s \o t)[j] = IF j <= Len(s) THEN s[j] ELSE t[j - Len(s)]
    BY ConcatProperties
  <2>4. \A j \in 1..Len(s) : (s \o t)[j] = s[j]
    BY <2>3
  <2>5. ASSUME NEW j \in 1..Len(t) PROVE (s \o t)[Len(s) + j] = t[j]
    <3>1. /\ Len(s) + j \in 1..(Len(s) + Len(t)) /\ ~(Len(s) + j <= Len(s))
          /\ (Len(s) + j) - Len(s) = j
      BY <2>3
    <3> QED
      BY <2>3, <3>1
  <2> QED
    BY <2>1, <2>2, <2>3, <2>4, <2>5
<1> DEFINE Within(i, m) == /\ Len(g[i]) <= Len(g[m])
                           /\ \A j \in 1..Len(g[i]) : g[m][j] = g[i][j]
           P == {m \in 1..n : \A i \in 1..m : Within(i, m)}
<1>4. 1..n \subseteq P
  <2>1. 1 \in P
    BY <1>2
  <2>2. ASSUME NEW m \in 1..(n - 1), m \in P PROVE m + 1 \in P
    <3>1. ASSUME NEW i \in 1..(m + 1) PROVE Within(i, m + 1)
      <4>1. m + 1 \in 1..n /\ m \in 1..n
        BY <1>3
      <4>2. CASE i = m + 1
        BY <1>2, <4>1, <4>2
      <4>3. CASE i \in 1..m
        <5>1. Within(i, m) /\ i \in 1..n
          BY <2>2, <4>3
        <5>2. Within(m, m + 1)
          <6>1. /\ Len(g[m + 1]) = Len(g[m]) + Len(seqs[m + 1])
                /\ \A j \in 1..Len(g[m]) : g[m + 1][j] = g[m][j]
            BY <1>3
          <6>2. Len(g[m]) \in Nat /\ Len(seqs[m + 1]) \in Nat
            BY <1>2, <4>1
          <6>3. Len(g[m]) <= Len(g[m + 1])
            <7>1. \A x, y \in Nat : x <= x + y
              OBVIOUS
            <7> QED
              BY <6>1, <6>2, <7>1
          <6> QED
            BY <6>1, <6>3
        <5>3. Len(g[i]) \in Nat /\ Len(g[m]) \in Nat /\ Len(g[m + 1]) \in Nat
          BY <1>2, <4>1, <5>1
        <5>4. \A j \in 1..Len(g[i]) : j \in 1..Len(g[m])
          BY <5>1, <5>3
        <5> QED
          BY <5>1, <5>2, <5>3, <5>4
      <4> QED
        BY <4>2, <4>3
    <3> HIDE DEF Within
    <3>2. m + 1 \in 1..n
      BY <1>3
    <3> QED
      BY <3>1, <3>2
  <2>3. P \in SUBSET Nat
    OBVIOUS
  <2> HIDE DEF P
  <2> QED
    BY <2>1, <2>2, <2>3, Reaching
<1>5. \A i \in 1..n : Within(i, n)
  BY <1>2, <1>4
<1>6. PICK at : at = [i \in 1..(n + 1) |-> IF i = 1 THEN 0 ELSE Len(g[i - 1])]
  OBVIOUS
<1>7. at \in [1..(n + 1) -> Nat] /\ at[1] = 0 /\ \A i \in 1..n : at[i + 1] = Len(g[i])
  <2>1. ASSUME NEW i \in 1..(n + 1), i # 1 PROVE i - 1 \in 1..n
    BY <2>1
  <2>2. \A i \in 1..(n + 1) : i # 1 => Len(g[i - 1]) \in Nat
    BY <1>2, <2>1
  <2>3. \A i \in 1..n : i + 1 \in 1..(n + 1) /\ i + 1 # 1 /\ (i + 1) - 1 = i
    OBVIOUS
  <2>4. 1 \in 1..(n + 1)
    OBVIOUS
  <2> QED
    BY <1>6, <2>2, <2>3, <2>4
<1> HIDE DEF P
<1>8. ASSUME NEW i \in 1..n
      PROVE  /\ at[i + 1] = at[i] + Len(seqs[i])
             /\ at[i + 1] <= Len(g[n])
             /\ \A j \in 1..Len(seqs[i]) : g[n][at[i] + j] = seqs[i][j]
  <2>1. Within(i, n) /\ at[i + 1] = Len(g[i]) /\ Len(g[i]) \in Nat /\ Len(seqs[i]) \in Nat
    BY <1>2, <1>5, <1>7
  <2>2. CASE i = 1
    <3>1. at[i] = 0 /\ g[i] = seqs[i]
      BY <1>2, <1>7, <2>2
    <3> QED
      BY <2>1, <3>1
  <2>3. CASE i # 1
    <3>1. i - 1 \in 1..(n - 1) /\ (i - 1) + 1 = i /\ i - 1 \in 1..n
      BY <2>3
    <3>2. at[i] = Len(g[i - 1]) /\ at[i] \in Nat
      BY <1>2, <1>7, <3>1
    <3>3. /\ Len(g[i]) = at[i] + Len(seqs[i])
          /\ \A j \in 1..Len(seqs[i]) : g[i][at[i] + j] = seqs[i][j]
      BY <1>3, <3>1, <3>2
    <3>4. \A j \in 1..Len(seqs[i]) : at[i] + j \in 1..Len(g[i])
      BY <2>1, <3>2, <3>3
    <3> QED
      BY <2>1, <3>3, <3>4
  <2> QED
    BY <2>2, <2>3
<1>9. at[n + 1] = Len(g[n]) /\ g[n] \in Seq(S)
  BY <1>2, <1>7
<1> HIDE DEF Within
<1>10. FlattenSeq(seqs) = g[n]
  BY <1>1
<1>11. /\ at \in [1..(n + 1) -> Nat] /\ at[1] = 0
       /\ \A i \in 1..n :
            /\ at[i + 1] = at[i] + Len(seqs[i]) /\ at[i + 1] <= Len(g[n])
            /\ \A j \in 1..Len(seqs[i]) : g[n][at[i] + j] = seqs[i][j]
  BY <1>7, <1>8
<1>12. PICK flat : flat = g[n]
  OBVIOUS
<1>13. Places(at, seqs, n, 0, flat)
  BY <1>9, <1>11, <1>12 DEF Places
<1> QED
  BY <1>9, <1>10, <1>12, <1>13

\* Where they stand behind something else.
LEMMA Behind ==
  ASSUME NEW S, NEW front \in Seq(S), NEW body \in Seq(S), NEW n \in Nat \ {0},
         NEW seqs \in [1..n -> Seq(S)], NEW off, Places(off, seqs, n, 0, body)
  PROVE  \E at : Places(at, seqs, n, Len(front), front \o body)
<1>1. PICK m \in Nat, size \in Nat : m = Len(front) /\ size = Len(body)
  OBVIOUS
<1>2. PICK all : all = front \o body
  OBVIOUS
<1>3. Len(all) = m + size /\ \A j \in 1..size : all[m + j] = body[j]
  <2>1. /\ Len(all) = m + size
        /\ \A j \in 1..(m + size) : all[j] = IF j <= m THEN front[j] ELSE body[j - m]
    BY <1>1, <1>2, ConcatProperties
  <2>2. ASSUME NEW j \in 1..size PROVE all[m + j] = body[j]
    <3>1. m + j \in 1..(m + size) /\ ~(m + j <= m) /\ (m + j) - m = j
      OBVIOUS
    <3> QED
      BY <2>1, <3>1
  <2> QED
    BY <2>1, <2>2
<1>4. /\ off \in [1..(n + 1) -> Nat] /\ off[1] = 0 /\ off[n + 1] = size
      /\ \A i \in 1..n :
           /\ off[i + 1] = off[i] + Len(seqs[i]) /\ off[i + 1] <= size
           /\ \A j \in 1..Len(seqs[i]) : body[off[i] + j] = seqs[i][j]
  BY <1>1 DEF Places
<1>5. PICK at : at = [i \in 1..(n + 1) |-> m + off[i]]
  OBVIOUS
<1>6. at \in [1..(n + 1) -> Nat] /\ \A i \in 1..(n + 1) : at[i] = m + off[i]
  <2>1. \A i \in 1..(n + 1) : off[i] \in Nat
    BY <1>4
  <2>2. \A i \in 1..(n + 1) : m + off[i] \in Nat
    BY <2>1
  <2> QED
    BY <1>5, <2>2
<1>7. ASSUME NEW i \in 1..n
      PROVE  /\ at[i + 1] = at[i] + Len(seqs[i]) /\ at[i + 1] <= Len(all)
             /\ \A j \in 1..Len(seqs[i]) : all[at[i] + j] = seqs[i][j]
  <2>1. i \in 1..(n + 1) /\ i + 1 \in 1..(n + 1)
    OBVIOUS
  <2>2. PICK x \in Nat, y \in Nat, len \in Nat : x = off[i] /\ y = off[i + 1] /\ len = Len(seqs[i])
    <3>1. off[i] \in Nat /\ off[i + 1] \in Nat
      BY <1>4, <2>1
    <3>2. seqs[i] \in Seq(S)
      OBVIOUS
    <3>3. Len(seqs[i]) \in Nat
      BY <3>2
    <3> QED
      BY <3>1, <3>3
  <2>3. y = x + len /\ y <= size /\ at[i] = m + x /\ at[i + 1] = m + y
    BY <1>4, <1>6, <2>1, <2>2
  <2>4. m + y = (m + x) + len /\ m + y <= m + size
    BY <2>3
  <2>5. ASSUME NEW j \in 1..len PROVE all[at[i] + j] = seqs[i][j]
    <3>1. (m + x) + j = m + (x + j) /\ x + j \in 1..size
      BY <2>3
    <3>2. all[m + (x + j)] = body[x + j]
      BY <1>3, <3>1
    <3>3. body[x + j] = seqs[i][j]
      BY <1>4, <2>2
    <3> QED
      BY <2>3, <3>1, <3>2, <3>3
  <2> QED
    BY <1>3, <2>2, <2>3, <2>4, <2>5
<1>8. at[1] = Len(front) /\ at[n + 1] = Len(all)
  <2>1. 1 \in 1..(n + 1) /\ n + 1 \in 1..(n + 1)
    OBVIOUS
  <2> QED
    <3>1. at[1] = m + 0 /\ at[n + 1] = m + size
      BY <1>4, <1>6, <2>1
    <3>2. Len(all) = m + size /\ m + 0 = m
      BY <1>3
    <3> QED
      BY <1>1, <3>1, <3>2
<1>9. Places(at, seqs, n, Len(front), all)
  BY <1>6, <1>7, <1>8 DEF Places
<1> QED
  BY <1>2, <1>9
=============================================================================
