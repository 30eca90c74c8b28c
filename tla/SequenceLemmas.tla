--------------------------- MODULE SequenceLemmas ---------------------------
(***************************************************************************)
(* Facts about natural numbers and sequences that the proofs share: what   *)
(* taking an element out does to a sequence, and what moving it to the end *)
(* or adding one over a bound does to a store whose sequence lists its     *)
(* keys, each once, the least recently used first; that a fold over a      *)
(* sequence goes one element at a time; what a flattened sequence of       *)
(* sequences holds; and induction over the length of a sequence, by the    *)
(* shortest that would fail.                                               *)
(***************************************************************************)
EXTENDS SequencesExt, SequenceTheorems, WellFoundedInduction, TLAPS

\* A non-empty set of natural numbers has a least one.
LEMMA LeastNatural ==
  ASSUME NEW T \in SUBSET Nat, T # {}
  PROVE  \E x \in T : \A y \in T : x <= y
<1> DEFINE R == {p \in Nat \X Nat : p[1] < p[2]}
<1>1. IsWellFoundedOn(R, Nat)
  BY NatLessThanWellFounded DEF OpToRel
<1>2. \E x \in T : \A y \in T : ~ (<<y, x>> \in R)
  <2> HIDE DEF R
  <2> QED
    BY <1>1, WFMin
<1>3. PICK x \in T : \A y \in T : ~ (<<y, x>> \in R)
  BY <1>2
<1>4. ASSUME NEW y \in T PROVE x <= y
  <2>1. <<y, x>> \in Nat \X Nat
    OBVIOUS
  <2>2. ~(y < x)
    BY <1>3, <2>1
  <2> QED
    BY <2>2
<1> QED
  BY <1>4

\* RemoveAt() takes one element out and moves up those behind it.
LEMMA RemoveAtShape ==
  ASSUME NEW S, NEW s \in Seq(S), NEW n \in 1..Len(s)
  PROVE  /\ RemoveAt(s, n) \in Seq(S)
         /\ Len(RemoveAt(s, n)) = Len(s) - 1
         /\ \A i \in 1..(Len(s) - 1) :
              RemoveAt(s, n)[i] = IF i < n THEN s[i] ELSE s[i + 1]
<1> DEFINE a == SubSeq(s, 1, n - 1)
           b == SubSeq(s, n + 1, Len(s))
<1>1. Len(s) \in Nat /\ \A i \in 1..Len(s) : s[i] \in S
  BY LenProperties, ElementOfSeq
<1>2. /\ a \in Seq(S) /\ Len(a) = n - 1
      /\ \A i \in 1..(n - 1) : a[i] = s[i]
  <2>1. \A i \in 1..(n - 1) : s[i] \in S
    BY <1>1
  <2>2. /\ a \in Seq(S)
        /\ Len(a) = IF 1 <= n - 1 THEN (n - 1) - 1 + 1 ELSE 0
        /\ \A i \in 1..((n - 1) - 1 + 1) : a[i] = s[1 + i - 1]
    BY <2>1, SubSeqProperties
  <2> HIDE DEF a
  <2> QED
    BY <2>2
<1>3. /\ b \in Seq(S) /\ Len(b) = Len(s) - n
      /\ \A i \in 1..(Len(s) - n) : b[i] = s[n + i]
  <2>1. \A i \in (n + 1)..Len(s) : s[i] \in S
    BY <1>1
  <2>2. /\ b \in Seq(S)
        /\ Len(b) = IF n + 1 <= Len(s) THEN Len(s) - (n + 1) + 1 ELSE 0
        /\ \A i \in 1..(Len(s) - (n + 1) + 1) : b[i] = s[(n + 1) + i - 1]
    BY <1>1, <2>1, SubSeqProperties
  <2> HIDE DEF b
  <2>3. Len(b) = Len(s) - n
    BY <1>1, <2>2
  <2>4. ASSUME NEW i \in 1..(Len(s) - n) PROVE b[i] = s[n + i]
    <3>1. i \in 1..(Len(s) - (n + 1) + 1) /\ (n + 1) + i - 1 = n + i
      BY <1>1
    <3> QED
      BY <2>2, <3>1
  <2> QED
    BY <2>2, <2>3, <2>4
<1> HIDE DEF a, b
<1>4. /\ a \o b \in Seq(S)
      /\ Len(a \o b) = Len(a) + Len(b)
      /\ \A i \in 1..(Len(a) + Len(b)) :
           (a \o b)[i] = IF i <= Len(a) THEN a[i] ELSE b[i - Len(a)]
  BY <1>2, <1>3, ConcatProperties
<1>5. RemoveAt(s, n) = a \o b
  BY DEF RemoveAt, a, b
<1>6. ASSUME NEW i \in 1..(Len(s) - 1)
      PROVE  (a \o b)[i] = IF i < n THEN s[i] ELSE s[i + 1]
  <2>1. i \in 1..(Len(a) + Len(b))
    BY <1>1, <1>2, <1>3
  <2>2. CASE i < n
    BY <1>1, <1>2, <1>4, <2>1, <2>2
  <2>3. CASE ~(i < n)
    <3>1. (a \o b)[i] = b[i - (n - 1)]
      BY <1>1, <1>2, <1>4, <2>1, <2>3
    <3>2. i - (n - 1) \in 1..(Len(s) - n) /\ n + (i - (n - 1)) = i + 1
      BY <1>1, <2>3
    <3> QED
      BY <1>3, <2>3, <3>1, <3>2
  <2> QED
    BY <2>2, <2>3
<1>7. Len(a \o b) = Len(s) - 1
  BY <1>1, <1>2, <1>3, <1>4
<1> QED
  BY <1>4, <1>5, <1>6, <1>7, Zenon

\* RemoveFirst() leaves a sequence without the element alone, and takes out the
\* first place that has it.
LEMMA RemoveFirstParts ==
  ASSUME NEW S, NEW s \in Seq(S)
  PROVE  /\ \A e : (\A i \in 1..Len(s) : s[i] # e) => RemoveFirst(s, e) = s
         /\ \A n \in 1..Len(s) :
              (\A i \in 1..(n - 1) : s[i] # s[n]) => RemoveFirst(s, s[n]) = RemoveAt(s, n)
<1>1. ASSUME NEW e, \A i \in 1..Len(s) : s[i] # e
      PROVE  RemoveFirst(s, e) = s
  BY <1>1 DEF RemoveFirst
<1>2. ASSUME NEW n \in 1..Len(s), \A i \in 1..(n - 1) : s[i] # s[n]
      PROVE  RemoveFirst(s, s[n]) = RemoveAt(s, n)
  <2> DEFINE e == s[n]
             I == {i \in 1..Len(s) : s[i] = e}
  <2>1. Len(s) \in Nat
    BY LenProperties
  <2>2. RemoveFirst(s, e) = RemoveAt(s, IF I # {} THEN Min(I) ELSE 0)
    BY DEF RemoveFirst, SelectInSeq
  <2>3. n \in I /\ \A i \in I : n <= i
    BY <1>2, <2>1
  <2>4. \A x \in I : (\A y \in I : x <= y) => x = n
    BY <2>1, <2>3
  <2> HIDE DEF I
  <2>5. Min(I) = n
    BY <2>3, <2>4 DEF Min
  <2> QED
    BY <2>2, <2>3, <2>5
<1> QED
  BY <1>1, <1>2

\* No element twice.
EachOnce(s) == \A i, j \in 1..Len(s) : s[i] = s[j] => i = j

\* The last n of s, or all of them if there are fewer.
LastOf(s, n) == SubSeq(s, Len(s) - (IF n < Len(s) THEN n ELSE Len(s)) + 1, Len(s))

LEMMA LastOfParts ==
  ASSUME NEW S, NEW s \in Seq(S), NEW n \in Nat
  PROVE  /\ Len(s) <= n => LastOf(s, n) = s
         /\ Len(s) = n + 1 => LastOf(s, n) = Tail(s)
<1>1. Len(s) \in Nat
  BY LenProperties
<1>2. ASSUME Len(s) <= n PROVE LastOf(s, n) = s
  <2>1. Len(s) - (IF n < Len(s) THEN n ELSE Len(s)) + 1 = 1
    BY <1>1, <1>2
  <2> QED
    BY <2>1, SubSeqFull DEF LastOf
<1>3. ASSUME Len(s) = n + 1 PROVE LastOf(s, n) = Tail(s)
  <2>1. Len(s) - (IF n < Len(s) THEN n ELSE Len(s)) + 1 = 2
    BY <1>1, <1>3
  <2>2. s # <<>>
    BY <1>3, EmptySeq
  <2> QED
    BY <2>1, <2>2, TailIsSubSeq DEF LastOf
<1> QED
  BY <1>2, <1>3

\* A store whose access to an element it has makes it the last.
LEMMA MovedLast ==
  ASSUME NEW S, NEW s \in Seq(S), EachOnce(s), NEW n \in 1..Len(s)
  PROVE  LET t == Append(RemoveAt(s, n), s[n])
         IN /\ RemoveFirst(s, s[n]) = RemoveAt(s, n)
            /\ t \in Seq(S) /\ Len(t) = Len(s)
            /\ \A i \in 1..Len(s) :
                 t[i] = IF i = Len(s) THEN s[n] ELSE IF i < n THEN s[i] ELSE s[i + 1]
<1> DEFINE r == RemoveAt(s, n)
           t == Append(r, s[n])
<1>1. Len(s) \in Nat /\ s[n] \in S
  BY LenProperties, ElementOfSeq
<1>2. /\ r \in Seq(S) /\ Len(r) = Len(s) - 1
      /\ \A i \in 1..(Len(s) - 1) : r[i] = IF i < n THEN s[i] ELSE s[i + 1]
  BY RemoveAtShape
<1>3. RemoveFirst(s, s[n]) = r
  <2>1. \A i \in 1..(n - 1) : s[i] # s[n]
    BY <1>1 DEF EachOnce
  <2> QED
    BY <2>1, RemoveFirstParts
<1> HIDE DEF r
<1>4. /\ t \in Seq(S) /\ Len(t) = Len(r) + 1
      /\ \A i \in 1..Len(r) : t[i] = r[i]
      /\ t[Len(r) + 1] = s[n]
  BY <1>1, <1>2, AppendProperties
<1> HIDE DEF t
<1>5. Len(t) = Len(s)
  BY <1>1, <1>2, <1>4
<1>6. ASSUME NEW i \in 1..Len(s)
      PROVE  t[i] = IF i = Len(s) THEN s[n] ELSE IF i < n THEN s[i] ELSE s[i + 1]
  BY <1>1, <1>2, <1>4
<1> QED
  BY <1>3, <1>4, <1>5, <1>6 DEF r, t

LEMMA MovedLastKeys ==
  ASSUME NEW S, NEW s \in Seq(S), EachOnce(s), NEW n \in 1..Len(s)
  PROVE  LET t == Append(RemoveAt(s, n), s[n])
         IN EachOnce(t) /\ ToSet(t) = ToSet(s)
<1> DEFINE t == Append(RemoveAt(s, n), s[n])
           N == Len(s)
<1>1. /\ t \in Seq(S) /\ Len(t) = N
      /\ \A i \in 1..N :
           t[i] = IF i = N THEN s[n] ELSE IF i < n THEN s[i] ELSE s[i + 1]
  BY MovedLast
<1>2. N \in Nat /\ DOMAIN s = 1..N /\ DOMAIN t = 1..N /\ n \in 1..N
  BY <1>1, LenProperties
<1>0. \A i, j \in 1..N : s[i] = s[j] => i = j
  BY DEF EachOnce
<1> HIDE DEF t, N
\* Where the element at i of t was in s.
<1> DEFINE was(i) == IF i = N THEN n ELSE IF i < n THEN i ELSE i + 1
<1>3. ASSUME NEW i \in 1..N PROVE was(i) \in 1..N /\ t[i] = s[was(i)]
  <2>1. was(i) \in 1..N
    BY <1>2
  <2> QED
    BY <1>1, <2>1
<1>4. ASSUME NEW i \in 1..N, NEW j \in 1..N, was(i) = was(j) PROVE i = j
  BY <1>2, <1>4
<1>5. ASSUME NEW i \in 1..N PROVE \E j \in 1..N : was(j) = i
  <2>1. CASE i = n
    <3>1. was(N) = i /\ N \in 1..N
      BY <1>2, <2>1
    <3> QED
      BY <3>1
  <2>2. CASE i < n
    <3>1. i # N /\ was(i) = i
      BY <1>2, <2>2
    <3> QED
      BY <3>1
  <2>3. CASE i > n
    <3>1. was(i - 1) = i /\ i - 1 \in 1..N
      BY <1>2, <2>3
    <3> QED
      BY <3>1
  <2> QED
    BY <1>2, <2>1, <2>2, <2>3
<1> HIDE DEF was
<1>6. EachOnce(t)
  <2> SUFFICES ASSUME NEW i \in 1..N, NEW j \in 1..N, t[i] = t[j] PROVE i = j
    BY <1>0, <1>1 DEF EachOnce
  <2>1. was(i) = was(j)
    BY <1>0, <1>3
  <2> QED
    BY <1>4, <2>1
<1>7. \A x : x \in ToSet(t) <=> x \in ToSet(s)
  <2>1. ASSUME NEW x \in ToSet(t) PROVE x \in ToSet(s)
    BY <1>2, <1>3, <2>1 DEF ToSet
  <2>2. ASSUME NEW x \in ToSet(s) PROVE x \in ToSet(t)
    <3>1. PICK i \in 1..N : x = s[i]
      BY <1>2 DEF ToSet
    <3>2. PICK j \in 1..N : was(j) = i
      BY <1>5
    <3> QED
      BY <1>2, <1>3, <3>1, <3>2 DEF ToSet
  <2> QED
    BY <2>1, <2>2
<1> QED
  BY <1>6, <1>7 DEF t

\* A store of at most m elements that takes in one it does not have drops its
\* first if it is full.
LEMMA StoredLast ==
  ASSUME NEW S, NEW s \in Seq(S), EachOnce(s), NEW e \in S, e \notin ToSet(s),
         NEW m \in Nat \ {0}, Len(s) <= m
  PROVE  LET t == Append(IF Len(s) >= m THEN Tail(s) ELSE s, e)
         IN /\ t = LastOf(Append(RemoveFirst(s, e), e), m)
            /\ t \in Seq(S) /\ Len(t) <= m /\ EachOnce(t)
            /\ Len(s) >= m => s # <<>> /\ Head(s) = s[1] /\ 1 \in 1..Len(s)
            /\ ToSet(t) = (ToSet(s) \cup {e}) \ (IF Len(s) >= m THEN {Head(s)} ELSE {})
<1> DEFINE t == Append(IF Len(s) >= m THEN Tail(s) ELSE s, e)
           d == IF Len(s) >= m THEN 1 ELSE 0
           a == Append(s, e)
<1>1. Len(s) \in Nat /\ DOMAIN s = 1..Len(s) /\ \A i \in 1..Len(s) : s[i] \in S /\ s[i] # e
  BY LenProperties, ElementOfSeq DEF ToSet
<1>2. /\ a \in Seq(S) /\ Len(a) = Len(s) + 1 /\ a[Len(s) + 1] = e
      /\ \A i \in 1..Len(s) : a[i] = s[i]
  BY AppendProperties
<1>3. RemoveFirst(s, e) = s
  BY <1>1, RemoveFirstParts
<1>4. Len(s) >= m => s # <<>> /\ Head(s) = s[1] /\ 1 \in 1..Len(s)
  <2>1. Len(s) >= m => 1 \in 1..Len(s)
    BY <1>1
  <2>2. Len(s) >= m => s # <<>>
    BY <2>1, EmptySeq
  <2> QED
    BY <2>1, <2>2, HeadTailProperties
<1>5. t = LastOf(a, m)
  <2>1. CASE Len(s) >= m
    <3>1. Len(a) = m + 1 /\ Tail(a) = Append(Tail(s), e)
      BY <1>1, <1>2, <1>4, <2>1, HeadTailAppend
    <3> HIDE DEF a
    <3>2. LastOf(a, m) = Tail(a)
      BY <1>2, <3>1, LastOfParts
    <3> QED
      BY <2>1, <3>1, <3>2
  <2>2. CASE ~(Len(s) >= m)
    <3>1. Len(a) <= m
      BY <1>1, <1>2, <2>2
    <3> HIDE DEF a
    <3>2. LastOf(a, m) = a
      BY <1>2, <3>1, LastOfParts
    <3> QED
      BY <2>2, <3>2 DEF a
  <2> QED
    BY <2>1, <2>2
<1>6. /\ t \in Seq(S) /\ Len(t) = Len(s) - d + 1
      /\ \A i \in 1..(Len(s) - d + 1) :
           t[i] = IF i = Len(s) - d + 1 THEN e ELSE s[i + d]
  <2>1. CASE Len(s) >= m
    <3> DEFINE r == Tail(s)
    <3>1. r \in Seq(S) /\ Len(r) = Len(s) - 1 /\ \A i \in 1..Len(r) : r[i] = s[i + 1]
      BY <1>4, <2>1, HeadTailProperties
    <3>2. t = Append(r, e) /\ d = 1
      BY <2>1
    <3> HIDE DEF r
    <3>3. /\ Append(r, e) \in Seq(S) /\ Len(Append(r, e)) = Len(r) + 1
          /\ \A i \in 1..Len(r) : Append(r, e)[i] = r[i]
          /\ Append(r, e)[Len(r) + 1] = e
      BY <3>1, AppendProperties
    <3> HIDE DEF t
    <3> QED
      BY <1>1, <3>1, <3>2, <3>3
  <2>2. CASE ~(Len(s) >= m)
    <3>1. t = a /\ d = 0
      BY <2>2
    <3> HIDE DEF t, d, a
    <3> QED
      BY <1>1, <1>2, <3>1
  <2> QED
    BY <2>1, <2>2
<1>7. Len(t) <= m /\ d \in {0, 1} /\ d <= Len(s) /\ DOMAIN t = 1..(Len(s) - d + 1)
  <2>1. DOMAIN t = 1..Len(t)
    <3> HIDE DEF t
    <3> QED
      BY <1>6, LenProperties
  <2>2. d \in {0, 1} /\ (d = 1 => Len(s) >= m) /\ (d = 0 => Len(s) + 1 <= m)
    BY <1>1
  <2> HIDE DEF d, t
  <2>4. Len(t) <= m /\ d <= Len(s)
    BY <1>1, <1>6, <2>2
  <2> QED
    BY <1>6, <2>1, <2>2, <2>4
<1>8. d = 1 <=> Len(s) >= m
  OBVIOUS
<1> HIDE DEF t, d, a
<1>9. EachOnce(t)
  <2> SUFFICES ASSUME NEW i \in 1..(Len(s) - d + 1), NEW j \in 1..(Len(s) - d + 1),
                      t[i] = t[j]
               PROVE  i = j
    BY <1>6 DEF EachOnce
  <2>1. \A k \in 1..(Len(s) - d + 1) : k # Len(s) - d + 1 => k + d \in 1..Len(s)
    BY <1>1, <1>7
  <2>2. CASE i # Len(s) - d + 1 /\ j # Len(s) - d + 1
    <3>1. s[i + d] = s[j + d] /\ i + d \in 1..Len(s) /\ j + d \in 1..Len(s)
      BY <1>6, <2>1, <2>2
    <3>2. i + d = j + d
      BY <3>1 DEF EachOnce
    <3> QED
      BY <1>7, <3>2
  <2>3. CASE i = Len(s) - d + 1 \/ j = Len(s) - d + 1
    BY <1>1, <1>6, <2>1, <2>3
  <2> QED
    BY <2>2, <2>3
<1>10. \A x : x \in ToSet(t) <=> \/ x = e
                                 \/ \E k \in 1..Len(s) : x = s[k] /\ k # d
  <2>1. ASSUME NEW i \in 1..(Len(s) - d + 1)
        PROVE  t[i] = e \/ \E k \in 1..Len(s) : t[i] = s[k] /\ k # d
    <3>1. CASE i # Len(s) - d + 1
      <4>1. i + d \in 1..Len(s) /\ i + d # d /\ t[i] = s[i + d]
        <5>1. i + d \in 1..Len(s) /\ i + d # d
          BY <1>1, <1>7, <3>1
        <5>2. t[i] = s[i + d]
          BY <1>6, <3>1
        <5> QED
          BY <5>1, <5>2
      <4> QED
        BY <4>1
    <3> QED
      BY <1>6, <3>1
  <2>2. ASSUME NEW k \in 1..Len(s), k # d
        PROVE  \E i \in 1..(Len(s) - d + 1) : t[i] = s[k]
    <3>1. k - d \in 1..(Len(s) - d + 1) /\ k - d # Len(s) - d + 1 /\ (k - d) + d = k
      BY <1>1, <1>7, <2>2
    <3> QED
      BY <1>6, <3>1
  <2>3. Len(s) - d + 1 \in 1..(Len(s) - d + 1)
    BY <1>1, <1>7
  <2>4. t[Len(s) - d + 1] = e
    BY <1>6, <2>3
  <2>5. \A x : x \in ToSet(t) <=> \E i \in 1..(Len(s) - d + 1) : x = t[i]
    BY <1>7 DEF ToSet
  <2>6. ASSUME NEW x, x \in ToSet(t) PROVE x = e \/ \E k \in 1..Len(s) : x = s[k] /\ k # d
    BY <2>1, <2>5, <2>6
  <2>7. e \in ToSet(t)
    BY <2>3, <2>4, <2>5
  <2>8. ASSUME NEW k \in 1..Len(s), k # d PROVE s[k] \in ToSet(t)
    <3>1. PICK i \in 1..(Len(s) - d + 1) : t[i] = s[k]
      BY <2>2, <2>8
    <3> QED
      BY <2>5, <3>1
  <2> QED
    BY <2>6, <2>7, <2>8
<1>11. \A x : x \in ToSet(s) <=> \E k \in 1..Len(s) : x = s[k]
  BY <1>1 DEF ToSet
<1>12. ToSet(t) = (ToSet(s) \cup {e}) \ (IF Len(s) >= m THEN {Head(s)} ELSE {})
  <2>1. CASE d = 0
    BY <1>8, <1>10, <1>11, <2>1
  <2>2. CASE d = 1
    <3>1. Head(s) = s[1] /\ 1 \in 1..Len(s) /\ Len(s) >= m
      BY <1>4, <1>8, <2>2
    <3>2. \A k \in 1..Len(s) : s[k] = s[1] <=> k = 1
      BY <3>1 DEF EachOnce
    <3>3. \A x : x \in ToSet(t) <=> x = e \/ (\E k \in 1..Len(s) : x = s[k] /\ x # s[1])
      BY <1>10, <2>2, <3>2
    <3>4. e # s[1]
      BY <1>1, <3>1
    <3> QED
      BY <1>11, <3>1, <3>3, <3>4
  <2> QED
    BY <1>7, <2>1, <2>2
<1> QED
  BY <1>3, <1>4, <1>5, <1>6, <1>7, <1>9, <1>12 DEF t, a

\* An access to any element, held or not: it becomes the last, and the others
\* keep their order.
TouchedLast(s, e, t, S) ==
  /\ t \in Seq(S) /\ EachOnce(t) /\ ToSet(t) = ToSet(s) \cup {e}
  /\ Len(t) \in Nat \ {0} /\ t[Len(t)] = e
  /\ \A i, j \in 1..(Len(t) - 1) : i < j =>
       \E a, b \in 1..Len(s) : a < b /\ s[a] = t[i] /\ s[b] = t[j]

LEMMA Touching ==
  ASSUME NEW S, NEW s \in Seq(S), EachOnce(s), NEW e \in S
  PROVE  TouchedLast(s, e, Append(RemoveFirst(s, e), e), S)
<1> DEFINE t == Append(RemoveFirst(s, e), e)
           N == Len(s)
<1>1. N \in Nat /\ DOMAIN s = 1..N
  BY LenProperties
<1>2. CASE e \in ToSet(s)
  <2>1. PICK n \in 1..N : s[n] = e
    BY <1>1, <1>2 DEF ToSet
  <2>2. /\ t = Append(RemoveAt(s, n), s[n]) /\ t \in Seq(S) /\ Len(t) = N
        /\ \A i \in 1..N : t[i] = IF i = N THEN s[n] ELSE IF i < n THEN s[i] ELSE s[i + 1]
    <3> DEFINE u == Append(RemoveAt(s, n), s[n])
    <3>1. /\ RemoveFirst(s, s[n]) = RemoveAt(s, n) /\ u \in Seq(S) /\ Len(u) = N
          /\ \A i \in 1..N :
               u[i] = IF i = N THEN s[n] ELSE IF i < n THEN s[i] ELSE s[i + 1]
      BY MovedLast
    <3>2. t = u
      BY <2>1, <3>1
    <3> HIDE DEF t
    <3> QED
      BY <3>1, <3>2
  <2>3. EachOnce(t) /\ ToSet(t) = ToSet(s)
    <3>1. /\ EachOnce(Append(RemoveAt(s, n), s[n]))
          /\ ToSet(Append(RemoveAt(s, n), s[n])) = ToSet(s)
      BY MovedLastKeys
    <3> HIDE DEF t
    <3> QED
      BY <2>2, <3>1
  <2> HIDE DEF t, N
  <2>4. ASSUME NEW i \in 1..(N - 1), NEW j \in 1..(N - 1), i < j
        PROVE  \E a, b \in 1..N : a < b /\ s[a] = t[i] /\ s[b] = t[j]
    <3> DEFINE a == IF i < n THEN i ELSE i + 1
               b == IF j < n THEN j ELSE j + 1
    <3>1. a \in 1..N /\ b \in 1..N /\ a < b
      BY <1>1, <2>1, <2>4
    <3>2. s[a] = t[i] /\ s[b] = t[j]
      BY <1>1, <2>2, <2>4
    <3> QED
      BY <3>1, <3>2
  <2>5. N \in Nat \ {0} /\ t[N] = e
    BY <1>1, <2>1, <2>2
  <2>6. \A i, j \in 1..(Len(t) - 1) : i < j =>
          \E a, b \in 1..N : a < b /\ s[a] = t[i] /\ s[b] = t[j]
    BY <2>2, <2>4
  <2>7. Len(t) \in Nat \ {0} /\ t[Len(t)] = e /\ ToSet(t) = ToSet(s) \cup {e}
    BY <1>2, <2>2, <2>3, <2>5
  <2> QED
    BY <2>2, <2>3, <2>6, <2>7 DEF TouchedLast, t, N
<1>3. CASE e \notin ToSet(s)
  <2> DEFINE m == N + 1
  <2>1. m \in Nat \ {0} /\ N <= m /\ ~(N >= m)
    BY <1>1
  <2>2. \A i \in 1..N : s[i] # e
    BY <1>1, <1>3 DEF ToSet
  <2>3. RemoveFirst(s, e) = s
    BY <2>2, RemoveFirstParts
  <2>4. /\ Append(s, e) \in Seq(S) /\ EachOnce(Append(s, e))
        /\ ToSet(Append(s, e)) = ToSet(s) \cup {e}
    <3> HIDE DEF m
    <3> QED
      BY <1>3, <2>1, StoredLast
  <2>5. /\ Len(Append(s, e)) = N + 1 /\ Append(s, e)[N + 1] = e
        /\ \A i \in 1..N : Append(s, e)[i] = s[i]
    BY AppendProperties
  <2>6. t = Append(s, e)
    BY <2>3
  <2> HIDE DEF t, N
  <2>7. \A i, j \in 1..(Len(t) - 1) : i < j =>
          \E a, b \in 1..N : a < b /\ s[a] = t[i] /\ s[b] = t[j]
    BY <1>1, <2>5, <2>6
  <2>8. Len(t) \in Nat \ {0} /\ t[Len(t)] = e
    BY <1>1, <2>5, <2>6
  <2> QED
    BY <2>4, <2>6, <2>7, <2>8 DEF TouchedLast, t, N
<1> QED
  BY <1>2, <1>3

-----------------------------------------------------------------------------
(* A store that is a sequence of entries, and the sequence of their keys. *)

\* The images of the elements of s under F.
Images(F, s) == [i \in DOMAIN s |-> F[s[i]]]

ImageSet(F, S) == {F[e] : e \in S}

LEMMA ImagesParts ==
  ASSUME NEW S, NEW F, NEW s \in Seq(S)
  PROVE  /\ Images(F, s) \in Seq(ImageSet(F, S)) /\ Len(Images(F, s)) = Len(s)
         /\ \A i \in 1..Len(s) : Images(F, s)[i] = F[s[i]]
<1>1. Len(s) \in Nat /\ DOMAIN s = 1..Len(s) /\ \A i \in 1..Len(s) : s[i] \in S
  BY LenProperties, ElementOfSeq
<1>2. Images(F, s) = [i \in 1..Len(s) |-> F[s[i]]]
  BY <1>1 DEF Images
<1>3. \A i \in 1..Len(s) : F[s[i]] \in ImageSet(F, S)
  BY <1>1 DEF ImageSet
<1> QED
  BY <1>1, <1>2, <1>3

LEMMA ImagesAre ==
  ASSUME NEW S, NEW F, NEW r \in Seq(S), NEW q \in Seq(ImageSet(F, S)),
         Len(r) = Len(q), \A i \in 1..Len(q) : q[i] = F[r[i]]
  PROVE  Images(F, r) = q
<1>1. Images(F, r) \in Seq(ImageSet(F, S))
  BY ImagesParts
<1>2. Len(Images(F, r)) = Len(r)
  BY <1>1, ImagesParts
<1>3. ASSUME NEW i \in 1..Len(r) PROVE Images(F, r)[i] = F[r[i]]
  BY <1>1, ImagesParts
<1> QED
  BY <1>1, <1>2, <1>3, SeqEqual

\* Taking the images commutes with what a store does to its entries.
LEMMA ImagesRemoved ==
  ASSUME NEW S, NEW F, NEW s \in Seq(S), NEW n \in 1..Len(s)
  PROVE  Images(F, RemoveAt(s, n)) = RemoveAt(Images(F, s), n)
<1> DEFINE k == Images(F, s)
           r == RemoveAt(s, n)
           q == RemoveAt(k, n)
<1>1. k \in Seq(ImageSet(F, S))
  BY ImagesParts
<1>2. Len(k) = Len(s) /\ Len(s) \in Nat
  BY <1>1, ImagesParts, LenProperties
<1>3. ASSUME NEW i \in 1..Len(s) PROVE k[i] = F[s[i]]
  BY <1>1, ImagesParts
<1> HIDE DEF k
<1>4. /\ r \in Seq(S) /\ Len(r) = Len(s) - 1
      /\ \A i \in 1..(Len(s) - 1) : r[i] = IF i < n THEN s[i] ELSE s[i + 1]
  BY RemoveAtShape
<1>5. /\ q \in Seq(ImageSet(F, S)) /\ Len(q) = Len(s) - 1
      /\ \A i \in 1..(Len(s) - 1) : q[i] = IF i < n THEN k[i] ELSE k[i + 1]
  BY <1>1, <1>2, RemoveAtShape
<1> HIDE DEF r, q
<1>6. ASSUME NEW i \in 1..Len(q) PROVE q[i] = F[r[i]]
  <2>1. i \in 1..(Len(s) - 1) /\ i \in 1..Len(s) /\ i + 1 \in 1..Len(s)
    BY <1>2, <1>5
  <2> QED
    BY <1>3, <1>4, <1>5, <2>1
<1>7. Images(F, r) = q
  BY <1>4, <1>5, <1>6, ImagesAre
<1> QED
  BY <1>7 DEF r, q, k

LEMMA ImagesAppended ==
  ASSUME NEW S, NEW F, NEW s \in Seq(S), NEW e \in S
  PROVE  Images(F, Append(s, e)) = Append(Images(F, s), F[e])
<1> DEFINE k == Images(F, s)
           r == Append(s, e)
           q == Append(k, F[e])
<1>1. k \in Seq(ImageSet(F, S))
  BY ImagesParts
<1>2. Len(k) = Len(s) /\ Len(s) \in Nat
  BY <1>1, ImagesParts, LenProperties
<1>3. ASSUME NEW i \in 1..Len(s) PROVE k[i] = F[s[i]]
  BY <1>1, ImagesParts
<1> HIDE DEF k
<1>4. /\ r \in Seq(S) /\ Len(r) = Len(s) + 1 /\ r[Len(s) + 1] = e
      /\ \A i \in 1..Len(s) : r[i] = s[i]
  BY AppendProperties
<1>5. /\ q \in Seq(ImageSet(F, S)) /\ Len(q) = Len(s) + 1 /\ q[Len(s) + 1] = F[e]
      /\ \A i \in 1..Len(s) : q[i] = k[i]
  <2>1. F[e] \in ImageSet(F, S)
    BY DEF ImageSet
  <2> QED
    BY <1>1, <1>2, <2>1, AppendProperties
<1> HIDE DEF r, q
<1>6. ASSUME NEW i \in 1..Len(q) PROVE q[i] = F[r[i]]
  <2>1. i \in 1..Len(s) \/ i = Len(s) + 1
    BY <1>2, <1>5
  <2> QED
    BY <1>3, <1>4, <1>5, <2>1
<1>7. Images(F, r) = q
  BY <1>4, <1>5, <1>6, ImagesAre
<1> QED
  BY <1>7 DEF r, q, k

LEMMA ImagesOfTail ==
  ASSUME NEW S, NEW F, NEW s \in Seq(S), s # <<>>
  PROVE  Images(F, Tail(s)) = Tail(Images(F, s))
<1> DEFINE k == Images(F, s)
           r == Tail(s)
           q == Tail(k)
<1>1. k \in Seq(ImageSet(F, S))
  BY ImagesParts
<1>2. Len(k) = Len(s) /\ Len(s) \in Nat
  BY <1>1, ImagesParts, LenProperties
<1>3. ASSUME NEW i \in 1..Len(s) PROVE k[i] = F[s[i]]
  BY <1>1, ImagesParts
<1> HIDE DEF k
<1>4. k # <<>> /\ Len(s) # 0
  BY <1>1, <1>2, EmptySeq
<1>5. /\ r \in Seq(S) /\ Len(r) = Len(s) - 1
      /\ \A i \in 1..Len(r) : r[i] = s[i + 1]
  BY HeadTailProperties
<1>6. /\ q \in Seq(ImageSet(F, S)) /\ Len(q) = Len(s) - 1
      /\ \A i \in 1..Len(q) : q[i] = k[i + 1]
  BY <1>1, <1>2, <1>4, HeadTailProperties
<1> HIDE DEF r, q
<1>7. ASSUME NEW i \in 1..Len(q) PROVE q[i] = F[r[i]]
  <2>1. i + 1 \in 1..Len(s) /\ i \in 1..Len(r)
    BY <1>2, <1>4, <1>5, <1>6
  <2> QED
    BY <1>3, <1>5, <1>6, <1>7, <2>1
<1>8. Images(F, r) = q
  BY <1>5, <1>6, <1>7, ImagesAre
<1> QED
  BY <1>8 DEF r, q, k

\* A hit moves its entry to the end: its key is now the last.
LEMMA HitImages ==
  ASSUME NEW S, NEW F, NEW s \in Seq(S), EachOnce(Images(F, s)),
         NEW n \in 1..Len(s)
  PROVE  LET k == Images(F, s)  x == F[s[n]]
         IN /\ x \in ToSet(k)
            /\ Images(F, Append(RemoveAt(s, n), s[n])) = Append(RemoveFirst(k, x), x)
<1>0. /\ Images(F, s) \in Seq(ImageSet(F, S)) /\ Len(Images(F, s)) = Len(s)
      /\ \A i \in 1..Len(s) : Images(F, s)[i] = F[s[i]]
      /\ Images(F, RemoveAt(s, n)) = RemoveAt(Images(F, s), n)
  <2>1. Images(F, s) \in Seq(ImageSet(F, S))
    BY ImagesParts
  <2>2. Len(Images(F, s)) = Len(s)
    BY ImagesParts, <2>1
  <2>3. ASSUME NEW i \in 1..Len(s) PROVE Images(F, s)[i] = F[s[i]]
    BY ImagesParts, <2>1
  <2>4. Images(F, RemoveAt(s, n)) = RemoveAt(Images(F, s), n)
    BY ImagesRemoved
  <2> QED
    BY <2>1, <2>2, <2>3, <2>4
<1> DEFINE k == Images(F, s)
           r == RemoveAt(s, n)
<1>1. k \in Seq(ImageSet(F, S)) /\ Len(k) = Len(s) /\ k[n] = F[s[n]] /\ s[n] \in S
  BY <1>0, ElementOfSeq
<1>2. k[n] \in ToSet(k)
  <2> HIDE DEF k
  <2>1. DOMAIN k = 1..Len(s)
    BY <1>1, LenProperties
  <2> QED
    BY <2>1 DEF ToSet
<1>3. r \in Seq(S) /\ Images(F, r) = RemoveAt(k, n)
  BY <1>0, RemoveAtShape
<1>4. RemoveFirst(k, k[n]) = RemoveAt(k, n)
  <2> HIDE DEF k
  <2>1. EachOnce(k) /\ n \in 1..Len(k)
    BY <1>1 DEF k
  <2> QED
    BY <1>1, <2>1, MovedLast
<1> HIDE DEF k, r
<1>5. Images(F, Append(r, s[n])) = Append(Images(F, r), F[s[n]])
  BY <1>1, <1>3, ImagesAppended
<1> QED
  BY <1>1, <1>2, <1>3, <1>4, <1>5 DEF k, r

\* An entry with a new key is appended, and the first one makes room: its key
\* is now the last of at most m.
LEMMA MissImages ==
  ASSUME NEW S, NEW F, NEW s \in Seq(S),
         NEW e \in S, F[e] \notin ToSet(Images(F, s)), NEW m \in Nat, Len(s) <= m
  PROVE  LET k == Images(F, s)  q == Append(s, e)
         IN Images(F, IF Len(q) > m THEN Tail(q) ELSE q)
              = LastOf(Append(RemoveFirst(k, F[e]), F[e]), m)
<1> DEFINE k == Images(F, s)
           x == F[e]
           q == Append(s, e)
           a == Append(k, x)
<1>1. /\ k \in Seq(ImageSet(F, S)) /\ Len(k) = Len(s) /\ Len(s) \in Nat
      /\ x \in ImageSet(F, S) /\ x \notin ToSet(k)
  <2>1. Len(s) \in Nat /\ x \in ImageSet(F, S)
    BY LenProperties DEF ImageSet
  <2> QED
    BY <2>1, ImagesParts
<1>2. q \in Seq(S) /\ Len(q) = Len(s) + 1 /\ q # <<>>
  <2>1. q \in Seq(S) /\ Len(q) = Len(s) + 1
    BY AppendProperties
  <2> HIDE DEF q
  <2> QED
    BY <1>1, <2>1, EmptySeq
<1>3. Images(F, q) = a
  BY ImagesAppended
<1> HIDE DEF k, x, q
<1>4. RemoveFirst(k, x) = k
  <2>1. DOMAIN k = 1..Len(k)
    BY <1>1, LenProperties
  <2>2. \A i \in 1..Len(k) : k[i] # x
    BY <1>1, <2>1 DEF ToSet
  <2> QED
    BY <1>1, <2>2, RemoveFirstParts
<1>5. a \in Seq(ImageSet(F, S)) /\ Len(a) = Len(s) + 1
  BY <1>1, AppendProperties
<1> HIDE DEF a
<1>6. CASE Len(q) > m
  <2>1. Len(a) = m + 1
    BY <1>1, <1>2, <1>5, <1>6
  <2>2. LastOf(a, m) = Tail(a)
    BY <1>5, <2>1, LastOfParts
  <2>3. Images(F, Tail(q)) = Tail(a)
    BY <1>2, <1>3, ImagesOfTail
  <2> QED
    BY <1>4, <1>6, <2>2, <2>3 DEF k, x, q, a
<1>7. CASE ~(Len(q) > m)
  <2>1. Len(a) <= m
    BY <1>1, <1>2, <1>5, <1>7
  <2>2. LastOf(a, m) = a
    BY <1>5, <2>1, LastOfParts
  <2> QED
    BY <1>3, <1>4, <1>7, <2>2 DEF k, x, q, a
<1> QED
  BY <1>6, <1>7

-----------------------------------------------------------------------------
(* The last n of a sequence that lists its elements once. *)

LEMMA LastOfShape ==
  ASSUME NEW S, NEW s \in Seq(S), NEW n \in Nat, n <= Len(s)
  PROVE  /\ LastOf(s, n) \in Seq(S) /\ Len(LastOf(s, n)) = n
         /\ \A i \in 1..n : LastOf(s, n)[i] = s[Len(s) - n + i]
<1> DEFINE N == Len(s)
           t == SubSeq(s, N - n + 1, N)
<1>1. N \in Nat /\ \A i \in 1..N : s[i] \in S
  BY LenProperties, ElementOfSeq
<1>2. LastOf(s, n) = t
  <2>1. (IF n < N THEN n ELSE N) = n
    BY <1>1
  <2> QED
    BY <2>1 DEF LastOf
<1> HIDE DEF N
<1>3. /\ t \in Seq(S)
      /\ Len(t) = IF N - n + 1 <= N THEN N - (N - n + 1) + 1 ELSE 0
      /\ \A i \in 1..(N - (N - n + 1) + 1) : t[i] = s[(N - n + 1) + i - 1]
  <2>1. N - n + 1 \in 1..(N + 1) /\ \A i \in (N - n + 1)..N : s[i] \in S
    BY <1>1 DEF N
  <2> QED
    BY <1>1, <2>1, SubSeqProperties DEF N
<1> HIDE DEF t
<1>4. Len(t) = n
  BY <1>1, <1>3 DEF N
<1>5. ASSUME NEW i \in 1..n PROVE t[i] = s[N - n + i]
  <2>1. i \in 1..(N - (N - n + 1) + 1) /\ (N - n + 1) + i - 1 = N - n + i
    BY <1>1
  <2> QED
    BY <1>3, <2>1
<1> QED
  BY <1>2, <1>3, <1>4, <1>5 DEF N

LEMMA LastOfTwice ==
  ASSUME NEW S, NEW s \in Seq(S), NEW n \in Nat
  PROVE  /\ LastOf(s, n) \in Seq(S) /\ Len(LastOf(s, n)) <= n
         /\ LastOf(LastOf(s, n), n) = LastOf(s, n)
<1>1. Len(s) \in Nat
  BY LenProperties
<1>2. LastOf(s, n) \in Seq(S) /\ Len(LastOf(s, n)) <= n
  <2>1. CASE n <= Len(s)
    BY <2>1, LastOfShape
  <2>2. CASE ~(n <= Len(s))
    <3>1. LastOf(s, n) = s
      BY <1>1, <2>2, LastOfParts
    <3> QED
      BY <1>1, <2>2, <3>1
  <2> QED
    BY <2>1, <2>2
<1> QED
  BY <1>2, LastOfParts

\* What a touch makes of a sequence that has k at place p, and of one that has
\* not; and the last n of a sequence.
HeldTouched(S, s, k, p, t) ==
  /\ t \in Seq(S) /\ Len(t) = Len(s)
  /\ \A i \in 1..Len(s) : t[i] = IF i = Len(s) THEN k ELSE IF i < p THEN s[i] ELSE s[i + 1]

NewTouched(S, s, k, t) ==
  /\ t \in Seq(S) /\ Len(t) = Len(s) + 1 /\ t[Len(s) + 1] = k
  /\ \A i \in 1..Len(s) : t[i] = s[i]

Lasts(S, s, n, u) ==
  u \in Seq(S) /\ Len(u) = n /\ \A i \in 1..n : u[i] = s[Len(s) - n + i]

LEMMA TouchedHeld ==
  ASSUME NEW S, NEW s \in Seq(S), EachOnce(s), NEW p \in 1..Len(s)
  PROVE  HeldTouched(S, s, s[p], p, Append(RemoveFirst(s, s[p]), s[p]))
<1> DEFINE r == Append(RemoveAt(s, p), s[p])
<1>1. /\ RemoveFirst(s, s[p]) = RemoveAt(s, p)
      /\ r \in Seq(S) /\ Len(r) = Len(s)
      /\ \A i \in 1..Len(s) :
           r[i] = IF i = Len(s) THEN s[p] ELSE IF i < p THEN s[i] ELSE s[i + 1]
  BY MovedLast
<1> QED
  BY <1>1 DEF HeldTouched

LEMMA TouchedNew ==
  ASSUME NEW S, NEW s \in Seq(S), NEW k \in S, \A i \in 1..Len(s) : s[i] # k
  PROVE  NewTouched(S, s, k, Append(RemoveFirst(s, k), k))
<1>1. RemoveFirst(s, k) = s
  BY RemoveFirstParts
<1> QED
  BY <1>1, AppendProperties DEF NewTouched

LEMMA LastOfMany ==
  ASSUME NEW S, NEW s \in Seq(S), NEW n \in Nat, n <= Len(s)
  PROVE  Lasts(S, s, n, LastOf(s, n))
BY LastOfShape DEF Lasts

\* Touching a sequence and touching its last n leaves the same last n.
LEMMA LastOfTouched ==
  ASSUME NEW S, NEW s \in Seq(S), EachOnce(s), NEW k \in S, NEW n \in Nat
  PROVE  LastOf(Append(RemoveFirst(s, k), k), n)
           = LastOf(Append(RemoveFirst(LastOf(s, n), k), k), n)
<1>1. PICK N \in Nat : N = Len(s) /\ DOMAIN s = 1..N
  BY LenProperties
<1>2. PICK t : t = Append(RemoveFirst(s, k), k)
  OBVIOUS
<1>3. PICK u : u = LastOf(s, n)
  OBVIOUS
<1>4. PICK v : v = Append(RemoveFirst(u, k), k)
  OBVIOUS
<1> SUFFICES LastOf(t, n) = LastOf(v, n)
  BY <1>2, <1>3, <1>4
<1>5. CASE N <= n
  BY <1>1, <1>2, <1>3, <1>4, <1>5, LastOfParts
<1>6. CASE n < N
  <2>1. u \in Seq(S) /\ Len(u) = n /\ \A i \in 1..n : u[i] = s[N - n + i]
    <3>1. Lasts(S, s, n, u)
      BY <1>1, <1>3, <1>6, LastOfMany
    <3> QED
      BY <1>1, <3>1 DEF Lasts
  <2>2. \A i, j \in 1..N : s[i] = s[j] => i = j
    BY <1>1 DEF EachOnce
  <2>3. EachOnce(u)
    <3> SUFFICES ASSUME NEW i \in 1..n, NEW j \in 1..n, u[i] = u[j] PROVE i = j
      BY <2>1 DEF EachOnce
    <3>1. N - n + i \in 1..N /\ N - n + j \in 1..N /\ s[N - n + i] = s[N - n + j]
      BY <1>6, <2>1
    <3>2. N - n + i = N - n + j
      BY <2>2, <3>1
    <3> QED
      BY <3>2
  <2>4. PICK a : a = LastOf(t, n)
    OBVIOUS
  <2>5. PICK b : b = LastOf(v, n)
    OBVIOUS
  <2>6. ASSUME NEW p \in 1..N, s[p] = k PROVE a = b
    <3>1. /\ t \in Seq(S) /\ Len(t) = N
          /\ \A i \in 1..N : t[i] = IF i = N THEN k ELSE IF i < p THEN s[i] ELSE s[i + 1]
      <4>1. HeldTouched(S, s, k, p, t)
        BY <1>1, <1>2, <2>6, TouchedHeld
      <4> QED
        BY <1>1, <4>1 DEF HeldTouched
    <3>2. a \in Seq(S) /\ Len(a) = n /\ \A i \in 1..n : a[i] = t[N - n + i]
      <4>1. Lasts(S, t, n, a)
        BY <1>6, <2>4, <3>1, LastOfMany
      <4> QED
        BY <3>1, <4>1 DEF Lasts
    <3>3. CASE p <= N - n
      <4>1. ASSUME NEW i \in 1..n PROVE u[i] # k
        <5>1. N - n + i \in 1..N /\ N - n + i # p
          BY <1>6, <3>3
        <5> QED
          BY <2>1, <2>2, <2>6, <5>1
      <4>2. v \in Seq(S) /\ Len(v) = n + 1 /\ v[n + 1] = k /\ \A i \in 1..n : v[i] = u[i]
        <5>1. NewTouched(S, u, k, v)
          BY <1>4, <2>1, <4>1, TouchedNew
        <5> QED
          BY <2>1, <5>1 DEF NewTouched
      <4>3. b \in Seq(S) /\ Len(b) = n /\ \A i \in 1..n : b[i] = v[(n + 1) - n + i]
        <5>1. Lasts(S, v, n, b)
          BY <2>5, <4>2, LastOfMany
        <5> QED
          BY <4>2, <5>1 DEF Lasts
      <4>4. ASSUME NEW i \in 1..n PROVE a[i] = b[i]
        <5>1. CASE i = n
          <6>1. N - n + i = N /\ N \in 1..N /\ (n + 1) - n + i = n + 1
            BY <1>6, <5>1
          <6> QED
            BY <3>1, <3>2, <4>2, <4>3, <6>1
        <5>2. CASE i # n
          <6>1. /\ 1 + i \in 1..n /\ (n + 1) - n + i = 1 + i
                /\ N - n + i \in 1..N /\ N - n + i # N /\ ~(N - n + i < p)
                /\ (N - n + i) + 1 = N - n + (1 + i)
            BY <1>6, <3>3, <5>2
          <6>2. b[i] = s[N - n + (1 + i)]
            BY <2>1, <4>2, <4>3, <6>1
          <6>3. a[i] = s[(N - n + i) + 1]
            BY <3>1, <3>2, <6>1
          <6> QED
            BY <6>1, <6>2, <6>3
        <5> QED
          BY <5>1, <5>2
      <4> QED
        BY <3>2, <4>3, <4>4, SeqEqual
    <3>4. CASE ~(p <= N - n)
      <4>1. PICK q \in 1..n : N - n + q = p
        <5>1. p - (N - n) \in 1..n /\ N - n + (p - (N - n)) = p
          BY <1>6, <3>4
        <5> QED
          BY <5>1
      <4>2. u[q] = k
        BY <2>1, <2>6, <4>1
      <4>3. /\ v \in Seq(S) /\ Len(v) = n
            /\ \A i \in 1..n : v[i] = IF i = n THEN k ELSE IF i < q THEN u[i] ELSE u[i + 1]
        <5>1. HeldTouched(S, u, k, q, v)
          BY <1>4, <2>1, <2>3, <4>2, TouchedHeld
        <5> QED
          BY <2>1, <5>1 DEF HeldTouched
      <4>4. b = v
        BY <2>5, <4>3, LastOfParts
      <4>5. ASSUME NEW i \in 1..n PROVE a[i] = v[i]
        <5>1. CASE i = n
          <6>1. N - n + i = N /\ N \in 1..N
            BY <1>6, <5>1
          <6> QED
            BY <3>1, <3>2, <4>3, <5>1, <6>1
        <5>2. CASE i # n
          <6>1. /\ i + 1 \in 1..n /\ N - n + i \in 1..N /\ N - n + i # N
                /\ (N - n + i < p) <=> (i < q)
                /\ (N - n + i) + 1 = N - n + (i + 1)
            BY <1>6, <4>1, <5>2
          <6>2. v[i] = IF i < q THEN s[N - n + i] ELSE s[N - n + (i + 1)]
            BY <2>1, <4>3, <5>2, <6>1
          <6>3. a[i] = IF i < q THEN s[N - n + i] ELSE s[(N - n + i) + 1]
            BY <3>1, <3>2, <6>1
          <6> QED
            BY <6>1, <6>2, <6>3
        <5> QED
          BY <5>1, <5>2
      <4> QED
        BY <3>2, <4>3, <4>4, <4>5, SeqEqual
    <3> QED
      BY <3>3, <3>4
  <2>7. CASE \A i \in 1..N : s[i] # k
    <3>1. t \in Seq(S) /\ Len(t) = N + 1 /\ t[N + 1] = k /\ \A i \in 1..N : t[i] = s[i]
      <4>1. NewTouched(S, s, k, t)
        BY <1>1, <1>2, <2>7, TouchedNew
      <4> QED
        BY <1>1, <4>1 DEF NewTouched
    <3>2. ASSUME NEW i \in 1..n PROVE u[i] # k
      <4>1. N - n + i \in 1..N
        BY <1>6
      <4> QED
        BY <2>1, <2>7, <4>1
    <3>3. v \in Seq(S) /\ Len(v) = n + 1 /\ v[n + 1] = k /\ \A i \in 1..n : v[i] = u[i]
      <4>1. NewTouched(S, u, k, v)
        BY <1>4, <2>1, <3>2, TouchedNew
      <4> QED
        BY <2>1, <4>1 DEF NewTouched
    <3>4. b \in Seq(S) /\ Len(b) = n /\ \A i \in 1..n : b[i] = v[(n + 1) - n + i]
      <4>1. Lasts(S, v, n, b)
        BY <2>5, <3>3, LastOfMany
      <4> QED
        BY <3>3, <4>1 DEF Lasts
    <3>5. a \in Seq(S) /\ Len(a) = n /\ \A i \in 1..n : a[i] = t[(N + 1) - n + i]
      <4>1. n <= Len(t)
        BY <1>6, <3>1
      <4>2. Lasts(S, t, n, a)
        BY <2>4, <3>1, <4>1, LastOfMany
      <4> QED
        BY <3>1, <4>2 DEF Lasts
    <3>6. ASSUME NEW i \in 1..n PROVE a[i] = b[i]
      <4>1. CASE i = n
        <5>1. (N + 1) - n + i = N + 1 /\ (n + 1) - n + i = n + 1
          BY <4>1
        <5> QED
          BY <3>1, <3>3, <3>4, <3>5, <5>1
      <4>2. CASE i # n
        <5>1. /\ (N + 1) - n + i \in 1..N /\ 1 + i \in 1..n /\ (n + 1) - n + i = 1 + i
              /\ (N + 1) - n + i = N - n + (1 + i)
          BY <1>6, <4>2
        <5>2. a[i] = s[(N + 1) - n + i]
          BY <3>1, <3>5, <5>1
        <5>3. b[i] = s[N - n + (1 + i)]
          BY <2>1, <3>3, <3>4, <5>1
        <5> QED
          BY <5>1, <5>2, <5>3
      <4> QED
        BY <4>1, <4>2
    <3>7. Len(a) = Len(b) /\ \A i \in 1..Len(a) : a[i] = b[i]
      BY <3>4, <3>5, <3>6
    <3>8. a = b
      BY <3>4, <3>5, <3>7, SeqEqual
    <3> QED
      BY <2>4, <2>5, <3>8
  <2> QED
    BY <2>4, <2>5, <2>6, <2>7
<1> QED
  BY <1>1, <1>5, <1>6

-----------------------------------------------------------------------------
(* Folds and flattened sequences. *)

\* The largest of the first k positions is the k-th.
LEMMA MaxOfRange ==
  ASSUME NEW k \in Nat, k # 0
  PROVE  Max(1..k) = k
BY DEF Max

\* The largest of a non-empty set of places is one of them.
LEMMA MaxIn ==
  ASSUME NEW n \in Nat, NEW s \in SUBSET (1..n), s # {}
  PROVE  Max(s) \in s /\ \A y \in s : Max(s) >= y
<1> DEFINE T == {n - x : x \in s}
<1>1. T \in SUBSET Nat /\ T # {}
  <2>1. \A x \in s : n - x \in Nat
    OBVIOUS
  <2> QED
    BY <2>1
<1>2. PICK t \in T : \A y \in T : t <= y
  <2> HIDE DEF T
  <2> QED
    BY <1>1, LeastNatural
<1>3. PICK x \in s : t = n - x
  OBVIOUS
<1>4. \A y \in s : n - y \in T
  OBVIOUS
<1> HIDE DEF T
<1>5. \A y \in s : x >= y
  BY <1>2, <1>3, <1>4
<1> QED
  BY <1>5 DEF Max

\* A fold over the places of a sequence, by a function of what is folded so far
\* and the next element: there is a table of what each set of places gives.
FoldTable(g, F, base, s) ==
  /\ DOMAIN g = SUBSET DOMAIN s
  /\ \A t \in SUBSET DOMAIN s :
       g[t] = IF t = {} THEN base ELSE F[g[t \ {Max(t)}], s[Max(t)]]

\* There is such a table, when F stays within a set.
LEMMA FoldTableExists ==
  ASSUME NEW A, NEW B, NEW F \in [A \X B -> A], NEW base \in A, NEW s \in Seq(B)
  PROVE  \E g \in [SUBSET DOMAIN s -> A] : FoldTable(g, F, base, s)
<1>n. PICK n : n = Len(s)
  OBVIOUS
<1> DEFINE Step(g, t) == IF t = {} THEN base ELSE F[g[t \ {Max(t)}], s[Max(t)]]
           Good(k) == \E g \in [SUBSET (1..k) -> A] : \A t \in SUBSET (1..k) : g[t] = Step(g, t)
           T == {k \in 0..n : ~Good(k)}
<1>0. n \in Nat /\ DOMAIN s = 1..n /\ \A i \in 1..n : s[i] \in B
  BY <1>n, LenProperties, ElementOfSeq
<1>1. Good(0)
  <2> DEFINE g == [t \in SUBSET (1..0) |-> base]
  <2>1. g \in [SUBSET (1..0) -> A] /\ \A t \in SUBSET (1..0) : t = {} /\ g[t] = base
    OBVIOUS
  <2> QED
    BY <2>1
<1>2. ASSUME NEW k \in 1..n, Good(k - 1) PROVE Good(k)
  <2>1. PICK g \in [SUBSET (1..(k - 1)) -> A] : \A t \in SUBSET (1..(k - 1)) : g[t] = Step(g, t)
    BY <1>2
  <2> DEFINE h == [t \in SUBSET (1..k) |-> Step(g, t)]
  <2>2. ASSUME NEW t \in SUBSET (1..k), t # {}
        PROVE  /\ Max(t) \in 1..n
               /\ t \ {Max(t)} \in SUBSET (1..(k - 1))
    <3>1. k \in Nat
      BY <1>0
    <3>2. Max(t) \in t /\ \A y \in t : Max(t) >= y
      BY <2>2, <3>1, MaxIn
    <3>3. PICK m : m = Max(t)
      OBVIOUS
    <3>4. m \in 1..k /\ \A y \in t : y \in 1..k /\ m >= y
      BY <3>2, <3>3
    <3>5. \A y \in t : y # m => y \in 1..(k - 1)
      BY <3>1, <3>4
    <3>6. m \in 1..n
      BY <1>0, <3>4
    <3> QED
      BY <3>3, <3>5, <3>6
  <2>3. ASSUME NEW t \in SUBSET (1..k) PROVE Step(g, t) \in A
    <3>1. CASE t = {}
      BY <3>1
    <3>2. CASE t # {}
      <4>1. g[t \ {Max(t)}] \in A /\ s[Max(t)] \in B
        BY <1>0, <2>2, <3>2
      <4> QED
        BY <3>2, <4>1
    <3> QED
      BY <3>1, <3>2
  <2>4. h \in [SUBSET (1..k) -> A]
    BY <2>3
  <2>5. ASSUME NEW t \in SUBSET (1..k) PROVE h[t] = Step(h, t)
    <3>1. CASE t = {}
      BY <3>1
    <3>2. CASE t # {}
      <4> DEFINE u == t \ {Max(t)}
      <4>1. u \in SUBSET (1..(k - 1))
        BY <2>2, <3>2
      <4>2. u \in SUBSET (1..k)
        BY <1>0, <4>1
      <4>3. h[u] = g[u]
        BY <2>1, <4>1, <4>2
      <4>4. h[t] = F[g[u], s[Max(t)]]
        BY <3>2
      <4> HIDE DEF h
      <4> QED
        BY <3>2, <4>3, <4>4
    <3> QED
      BY <3>1, <3>2
  <2> HIDE DEF h
  <2> QED
    BY <2>4, <2>5
<1>3. ASSUME NEW k \in 0..n PROVE Good(k)
  <2> SUFFICES ASSUME ~Good(k) PROVE FALSE
    OBVIOUS
  <2>1. T \in SUBSET Nat /\ k \in T
    <3> HIDE DEF Good
    <3> QED
      BY <1>0
  <2>2. PICK m \in T : \A j \in T : m <= j
    <3> HIDE DEF T
    <3> QED
      BY <2>1, LeastNatural
  <2>3. m \in 0..n /\ ~Good(m)
    BY <2>2
  <2>4. m # 0
    <3> HIDE DEF Good
    <3> QED
      BY <1>1, <2>3
  <2>5. m \in 1..n /\ m - 1 \in 0..n /\ m - 1 < m
    <3> HIDE DEF Good
    <3> QED
      BY <1>0, <2>3, <2>4
  <2>6. m - 1 \notin T
    <3>1. PICK j : j = m - 1
      OBVIOUS
    <3>2. j \in T => m <= j
      <4> HIDE DEF T
      <4> QED
        BY <2>2
    <3> HIDE DEF T, Good
    <3>3. m \in Int
      BY <1>0, <2>5
    <3>4. ~(m <= m - 1)
      BY <3>3
    <3> QED
      BY <3>1, <3>2, <3>4
  <2> HIDE DEF Good
  <2> QED
    BY <1>2, <2>3, <2>5, <2>6
<1>4. PICK g \in [SUBSET (1..n) -> A] : \A t \in SUBSET (1..n) : g[t] = Step(g, t)
  <2>1. Good(n)
    <3> HIDE DEF Good
    <3> QED
      BY <1>0, <1>3
  <2> QED
    BY <2>1
<1>5. FoldTable(g, F, base, s)
  BY <1>0, <1>4 DEF FoldTable
<1> QED
  BY <1>0, <1>5

\* It is filled from left to right.
LEMMA FoldTableSteps ==
  ASSUME NEW B, NEW s \in Seq(B), NEW k \in 1..Len(s)
  PROVE  /\ Max(1..k) = k /\ (1..k) \ {k} = 1..(k - 1)
         /\ 1..k \in SUBSET DOMAIN s /\ 1..(k - 1) \in SUBSET DOMAIN s
         /\ 1..k # {}
<1>1. Len(s) \in Nat /\ DOMAIN s = 1..Len(s)
  BY LenProperties
<1>2. k \in 1..k /\ \A y \in 1..k : k >= y
  BY <1>1
<1>3. Max(1..k) = k
  BY <1>1, <1>2 DEF Max
<1>4. /\ (1..k) \ {k} = 1..(k - 1)
      /\ 1..k \subseteq 1..Len(s) /\ 1..(k - 1) \subseteq 1..Len(s)
  BY <1>1
<1> QED
  BY <1>1, <1>2, <1>3, <1>4

\* What each prefix gives.
Fold(G, F, base, s) ==
  /\ G[0] = base
  /\ \A k \in 1..Len(s) : G[k] = F[G[k - 1], s[k]]

\* A fold exists, when F stays within a set.
LEMMA FoldExists ==
  ASSUME NEW A, NEW B, NEW F \in [A \X B -> A], NEW base \in A, NEW s \in Seq(B)
  PROVE  \E G \in [0..Len(s) -> A] : Fold(G, F, base, s)
<1>1. PICK g \in [SUBSET DOMAIN s -> A] : FoldTable(g, F, base, s)
  BY FoldTableExists
<1>2. Len(s) \in Nat /\ DOMAIN s = 1..Len(s)
  BY LenProperties
<1> DEFINE G == [k \in 0..Len(s) |-> g[1..k]]
<1>3. \A k \in 0..Len(s) : 1..k \in SUBSET DOMAIN s
  BY <1>2
<1>4. G \in [0..Len(s) -> A]
  BY <1>3
<1>5. G[0] = base
  <2>1. 1..0 = {} /\ 0 \in 0..Len(s)
    BY <1>2
  <2> QED
    BY <1>1, <2>1 DEF FoldTable
<1>6. ASSUME NEW k \in 1..Len(s) PROVE G[k] = F[G[k - 1], s[k]]
  <2>1. k \in 0..Len(s) /\ k - 1 \in 0..Len(s)
    BY <1>2
  <2>2. g[1..k] = F[g[1..(k - 1)], s[k]]
    BY <1>1, FoldTableSteps DEF FoldTable
  <2> QED
    BY <2>1, <2>2
<1> HIDE DEF G
<1> QED
  BY <1>4, <1>5, <1>6 DEF Fold

\* Two folds of the same function agree.
LEMMA FoldUnique ==
  ASSUME NEW s, Len(s) \in Nat, NEW F, NEW base, NEW G, NEW H,
         Fold(G, F, base, s), Fold(H, F, base, s)
  PROVE  \A k \in 0..Len(s) : G[k] = H[k]
<1> DEFINE T == {k \in 0..Len(s) : G[k] # H[k]}
<1>1. Len(s) \in Nat
  OBVIOUS
<1> SUFFICES ASSUME T # {} PROVE FALSE
  OBVIOUS
<1>2. T \in SUBSET Nat
  BY <1>1
<1>3. PICK m \in T : \A j \in T : m <= j
  <2> HIDE DEF T
  <2> QED
    BY <1>2, LeastNatural
<1>4. m \in 0..Len(s) /\ G[m] # H[m]
  OBVIOUS
<1>5. m # 0
  BY <1>4 DEF Fold
<1>6. m \in 1..Len(s) /\ m - 1 \in 0..Len(s) /\ ~(m <= m - 1)
  BY <1>1, <1>4, <1>5
<1>7. m - 1 \notin T
  <2> HIDE DEF T
  <2> QED
    BY <1>3, <1>6
<1>8. G[m - 1] = H[m - 1]
  BY <1>6, <1>7
<1> QED
  BY <1>4, <1>6, <1>8 DEF Fold

\* A set of sequences that has the empty one and, with a sequence, all its
\* extensions has every sequence.
LEMMA EverySequence ==
  ASSUME NEW S, NEW P \in SUBSET Seq(S), <<>> \in P,
         \A s \in P : \A x \in S : Append(s, x) \in P
  PROVE  \A s \in Seq(S) : s \in P
<1> DEFINE T == {n \in Nat : \E s \in Seq(S) : Len(s) = n /\ s \notin P}
<1> SUFFICES ASSUME T # {} PROVE FALSE
  <2>1. \A s \in Seq(S) : Len(s) \in Nat
    BY LenProperties
  <2> QED
    BY <2>1
<1>1. PICK m \in T : \A j \in T : m <= j
  <2>1. T \in SUBSET Nat
    OBVIOUS
  <2> HIDE DEF T
  <2> QED
    BY <2>1, LeastNatural
<1>2. PICK s \in Seq(S) : Len(s) = m /\ s \notin P
  OBVIOUS
<1>3. s # <<>>
  BY <1>2
<1>4. Len(s) \in Nat \ {0}
  BY <1>3, EmptySeq
<1> DEFINE f == SubSeq(s, 1, Len(s) - 1)
<1>5. /\ f \in Seq(S) /\ Len(f) = Len(s) - 1
      /\ s[Len(s)] \in S
      /\ s = Append(f, s[Len(s)])
  <2>1. \A i \in 1..Len(s) : s[i] \in S
    BY ElementOfSeq
  <2>2. \A i \in 1..(Len(s) - 1) : s[i] \in S
    BY <1>4, <2>1
  <2>3. f \in Seq(S) /\ Len(f) = IF 1 <= Len(s) - 1 THEN (Len(s) - 1) - 1 + 1 ELSE 0
    BY <1>4, <2>2, SubSeqProperties
  <2>4. s = f \o <<s[Len(s)]>>
    <3>1. 1 \in 1..Len(s) /\ Len(s) \in 1..Len(s)
      BY <1>4
    <3> QED
      BY <3>1, SubSeqRecursiveSecond, SubSeqFull
  <2>5. s[Len(s)] \in S
    BY <1>4, <2>1
  <2> HIDE DEF f
  <2>6. Append(f, s[Len(s)]) = f \o <<s[Len(s)]>>
    BY <2>3, <2>5, AppendIsConcat
  <2>7. \A n \in Nat \ {0} : (IF 1 <= n - 1 THEN (n - 1) - 1 + 1 ELSE 0) = n - 1
    OBVIOUS
  <2>8. Len(f) = Len(s) - 1
    BY <1>4, <2>3, <2>7
  <2> QED
    BY <2>3, <2>4, <2>5, <2>6, <2>8
<1> HIDE DEF f
<1>6. f \notin P
  BY <1>2, <1>5
<1>7. Len(f) \in Nat /\ ~(m <= Len(f))
  BY <1>2, <1>4, <1>5
<1>8. Len(f) \in T
  BY <1>5, <1>6, <1>7
<1> HIDE DEF T
<1> QED
  BY <1>1, <1>7, <1>8

\* One sequence behind the other, as a function.
Joined(S) == [p \in Seq(S) \X Seq(S) |-> p[1] \o p[2]]

\* FlattenSeq() puts one sequence behind the other.
LEMMA FlattenIsFold ==
  ASSUME NEW S, NEW ss \in Seq(Seq(S))
  PROVE  \E G \in [0..Len(ss) -> Seq(S)] :
           Fold(G, Joined(S), <<>>, ss) /\ FlattenSeq(ss) = G[Len(ss)]
<1>0. PICK F : F = [p \in Seq(S) \X Seq(S) |-> p[1] \o p[2]]
  OBVIOUS
<1>1. Len(ss) \in Nat /\ \A i \in 1..Len(ss) : ss[i] \in Seq(S)
  BY LenProperties, ElementOfSeq
<1>2. F \in [Seq(S) \X Seq(S) -> Seq(S)]
  <2>1. \A p \in Seq(S) \X Seq(S) : p[1] \o p[2] \in Seq(S)
    BY ConcatProperties
  <2> QED
    BY <1>0, <2>1
<1>3. <<>> \in Seq(S)
  BY EmptySeq
<1>4. PICK G \in [0..Len(ss) -> Seq(S)] : Fold(G, F, <<>>, ss)
  BY <1>2, <1>3, FoldExists
<1>5. \A k \in 1..Len(ss) : G[k] = G[k - 1] \o ss[k]
  <2> SUFFICES ASSUME NEW k \in 1..Len(ss) PROVE G[k] = G[k - 1] \o ss[k]
    OBVIOUS
  <2>1. k - 1 \in 0..Len(ss)
    BY <1>1
  <2>2. G[k - 1] \in Seq(S)
    BY <2>1
  <2>3. G[k] = F[G[k - 1], ss[k]]
    BY <1>4 DEF Fold
  <2> QED
    BY <1>0, <1>1, <2>2, <2>3
<1>6. G[0] = <<>>
  BY <1>4 DEF Fold
<1> DEFINE Good(f) == f = [i \in 1..Len(ss) |->
                             IF i = 1 THEN ss[i] ELSE f[i - 1] \o ss[i]]
           g == [i \in 1..Len(ss) |-> G[i]]
<1>7. Good(g)
  <2>1. \A i \in 1..Len(ss) : g[i] = IF i = 1 THEN ss[i] ELSE g[i - 1] \o ss[i]
    <3> SUFFICES ASSUME NEW i \in 1..Len(ss)
                 PROVE  G[i] = IF i = 1 THEN ss[i] ELSE g[i - 1] \o ss[i]
      OBVIOUS
    <3>1. CASE i = 1
      <4>1. G[1] = <<>> \o ss[1]
        <5>1. 1 \in 1..Len(ss) /\ 1 - 1 = 0
          BY <3>1
        <5>2. G[1] = G[1 - 1] \o ss[1]
          BY <1>5, <5>1
        <5> QED
          BY <1>6, <5>1, <5>2
      <4> QED
        BY <1>1, <3>1, <4>1, ConcatEmptySeq
    <3>2. CASE i # 1
      <4>1. i - 1 \in 1..Len(ss)
        BY <1>1, <3>2
      <4> QED
        BY <1>5, <3>2, <4>1
    <3> QED
      BY <3>1, <3>2
  <2> QED
    BY <2>1, Zenon
<1> HIDE DEF g
<1>8. PICK h : h = CHOOSE f : Good(f)
  OBVIOUS
<1>9. Good(h)
  <2> HIDE DEF Good
  <2> QED
    BY <1>7, <1>8, Zenon
<1>10. ASSUME Len(ss) # 0 PROVE FlattenSeq(ss) = h[Len(ss)]
  BY <1>8, <1>10 DEF FlattenSeq
<1> DEFINE H == [k \in 0..Len(ss) |-> IF k = 0 THEN <<>> ELSE h[k]]
           T == {k \in 1..Len(ss) : h[k] # G[k]}
<1>11. T = {}
  <2> SUFFICES ASSUME T # {} PROVE FALSE
    OBVIOUS
  <2>1. PICK m \in T : \A j \in T : m <= j
    <3>1. T \in SUBSET Nat
      BY <1>1
    <3> HIDE DEF T
    <3> QED
      BY <3>1, LeastNatural
  <2>2. m \in 1..Len(ss) /\ h[m] # G[m]
    OBVIOUS
  <2>3. h[m] = IF m = 1 THEN ss[m] ELSE h[m - 1] \o ss[m]
    BY <1>9, <2>2
  <2>4. m # 1
    <3> SUFFICES ASSUME m = 1 PROVE FALSE
      OBVIOUS
    <3>1. G[1] = <<>> \o ss[1]
      <4>1. 1 \in 1..Len(ss) /\ 1 - 1 = 0
        BY <2>2
      <4>2. G[1] = G[1 - 1] \o ss[1]
        BY <1>5, <4>1
      <4> QED
        BY <1>6, <4>1, <4>2
    <3>2. G[1] = ss[1]
      BY <1>1, <2>2, <3>1, ConcatEmptySeq
    <3> QED
      BY <2>2, <2>3, <3>2
  <2>5. m - 1 \in 1..Len(ss) /\ ~(m <= m - 1)
    BY <1>1, <2>2, <2>4
  <2>6. m - 1 \notin T
    <3> HIDE DEF T
    <3> QED
      BY <2>1, <2>5
  <2> QED
    BY <1>5, <2>2, <2>3, <2>4, <2>5, <2>6
<1>12. FlattenSeq(ss) = G[Len(ss)]
  <2>1. CASE Len(ss) = 0
    <3>1. ss = <<>>
      BY <2>1, EmptySeq
    <3> QED
      BY <1>6, <2>1, <3>1 DEF FlattenSeq
  <2>2. CASE Len(ss) # 0
    <3>1. Len(ss) \in 1..Len(ss)
      BY <1>1, <2>2
    <3> HIDE DEF Good
    <3> QED
      BY <1>10, <1>11, <2>2, <3>1
  <2> QED
    BY <2>1, <2>2
<1> QED
  BY <1>0, <1>4, <1>12 DEF Joined

\* FlattenSeq() of sequences over S is a sequence over S,
LEMMA FlattenTyped ==
  ASSUME NEW S, NEW ss \in Seq(Seq(S))
  PROVE  FlattenSeq(ss) \in Seq(S)
<1>1. Len(ss) \in 0..Len(ss)
  BY LenProperties
<1> QED
  BY <1>1, FlattenIsFold

\* of none it is the empty one,
LEMMA FlattenEmpty == FlattenSeq(<<>>) = <<>>
BY DEF FlattenSeq

\* and one more goes behind the rest.
LEMMA FlattenAppend ==
  ASSUME NEW S, NEW ss \in Seq(Seq(S)), NEW x \in Seq(S)
  PROVE  FlattenSeq(Append(ss, x)) = FlattenSeq(ss) \o x
<1>1. PICK F : F = Joined(S)
  OBVIOUS
<1>2. PICK t : t = Append(ss, x)
  OBVIOUS
<1>3. PICK n : n = Len(ss)
  OBVIOUS
<1>4. n \in Nat /\ n \in 0..n /\ n + 1 \in 1..(n + 1) /\ n \in 0..(n + 1) /\ (n + 1) - 1 = n
  BY <1>3, LenProperties
<1>5. /\ t \in Seq(Seq(S)) /\ Len(t) = n + 1
      /\ \A i \in 1..n : t[i] = ss[i]
      /\ t[n + 1] = x
  BY <1>2, <1>3, AppendProperties
<1>6. PICK G \in [0..n -> Seq(S)] : Fold(G, F, <<>>, ss) /\ FlattenSeq(ss) = G[n]
  BY <1>1, <1>3, FlattenIsFold
<1>7. PICK H \in [0..(n + 1) -> Seq(S)] : Fold(H, F, <<>>, t) /\ FlattenSeq(t) = H[n + 1]
  BY <1>1, <1>5, FlattenIsFold
<1>8. H[0] = <<>> /\ \A k \in 1..(n + 1) : H[k] = F[H[k - 1], t[k]]
  BY <1>5, <1>7 DEF Fold
<1>9. Fold(H, F, <<>>, ss)
  <2>1. \A k \in 1..n : k \in 1..(n + 1)
    BY <1>4
  <2> QED
    BY <1>3, <1>5, <1>8, <2>1 DEF Fold
<1>10. H[n] = FlattenSeq(ss)
  <2>1. \A k \in 0..Len(ss) : G[k] = H[k]
    BY <1>3, <1>4, <1>6, <1>9, FoldUnique
  <2> QED
    BY <1>3, <1>4, <1>6, <2>1
<1>11. H[n + 1] = F[H[n], x]
  <2>1. H[n + 1] = F[H[(n + 1) - 1], t[n + 1]]
    BY <1>4, <1>8
  <2> QED
    BY <1>4, <1>5, <2>1
<1>12. H[n] \in Seq(S)
  BY <1>4
<1> QED
  BY <1>1, <1>2, <1>7, <1>10, <1>11, <1>12 DEF Joined

\* What a function makes of every element of w, one behind the other.
Spread(w, F) == FlattenSeq([i \in DOMAIN w |-> F[w[i]]])

\* A function applied to every element keeps the length.
LEMMA MappedTyped ==
  ASSUME NEW A, NEW C, NEW F \in [A -> C], NEW w \in Seq(A)
  PROVE  /\ [i \in DOMAIN w |-> F[w[i]]] \in Seq(C)
         /\ Len([i \in DOMAIN w |-> F[w[i]]]) = Len(w)
<1>1. PICK n : n = Len(w)
  OBVIOUS
<1>2. n \in Nat /\ DOMAIN w = 1..n /\ \A i \in 1..n : w[i] \in A
  BY <1>1, LenProperties, ElementOfSeq
<1>3. PICK f : f = [i \in DOMAIN w |-> F[w[i]]]
  OBVIOUS
<1>4. f \in [1..n -> C]
  BY <1>2, <1>3
<1>5. f \in Seq(C) /\ Len(f) = n
  BY <1>2, <1>4, SeqDef
<1> QED
  BY <1>1, <1>3, <1>5

\* It is applied to one more element like to the others.
LEMMA MappedAppend ==
  ASSUME NEW A, NEW C, NEW F \in [A -> C], NEW w \in Seq(A), NEW x \in A
  PROVE  [i \in DOMAIN Append(w, x) |-> F[Append(w, x)[i]]]
           = Append([i \in DOMAIN w |-> F[w[i]]], F[x])
<1>1. PICK n : n = Len(w)
  OBVIOUS
<1>2. PICK t : t = Append(w, x)
  OBVIOUS
<1>3. n \in Nat /\ DOMAIN w = 1..n
  BY <1>1, LenProperties
<1>4. /\ t \in Seq(A) /\ Len(t) = n + 1 /\ DOMAIN t = 1..(n + 1)
      /\ \A i \in 1..n : t[i] = w[i]
      /\ t[n + 1] = x
  BY <1>1, <1>2, AppendProperties, LenProperties
<1>5. PICK f : f = [i \in DOMAIN w |-> F[w[i]]]
  OBVIOUS
<1>6. f \in Seq(C) /\ Len(f) = n /\ \A i \in 1..n : f[i] = F[w[i]]
  BY <1>1, <1>3, <1>5, MappedTyped
<1>7. PICK g : g = [i \in DOMAIN t |-> F[t[i]]]
  OBVIOUS
<1>8. g \in Seq(C) /\ Len(g) = n + 1 /\ \A i \in 1..(n + 1) : g[i] = F[t[i]]
  BY <1>4, <1>7, MappedTyped
<1>9. PICK h : h = Append(f, F[x])
  OBVIOUS
<1>10. /\ h \in Seq(C) /\ Len(h) = n + 1
       /\ \A i \in 1..n : h[i] = f[i]
       /\ h[n + 1] = F[x]
  BY <1>6, <1>9, AppendProperties
<1>11. \A i \in 1..(n + 1) : g[i] = h[i]
  <2> SUFFICES ASSUME NEW i \in 1..(n + 1) PROVE g[i] = h[i]
    OBVIOUS
  <2>1. CASE i \in 1..n
    BY <1>4, <1>6, <1>8, <1>10, <2>1
  <2>2. CASE i = n + 1
    BY <1>4, <1>8, <1>10, <2>2
  <2> QED
    BY <1>3, <2>1, <2>2
<1>12. g = h
  BY <1>8, <1>10, <1>11, SeqEqual
<1> QED
  BY <1>2, <1>5, <1>7, <1>9, <1>12

\* Spreads are sequences,
LEMMA SpreadTyped ==
  ASSUME NEW A, NEW B, NEW F \in [A -> Seq(B)], NEW w \in Seq(A)
  PROVE  Spread(w, F) \in Seq(B)
<1>1. PICK f : f = [i \in DOMAIN w |-> F[w[i]]]
  OBVIOUS
<1>2. f \in Seq(Seq(B))
  BY <1>1, MappedTyped
<1> QED
  BY <1>1, <1>2, FlattenTyped DEF Spread

\* empty when there is nothing to spread;
LEMMA SpreadEmpty ==
  ASSUME NEW F
  PROVE  Spread(<<>>, F) = <<>>
<1>1. [i \in DOMAIN <<>> |-> F[<<>>[i]]] = <<>>
  OBVIOUS
<1> QED
  BY <1>1, FlattenEmpty DEF Spread

\* one more element adds what F makes of it,
LEMMA SpreadAppend ==
  ASSUME NEW A, NEW B, NEW F \in [A -> Seq(B)], NEW w \in Seq(A), NEW x \in A
  PROVE  Spread(Append(w, x), F) = Spread(w, F) \o F[x]
<1>1. PICK f : f = [i \in DOMAIN w |-> F[w[i]]]
  OBVIOUS
<1>2. f \in Seq(Seq(B))
  BY <1>1, MappedTyped
<1>3. [i \in DOMAIN Append(w, x) |-> F[Append(w, x)[i]]] = Append(f, F[x])
  BY <1>1, MappedAppend
<1>4. FlattenSeq(Append(f, F[x])) = FlattenSeq(f) \o F[x]
  BY <1>2, FlattenAppend
<1> QED
  BY <1>1, <1>3, <1>4 DEF Spread

\* and one alone is what F makes of it.
LEMMA SpreadOne ==
  ASSUME NEW A, NEW B, NEW F \in [A -> Seq(B)], NEW x \in A
  PROVE  Spread(<<x>>, F) = F[x]
<1>1. <<>> \in Seq(A) /\ <<x>> = Append(<<>>, x)
  OBVIOUS
<1>2. Spread(<<x>>, F) = Spread(<<>>, F) \o F[x]
  BY <1>1, SpreadAppend
<1>3. Spread(<<x>>, F) = <<>> \o F[x]
  BY <1>2, SpreadEmpty
<1> QED
  BY <1>3, ConcatEmptySeq

\* An element more behind a concatenation.
LEMMA AppendToConcat ==
  ASSUME NEW S, NEW u \in Seq(S), NEW v \in Seq(S), NEW x \in S
  PROVE  u \o Append(v, x) = Append(u \o v, x)
<1>1. <<x>> \in Seq(S) /\ u \o v \in Seq(S)
  BY ConcatProperties
<1>2. Append(v, x) = v \o <<x>> /\ Append(u \o v, x) = (u \o v) \o <<x>>
  BY <1>1, AppendIsConcat
<1>3. (u \o v) \o <<x>> = u \o (v \o <<x>>)
  BY <1>1, ConcatAssociative
<1> QED
  BY <1>2, <1>3

\* A concatenation is spread part by part.
LEMMA SpreadConcat ==
  ASSUME NEW A, NEW B, NEW F \in [A -> Seq(B)], NEW u \in Seq(A), NEW v \in Seq(A)
  PROVE  Spread(u \o v, F) = Spread(u, F) \o Spread(v, F)
<1> DEFINE P == {s \in Seq(A) : Spread(u \o s, F) = Spread(u, F) \o Spread(s, F)}
<1>1. Spread(u, F) \in Seq(B)
  BY SpreadTyped
<1>2. <<>> \in P
  <2>1. u \o <<>> = u /\ Spread(u, F) \o <<>> = Spread(u, F)
    BY <1>1, ConcatEmptySeq
  <2>2. <<>> \in Seq(A) /\ Spread(<<>>, F) = <<>>
    BY SpreadEmpty
  <2> QED
    BY <2>1, <2>2
<1>3. ASSUME NEW s \in P, NEW x \in A PROVE Append(s, x) \in P
  <2>1. s \in Seq(A) /\ Append(s, x) \in Seq(A) /\ u \o s \in Seq(A)
    BY AppendProperties, ConcatProperties
  <2>2. F[x] \in Seq(B) /\ Spread(s, F) \in Seq(B)
    BY <2>1, SpreadTyped
  <2>3. Spread(u \o Append(s, x), F) = Spread(u \o s, F) \o F[x]
    <3>1. u \o Append(s, x) = Append(u \o s, x)
      <4>1. s \in Seq(A)
        BY <2>1
      <4> HIDE DEF P
      <4> QED
        BY <4>1, AppendToConcat
    <3>2. PICK c : c = u \o s
      OBVIOUS
    <3>3. Spread(Append(c, x), F) = Spread(c, F) \o F[x]
      <4> HIDE DEF P
      <4> QED
        BY <2>1, <3>2, SpreadAppend
    <3> QED
      BY <3>1, <3>2, <3>3
  <2>4. Spread(u \o s, F) = Spread(u, F) \o Spread(s, F)
    OBVIOUS
  <2>5. (Spread(u, F) \o Spread(s, F)) \o F[x] = Spread(u, F) \o (Spread(s, F) \o F[x])
    BY <1>1, <2>2, ConcatAssociative
  <2>6. Spread(Append(s, x), F) = Spread(s, F) \o F[x]
    BY <2>1, SpreadAppend
  <2> QED
    BY <2>1, <2>3, <2>4, <2>5, <2>6
<1> HIDE DEF P
<1>4. P \in SUBSET Seq(A)
  BY DEF P
<1>5. \A s \in Seq(A) : s \in P
  BY <1>2, <1>3, <1>4, EverySequence
<1> QED
  BY <1>5 DEF P

\* K does to every element what F and then H do.
Composes(K, F, H, A, B, C) ==
  /\ F \in [A -> Seq(B)] /\ H \in [B -> Seq(C)] /\ K \in [A -> Seq(C)]
  /\ \A x \in A : K[x] = Spread(F[x], H)

\* Two spreads, one after the other.
LEMMA SpreadOfSpread ==
  ASSUME NEW A, NEW B, NEW C, NEW F, NEW H, NEW K, Composes(K, F, H, A, B, C),
         NEW w \in Seq(A)
  PROVE  Spread(Spread(w, F), H) = Spread(w, K)
<1>0. F \in [A -> Seq(B)] /\ H \in [B -> Seq(C)] /\ K \in [A -> Seq(C)]
  BY DEF Composes
<1> DEFINE P == {s \in Seq(A) : Spread(Spread(s, F), H) = Spread(s, K)}
<1>1. <<>> \in P
  BY SpreadEmpty
<1>2. ASSUME NEW s \in P, NEW x \in A PROVE Append(s, x) \in P
  <2>1. s \in Seq(A) /\ Append(s, x) \in Seq(A)
    BY AppendProperties
  <2>2. F[x] \in Seq(B) /\ Spread(s, F) \in Seq(B)
    BY <1>0, <2>1, SpreadTyped
  <2>3. Spread(Append(s, x), F) = Spread(s, F) \o F[x]
    BY <1>0, <2>1, SpreadAppend
  <2>4. Spread(Spread(s, F) \o F[x], H) = Spread(Spread(s, F), H) \o Spread(F[x], H)
    <3>1. PICK p, q : p = Spread(s, F) /\ q = F[x]
      OBVIOUS
    <3> HIDE DEF P
    <3>2. p \in Seq(B) /\ q \in Seq(B)
      BY <2>2, <3>1
    <3>3. Spread(p \o q, H) = Spread(p, H) \o Spread(q, H)
      BY <1>0, <3>2, SpreadConcat
    <3> QED
      BY <3>1, <3>3
  <2>5. Spread(Append(s, x), K) = Spread(s, K) \o K[x]
    BY <1>0, <2>1, SpreadAppend
  <2>6. Spread(Spread(s, F), H) = Spread(s, K) /\ K[x] = Spread(F[x], H)
    BY DEF Composes
  <2> QED
    BY <2>1, <2>3, <2>4, <2>5, <2>6
<1> HIDE DEF P
<1>3. P \in SUBSET Seq(A)
  BY DEF P
<1>4. \A s \in Seq(A) : s \in P
  BY <1>1, <1>2, <1>3, EverySequence
<1> QED
  BY <1>4 DEF P

\* A spread that keeps every element as it is changes nothing.
LEMMA SpreadSame ==
  ASSUME NEW A, NEW F \in [A -> Seq(A)], \A x \in A : F[x] = <<x>>, NEW w \in Seq(A)
  PROVE  Spread(w, F) = w
<1> DEFINE P == {s \in Seq(A) : Spread(s, F) = s}
<1>1. <<>> \in P
  BY SpreadEmpty
<1>2. ASSUME NEW s \in P, NEW x \in A PROVE Append(s, x) \in P
  <2>1. s \in Seq(A) /\ Append(s, x) \in Seq(A) /\ Append(s, x) = s \o <<x>>
    BY AppendProperties, AppendIsConcat
  <2>2. Spread(Append(s, x), F) = Spread(s, F) \o F[x]
    BY <2>1, SpreadAppend
  <2>3. Spread(s, F) = s /\ F[x] = <<x>>
    OBVIOUS
  <2> QED
    BY <2>1, <2>2, <2>3
<1> HIDE DEF P
<1>3. P \in SUBSET Seq(A)
  BY DEF P
<1>4. \A s \in Seq(A) : s \in P
  BY <1>1, <1>2, <1>3, EverySequence
<1> QED
  BY <1>4 DEF P

\* y is an element of s,
Has(s, y) == \E i \in 1..Len(s) : s[i] = y
\* and of what F makes of some element of w.
HasOneOf(w, F, y) == \E j \in 1..Len(w) : Has(F[w[j]], y)

\* An element of a spread comes from one that was spread, and the other way.
LEMMA SpreadElements ==
  ASSUME NEW A, NEW B, NEW F \in [A -> Seq(B)], NEW w \in Seq(A), NEW y
  PROVE  Has(Spread(w, F), y) <=> HasOneOf(w, F, y)
<1> DEFINE In(s) == \E i \in 1..Len(s) : s[i] = y
           From(s) == \E j \in 1..Len(s) : In(F[s[j]])
           P == {s \in Seq(A) : In(Spread(s, F)) <=> From(s)}
<1>1. <<>> \in P
  BY SpreadEmpty
<1>2. ASSUME NEW s \in P, NEW x \in A PROVE Append(s, x) \in P
  <2>1. PICK t : t = Append(s, x)
    OBVIOUS
  <2>2. PICK n : n = Len(s)
    OBVIOUS
  <2>3. /\ s \in Seq(A) /\ n \in Nat /\ t \in Seq(A) /\ Len(t) = n + 1
        /\ \A i \in 1..n : t[i] = s[i]
        /\ t[n + 1] = x
    BY <2>1, <2>2, AppendProperties, LenProperties
  <2>4. PICK p, q : p = Spread(s, F) /\ q = F[x]
    OBVIOUS
  <2>5. p \in Seq(B) /\ q \in Seq(B)
    BY <2>3, <2>4, SpreadTyped
  <2>6. Spread(t, F) = p \o q
    <3> HIDE DEF P, In, From
    <3>1. s \in Seq(A)
      BY <2>3
    <3>2. Spread(Append(s, x), F) = Spread(s, F) \o F[x]
      BY <3>1, SpreadAppend
    <3> QED
      BY <2>1, <2>4, <3>2
  <2>7. In(p \o q) <=> In(p) \/ In(q)
    <3>1. /\ p \o q \in Seq(B) /\ Len(p \o q) = Len(p) + Len(q)
          /\ \A i \in 1..(Len(p) + Len(q)) :
               (p \o q)[i] = IF i <= Len(p) THEN p[i] ELSE q[i - Len(p)]
      BY <2>5, ConcatProperties
    <3>2. Len(p) \in Nat /\ Len(q) \in Nat
      BY <2>5, LenProperties
    <3>3. ASSUME In(p \o q) PROVE In(p) \/ In(q)
      <4>1. PICK i \in 1..(Len(p) + Len(q)) : (p \o q)[i] = y
        BY <3>1, <3>3
      <4>2. CASE i <= Len(p)
        BY <3>1, <3>2, <4>1, <4>2
      <4>3. CASE ~(i <= Len(p))
        <5>1. i - Len(p) \in 1..Len(q) /\ q[i - Len(p)] = y
          BY <3>1, <3>2, <4>1, <4>3
        <5> QED
          BY <5>1
      <4> QED
        BY <4>2, <4>3
    <3>4. ASSUME In(p) PROVE In(p \o q)
      <4>1. PICK i \in 1..Len(p) : p[i] = y
        BY <3>4
      <4>2. i \in 1..(Len(p) + Len(q)) /\ i <= Len(p)
        BY <3>2
      <4> QED
        BY <3>1, <4>1, <4>2
    <3>5. ASSUME In(q) PROVE In(p \o q)
      <4>1. PICK i \in 1..Len(q) : q[i] = y
        BY <3>5
      <4>2. PICK k : k = Len(p) + i
        OBVIOUS
      <4>3. k \in 1..(Len(p) + Len(q)) /\ ~(k <= Len(p)) /\ k - Len(p) = i
        BY <3>2, <4>2
      <4> QED
        BY <3>1, <4>1, <4>3
    <3> QED
      BY <3>3, <3>4, <3>5
  <2>8. From(t) <=> From(s) \/ In(q)
    <3>1. \A j \in 1..(n + 1) : j \in 1..n \/ j = n + 1
      BY <2>3
    <3>2. n + 1 \in 1..(n + 1) /\ \A j \in 1..n : j \in 1..(n + 1)
      BY <2>3
    <3> HIDE DEF In
    <3> QED
      BY <2>2, <2>3, <2>4, <3>1, <3>2
  <2>9. In(p) <=> From(s)
    <3> HIDE DEF In, From
    <3> QED
      BY <2>4
  <2>10. In(Spread(t, F)) <=> From(t)
    <3> HIDE DEF In, From
    <3> QED
      BY <2>6, <2>7, <2>8, <2>9
  <2> HIDE DEF In, From
  <2> QED
    BY <2>1, <2>3, <2>10
<1>3. P \in SUBSET Seq(A)
  OBVIOUS
<1> HIDE DEF P
<1>4. \A s \in Seq(A) : s \in P
  BY <1>1, <1>2, <1>3, EverySequence
<1>5. In(Spread(w, F)) <=> From(w)
  <2> HIDE DEF In, From
  <2> QED
    BY <1>4 DEF P
<1> QED
  BY <1>5 DEF Has, HasOneOf

\* What holds at 0 and goes on from each number to the next holds up to n.
LEMMA UpTo ==
  ASSUME NEW n \in Nat, NEW P, 0 \in P, \A k \in 1..n : k - 1 \in P => k \in P
  PROVE  \A k \in 0..n : k \in P
<1> DEFINE T == {k \in 0..n : k \notin P}
<1> SUFFICES ASSUME T # {} PROVE FALSE
  OBVIOUS
<1>1. PICK m \in T : \A j \in T : m <= j
  <2>1. T \in SUBSET Nat
    OBVIOUS
  <2> HIDE DEF T
  <2> QED
    BY <2>1, LeastNatural
<1>2. m \in 1..n /\ m \notin P
  OBVIOUS
<1>3. m - 1 \in 0..n /\ ~(m <= m - 1)
  BY <1>2
<1>4. m - 1 \notin T
  <2> HIDE DEF T
  <2> QED
    BY <1>1, <1>3
<1> QED
  BY <1>2, <1>3, <1>4

\* A table that is filled by F wherever what it is filled from has its type.
FilledBy(h, A, F, base, s) ==
  /\ h[{}] = base
  /\ \A t \in SUBSET DOMAIN s : t # {} /\ h[t \ {Max(t)}] \in A =>
       h[t] = F[h[t \ {Max(t)}], s[Max(t)]]

\* What the table holds for all the places is the fold.
Folded(h, A, F, base, s) ==
  \E G \in [0..Len(s) -> A] : Fold(G, F, base, s) /\ h[DOMAIN s] = G[Len(s)]

\* A table that is filled within a set holds the fold.
LEMMA FoldOfTable ==
  ASSUME NEW A, NEW B, NEW F \in [A \X B -> A], NEW base \in A, NEW s \in Seq(B), NEW h,
         FilledBy(h, A, F, base, s)
  PROVE  Folded(h, A, F, base, s)
<1>1. PICK n : n = Len(s)
  OBVIOUS
<1>2. n \in Nat /\ DOMAIN s = 1..n /\ (\A i \in 1..n : s[i] \in B)
  BY <1>1, LenProperties, ElementOfSeq
<1>e. h[{}] = base
  BY DEF FilledBy
<1> DEFINE P == {k \in 0..n : h[1..k] \in A}
<1>3. 0 \in P
  <2>1. 1..0 = {}
    OBVIOUS
  <2> QED
    BY <1>2, <1>e, <2>1
<1>4. ASSUME NEW k \in 1..n, h[1..(k - 1)] \in A
      PROVE  h[1..k] = F[h[1..(k - 1)], s[k]] /\ h[1..k] \in A
  <2>1. /\ Max(1..k) = k /\ (1..k) \ {k} = 1..(k - 1)
        /\ 1..k \in SUBSET DOMAIN s /\ 1..k # {}
    BY <1>1, FoldTableSteps
  <2>2. h[1..k] = F[h[1..(k - 1)], s[k]]
    BY <1>4, <2>1 DEF FilledBy
  <2> QED
    BY <1>2, <1>4, <2>2
<1>5. ASSUME NEW k \in 1..n, k - 1 \in P PROVE k \in P
  <2>1. h[1..(k - 1)] \in A
    BY <1>5
  <2>2. h[1..k] \in A
    BY <1>4, <2>1
  <2>3. k \in 0..n
    BY <1>2
  <2> QED
    BY <2>2, <2>3
<1>6. \A k \in 0..n : k \in P
  <2> HIDE DEF P
  <2> QED
    BY <1>2, <1>3, <1>5, UpTo
<1> DEFINE G == [k \in 0..n |-> h[1..k]]
<1>7. G \in [0..n -> A]
  BY <1>6
<1>8. G[0] = base /\ G[n] = h[DOMAIN s]
  <2>1. 1..0 = {} /\ 0 \in 0..n /\ n \in 0..n
    BY <1>2
  <2> QED
    BY <1>2, <1>e, <2>1
<1>9. ASSUME NEW k \in 1..n PROVE G[k] = F[G[k - 1], s[k]]
  <2>1. k \in 0..n /\ k - 1 \in 0..n
    BY <1>2
  <2>2. h[1..(k - 1)] \in A
    BY <1>6, <2>1
  <2>3. h[1..k] = F[h[1..(k - 1)], s[k]]
    BY <1>4, <2>2
  <2> QED
    BY <2>1, <2>3
<1> HIDE DEF G
<1> QED
  BY <1>1, <1>7, <1>8, <1>9 DEF Fold, Folded

\* Functions that agree on the elements spread them alike.
LEMMA SpreadEqual ==
  ASSUME NEW A, NEW w \in Seq(A), NEW F, NEW H, \A x \in A : F[x] = H[x]
  PROVE  Spread(w, F) = Spread(w, H)
<1>1. \A i \in DOMAIN w : w[i] \in A
  BY LenProperties, ElementOfSeq
<1>2. [i \in DOMAIN w |-> F[w[i]]] = [i \in DOMAIN w |-> H[w[i]]]
  BY <1>1
<1> QED
  BY <1>2 DEF Spread

\* K does to every element what F and then H do, which map one to one.
OneByOne(K, F, H, A) == \A x \in A : K[x] = H[F[x]]

\* Elements mapped one to one are spread like the originals.
LEMMA SpreadOfMapped ==
  ASSUME NEW A, NEW w \in Seq(A), NEW F, NEW H, NEW K, OneByOne(K, F, H, A)
  PROVE  Spread([i \in DOMAIN w |-> F[w[i]]], H) = Spread(w, K)
<1>1. \A i \in DOMAIN w : w[i] \in A
  BY LenProperties, ElementOfSeq
<1>2. PICK f : f = [i \in DOMAIN w |-> F[w[i]]]
  OBVIOUS
<1>3. DOMAIN f = DOMAIN w /\ \A i \in DOMAIN w : f[i] = F[w[i]]
  BY <1>2
<1>4. [i \in DOMAIN f |-> H[f[i]]] = [i \in DOMAIN w |-> K[w[i]]]
  BY <1>1, <1>3 DEF OneByOne
<1> QED
  BY <1>2, <1>4 DEF Spread

\* A prefix and the element behind it.
LEMMA PrefixGrows ==
  ASSUME NEW S, NEW s \in Seq(S), NEW k \in 1..Len(s)
  PROVE  /\ SubSeq(s, 1, k - 1) \in Seq(S) /\ s[k] \in S
         /\ SubSeq(s, 1, k) = Append(SubSeq(s, 1, k - 1), s[k])
<1>1. Len(s) \in Nat /\ \A i \in 1..Len(s) : s[i] \in S
  BY LenProperties, ElementOfSeq
<1>2. \A i \in 1..(k - 1) : s[i] \in S
  <2>1. \A i \in 1..(k - 1) : i \in 1..Len(s)
    BY <1>1
  <2> QED
    BY <1>1, <2>1
<1>3. k - 1 \in Int /\ 1 \in Int /\ 1 \in 1..Len(s) /\ k \in 1..Len(s)
  BY <1>1
<1>4. SubSeq(s, 1, k - 1) \in Seq(S)
  BY <1>2, <1>3, SubSeqProperties
<1>5. SubSeq(s, 1, k) = SubSeq(s, 1, k - 1) \o <<s[k]>>
  BY <1>3, SubSeqRecursiveSecond
<1> QED
  BY <1>1, <1>4, <1>5, AppendIsConcat

\* A sequence that is not empty is its front and its last element.
LEMMA FrontAndLast ==
  ASSUME NEW S, NEW s \in Seq(S), s # <<>>
  PROVE  Front(s) \in Seq(S) /\ Last(s) \in S /\ s = Append(Front(s), Last(s))
<1>1. PICK n : n = Len(s)
  OBVIOUS
<1>2. n \in Nat \ {0} /\ n \in 1..n
  BY <1>1, EmptySeq
<1>3. SubSeq(s, 1, n) = s
  BY <1>1, SubSeqFull
<1>4. /\ SubSeq(s, 1, n - 1) \in Seq(S) /\ s[n] \in S
      /\ SubSeq(s, 1, n) = Append(SubSeq(s, 1, n - 1), s[n])
  BY <1>1, <1>2, PrefixGrows
<1> QED
  BY <1>1, <1>3, <1>4 DEF Front, Last
=============================================================================
