---------------------------- MODULE BooksProofs ----------------------------
(***************************************************************************)
(* The books stay right for any events, prices, bins, windows and clocks,  *)
(* and for any number of requests, streams and resets.  Sums are folds     *)
(* over finite sets; what is needed of them comes first.                   *)
(***************************************************************************)
EXTENDS Books, FiniteSetTheorems, SequenceLemmas

\* Among subsets of a finite set there is a smallest.  A fact about all of them
\* holds if a smallest exception to it is impossible.
LEMMA SmallestSubset ==
  ASSUME NEW S, IsFiniteSet(S), NEW B \in SUBSET SUBSET S, B # {}
  PROVE  \E t \in B : /\ IsFiniteSet(t) /\ Cardinality(t) \in Nat
                      /\ \A u \in B : Cardinality(t) <= Cardinality(u)
<1> DEFINE T == {Cardinality(t) : t \in B}
<1>1. \A t \in B : IsFiniteSet(t) /\ Cardinality(t) \in Nat
  BY FS_Subset, FS_CardinalityType
<1>2. T \in SUBSET Nat /\ T # {}
  BY <1>1
<1>3. PICK n \in T : \A m \in T : n <= m
  <2> HIDE DEF T
  <2> QED
    BY <1>2, LeastNatural
<1> QED
  BY <1>1, <1>3

LEMMA Removed ==
  ASSUME NEW S, IsFiniteSet(S), NEW x \in S
  PROVE  /\ IsFiniteSet(S \ {x}) /\ S \ {x} \in SUBSET S
         /\ Cardinality(S) \in Nat /\ Cardinality(S \ {x}) = Cardinality(S) - 1
BY FS_RemoveElement, FS_CardinalityType

-----------------------------------------------------------------------------
\* The element a fold takes out of s first.
Pick(s) == CHOOSE x \in s : TRUE

\* g holds the sums of f over the subsets of S.
Sums(g, S, f) ==
  g = [s \in SUBSET S |-> IF s = {} THEN 0 ELSE f[Pick(s)] + g[s \ {Pick(s)}]]

LEMMA PickIn ==
  ASSUME NEW s, s # {}
  PROVE  Pick(s) \in s
BY DEF Pick

LEMMA SumUnfolds ==
  ASSUME NEW S, NEW f
  PROVE  SumOver(S, f) = (CHOOSE g : Sums(g, S, f))[S]
BY DEF SumOver, FoldFunctionOnSet, MapThenFoldSet, Sums, Pick

\* The recursion of the fold defines something on a finite set.
LEMMA SumsExist ==
  ASSUME NEW S, IsFiniteSet(S), NEW f
  PROVE  \E g : Sums(g, S, f)
<1> DEFINE G(n) == {s \in SUBSET S : Cardinality(s) <= n}
           Sum(g, s) == IF s = {} THEN 0 ELSE f[Pick(s)] + g[s \ {Pick(s)}]
           Good(n) == \E g : \A s \in G(n) : g[s] = Sum(g, s)
           T == {n \in Nat : ~Good(n)}
<1>1. \A s \in SUBSET S : IsFiniteSet(s) /\ Cardinality(s) \in Nat
  BY FS_Subset, FS_CardinalityType
<1>2. \A s \in SUBSET S : s # {} =>
        /\ s \ {Pick(s)} \in SUBSET S
        /\ Cardinality(s \ {Pick(s)}) = Cardinality(s) - 1
  BY <1>1, PickIn, Removed
<1>3. Good(0)
  <2> DEFINE g == [s \in SUBSET S |-> 0]
  <2>1. ASSUME NEW s \in G(0) PROVE s = {}
    BY <1>1, FS_EmptySet
  <2>2. \A s \in G(0) : g[s] = Sum(g, s)
    BY <2>1
  <2> QED
    BY <2>2
<1>4. ASSUME NEW n \in Nat, n # 0, Good(n - 1) PROVE Good(n)
  <2>1. PICK g : \A s \in G(n - 1) : g[s] = Sum(g, s)
    BY <1>4
  <2> DEFINE h == [s \in SUBSET S |-> Sum(g, s)]
  <2>2. ASSUME NEW s \in G(n) PROVE h[s] = Sum(h, s)
    <3>1. CASE s = {}
      BY <3>1
    <3>2. CASE s # {}
      <4> DEFINE t == s \ {Pick(s)}
      <4>1. t \in SUBSET S /\ Cardinality(t) = Cardinality(s) - 1
        BY <1>2, <3>2
      <4>2. t \in G(n - 1)
        BY <1>1, <4>1
      <4>3. h[t] = g[t]
        BY <2>1, <4>1, <4>2
      <4>4. h[s] = f[Pick(s)] + g[t]
        BY <3>2
      <4> HIDE DEF h
      <4> QED
        BY <3>2, <4>3, <4>4
    <3> QED
      BY <3>1, <3>2
  <2> QED
    BY <2>2
<1>5. ASSUME NEW k \in Nat PROVE Good(k)
  <2> SUFFICES ASSUME ~Good(k) PROVE FALSE
    OBVIOUS
  <2>1. T \in SUBSET Nat /\ k \in T
    OBVIOUS
  <2>2. PICK n \in T : \A m \in T : n <= m
    <3> HIDE DEF T
    <3> QED
      BY <2>1, LeastNatural
  <2>3. n \in Nat /\ ~Good(n)
    BY <2>2
  <2>4. n # 0
    BY <1>3, <2>3
  <2>5. n - 1 \in Nat /\ n - 1 \notin T
    <3> HIDE DEF T
    <3> QED
      BY <2>2, <2>3, <2>4
  <2> HIDE DEF Good
  <2> QED
    BY <1>4, <2>3, <2>4, <2>5
<1>6. Cardinality(S) \in Nat /\ \A s \in SUBSET S : s \in G(Cardinality(S))
  BY FS_CardinalityType, FS_Subset
<1>7. PICK g : \A s \in SUBSET S : g[s] = Sum(g, s)
  <2>1. Good(Cardinality(S))
    <3> HIDE DEF Good
    <3> QED
      BY <1>5, <1>6
  <2> QED
    BY <1>6, <2>1
<1> DEFINE h == [s \in SUBSET S |-> g[s]]
<1>8. ASSUME NEW s \in SUBSET S PROVE h[s] = Sum(h, s)
  <2>1. h[s] = g[s]
    OBVIOUS
  <2>2. CASE s = {}
    BY <1>7, <2>1, <2>2
  <2>3. CASE s # {}
    <3>1. h[s \ {Pick(s)}] = g[s \ {Pick(s)}]
      BY <1>2, <2>3
    <3> HIDE DEF h
    <3> QED
      BY <1>7, <2>1, <2>3, <3>1
  <2> QED
    BY <2>2, <2>3
<1>9. h = [s \in SUBSET S |-> Sum(h, s)]
  <2>1. h = [s \in SUBSET S |-> h[s]]
    OBVIOUS
  <2> HIDE DEF h
  <2> QED
    BY <1>8, <2>1
<1> HIDE DEF h
<1> QED
  BY <1>9 DEF Sums

\* Summing over a subset is the same whichever set it is a subset of.
LEMMA SumsAgree ==
  ASSUME NEW S, IsFiniteSet(S), NEW R \in SUBSET S, NEW f, NEW g, NEW h,
         Sums(g, S, f), Sums(h, R, f)
  PROVE  h[R] = g[R]
<1> DEFINE B == {t \in SUBSET R : h[t] # g[t]}
<1>1. ASSUME B # {} PROVE FALSE
  <2>1. B \in SUBSET SUBSET S
    OBVIOUS
  <2>2. PICK t \in B : /\ IsFiniteSet(t) /\ Cardinality(t) \in Nat
                       /\ \A u \in B : Cardinality(t) <= Cardinality(u)
    <3> HIDE DEF B
    <3> QED
      BY <1>1, <2>1, SmallestSubset
  <2>3. t \in SUBSET R /\ t \in SUBSET S /\ h[t] # g[t]
    BY <2>2
  <2>4. t # {}
    BY <2>3 DEF Sums
  <2> DEFINE u == t \ {Pick(t)}
  <2>5. u \in SUBSET R /\ Cardinality(u) = Cardinality(t) - 1
    BY <2>2, <2>3, <2>4, PickIn, Removed
  <2>6. u \notin B
    BY <2>2, <2>5
  <2>7. h[u] = g[u]
    BY <2>5, <2>6
  <2>8. h[t] = f[Pick(t)] + h[u] /\ g[t] = f[Pick(t)] + g[u]
    BY <2>3, <2>4 DEF Sums
  <2> QED
    BY <2>3, <2>7, <2>8
<1> QED
  BY <1>1

LEMMA SumEmpty ==
  ASSUME NEW f
  PROVE  SumOver({}, f) = 0
<1>1. PICK g : Sums(g, {}, f)
  BY SumsExist, FS_EmptySet
<1>2. Sums(CHOOSE x : Sums(x, {}, f), {}, f)
  BY <1>1
<1> QED
  BY <1>2, SumUnfolds DEF Sums

LEMMA SumPick ==
  ASSUME NEW S, IsFiniteSet(S), S # {}, NEW f
  PROVE  SumOver(S, f) = f[Pick(S)] + SumOver(S \ {Pick(S)}, f)
<1> DEFINE R == S \ {Pick(S)}
           g == CHOOSE x : Sums(x, S, f)
           h == CHOOSE x : Sums(x, R, f)
<1>1. R \in SUBSET S /\ IsFiniteSet(R)
  BY FS_Subset
<1>2. Sums(g, S, f)
  BY SumsExist
<1>3. Sums(h, R, f)
  BY <1>1, SumsExist
<1>4. SumOver(S, f) = g[S] /\ SumOver(R, f) = h[R]
  BY SumUnfolds
<1> HIDE DEF g, h
<1>5. h[R] = g[R]
  BY <1>1, <1>2, <1>3, SumsAgree
<1>6. g[S] = f[Pick(S)] + g[R]
  BY <1>2 DEF Sums
<1> QED
  BY <1>4, <1>5, <1>6

\* A sum over a finite set takes its elements in any order.
LEMMA SumType ==
  ASSUME NEW S, IsFiniteSet(S), NEW f, \A x \in S : f[x] \in Nat
  PROVE  SumOver(S, f) \in Nat
<1> DEFINE B == {t \in SUBSET S : SumOver(t, f) \notin Nat}
<1>1. ASSUME B # {} PROVE FALSE
  <2>1. PICK t \in B : /\ IsFiniteSet(t) /\ Cardinality(t) \in Nat
                       /\ \A u \in B : Cardinality(t) <= Cardinality(u)
    <3>1. B \in SUBSET SUBSET S
      OBVIOUS
    <3> HIDE DEF B
    <3> QED
      BY <1>1, <3>1, SmallestSubset
  <2>2. t \in SUBSET S /\ SumOver(t, f) \notin Nat
    BY <2>1
  <2>3. t # {}
    BY <2>2, SumEmpty
  <2> DEFINE x == Pick(t)
  <2>4. x \in t /\ t \ {x} \in SUBSET S /\ Cardinality(t \ {x}) = Cardinality(t) - 1
    BY <2>1, <2>2, <2>3, PickIn, Removed
  <2>5. t \ {x} \notin B
    BY <2>1, <2>4
  <2>6. SumOver(t \ {x}, f) \in Nat
    BY <2>4, <2>5
  <2>7. SumOver(t, f) = f[x] + SumOver(t \ {x}, f)
    BY <2>1, <2>3, SumPick
  <2> HIDE DEF x
  <2> QED
    BY <2>2, <2>4, <2>6, <2>7
<1>2. S \notin B
  BY <1>1
<1> QED
  BY <1>2

LEMMA SumRemove ==
  ASSUME NEW S, IsFiniteSet(S), NEW f, \A x \in S : f[x] \in Nat, NEW x \in S
  PROVE  SumOver(S, f) = f[x] + SumOver(S \ {x}, f)
<1> DEFINE Wrong(t, y) == SumOver(t, f) # f[y] + SumOver(t \ {y}, f)
           B == {t \in SUBSET S : \E y \in t : Wrong(t, y)}
<1>1. ASSUME B # {} PROVE FALSE
  <2>1. PICK t \in B : /\ IsFiniteSet(t) /\ Cardinality(t) \in Nat
                       /\ \A u \in B : Cardinality(t) <= Cardinality(u)
    <3>1. B \in SUBSET SUBSET S
      OBVIOUS
    <3> HIDE DEF B
    <3> QED
      BY <1>1, <3>1, SmallestSubset
  <2>2. t \in SUBSET S
    OBVIOUS
  <2>3. PICK y \in t : Wrong(t, y)
    OBVIOUS
  <2> DEFINE z == Pick(t)
  <2>4. z \in t /\ SumOver(t, f) = f[z] + SumOver(t \ {z}, f)
    BY <2>1, <2>3, PickIn, SumPick
  <2>5. y # z
    BY <2>3, <2>4
  <2> HIDE DEF z
  <2>6. ASSUME NEW w \in t, NEW v \in t, v # w
        PROVE  SumOver(t \ {w}, f) = f[v] + SumOver((t \ {w}) \ {v}, f)
    <3>1. t \ {w} \in SUBSET S /\ Cardinality(t \ {w}) = Cardinality(t) - 1
      BY <2>1, <2>2, Removed
    <3>2. t \ {w} \notin B
      <4> HIDE DEF B
      <4> QED
        BY <2>1, <3>1
    <3>3. v \in t \ {w}
      BY <2>6
    <3> QED
      BY <3>1, <3>2, <3>3
  <2>7. SumOver(t \ {z}, f) = f[y] + SumOver((t \ {z}) \ {y}, f)
    BY <2>4, <2>5, <2>6
  <2>8. SumOver(t \ {y}, f) = f[z] + SumOver((t \ {y}) \ {z}, f)
    BY <2>4, <2>5, <2>6
  <2>9. (t \ {z}) \ {y} = (t \ {y}) \ {z}
    OBVIOUS
  <2> DEFINE rest == SumOver((t \ {z}) \ {y}, f)
  <2>10. f[y] \in Nat /\ f[z] \in Nat /\ rest \in Nat
    <3>1. IsFiniteSet((t \ {z}) \ {y}) /\ \A v \in (t \ {z}) \ {y} : f[v] \in Nat
      BY <2>1, <2>2, FS_Subset
    <3> QED
      BY <2>2, <2>4, <3>1, SumType
  <2>11. SumOver(t, f) = f[z] + (f[y] + rest) /\ SumOver(t \ {y}, f) = f[z] + rest
    BY <2>4, <2>7, <2>8, <2>9
  <2> HIDE DEF rest
  <2>12. SumOver(t, f) = f[y] + SumOver(t \ {y}, f)
    BY <2>10, <2>11
  <2> QED
    BY <2>3, <2>12
<1>2. S \notin B
  BY <1>1
<1> QED
  BY <1>2

LEMMA SumAdd ==
  ASSUME NEW S, IsFiniteSet(S), NEW f, NEW x, x \notin S,
         \A y \in S \cup {x} : f[y] \in Nat
  PROVE  SumOver(S \cup {x}, f) = f[x] + SumOver(S, f)
<1>1. IsFiniteSet(S \cup {x}) /\ x \in S \cup {x} /\ (S \cup {x}) \ {x} = S
  BY FS_AddElement
<1> QED
  BY <1>1, SumRemove

\* Sums of functions that agree on the set, and of a pointwise sum.
LEMMA SumPlus ==
  ASSUME NEW S, IsFiniteSet(S), NEW f, NEW g, NEW h,
         \A x \in S : f[x] \in Nat /\ g[x] \in Nat /\ h[x] = f[x] + g[x]
  PROVE  SumOver(S, h) = SumOver(S, f) + SumOver(S, g)
<1> DEFINE Wrong(t) == SumOver(t, h) # SumOver(t, f) + SumOver(t, g)
           B == {t \in SUBSET S : Wrong(t)}
<1>1. ASSUME B # {} PROVE FALSE
  <2>1. PICK t \in B : /\ IsFiniteSet(t) /\ Cardinality(t) \in Nat
                       /\ \A u \in B : Cardinality(t) <= Cardinality(u)
    <3>1. B \in SUBSET SUBSET S
      OBVIOUS
    <3> HIDE DEF B
    <3> QED
      BY <1>1, <3>1, SmallestSubset
  <2>2. t \in SUBSET S /\ Wrong(t)
    OBVIOUS
  <2>3. t # {}
    <3>1. SumOver({}, f) = 0 /\ SumOver({}, g) = 0 /\ SumOver({}, h) = 0
      BY SumEmpty
    <3> QED
      BY <2>2, <3>1
  <2> DEFINE x == Pick(t)
             u == t \ {x}
  <2>4. x \in t /\ u \in SUBSET S /\ IsFiniteSet(u) /\ Cardinality(u) = Cardinality(t) - 1
    BY <2>1, <2>2, <2>3, PickIn, Removed
  <2>5. ~Wrong(u)
    <3>1. u \notin B
      <4> HIDE DEF B
      <4> QED
        BY <2>1, <2>4
    <3> QED
      BY <2>4, <3>1
  <2>6. /\ SumOver(t, f) = f[x] + SumOver(u, f)
        /\ SumOver(t, g) = g[x] + SumOver(u, g)
        /\ SumOver(t, h) = h[x] + SumOver(u, h)
    BY <2>1, <2>3, SumPick
  <2> HIDE DEF x, u
  <2>7. SumOver(u, f) \in Nat /\ SumOver(u, g) \in Nat
    BY <2>4, SumType
  <2>8. f[x] \in Nat /\ g[x] \in Nat /\ h[x] = f[x] + g[x]
    BY <2>2, <2>4
  <2> QED
    BY <2>2, <2>5, <2>6, <2>7, <2>8
<1>2. S \notin B
  BY <1>1
<1> QED
  BY <1>2

LEMMA SumSame ==
  ASSUME NEW S, IsFiniteSet(S), NEW f, NEW g,
         \A x \in S : f[x] \in Nat /\ g[x] = f[x]
  PROVE  SumOver(S, g) = SumOver(S, f)
<1> DEFINE zero == [x \in S |-> 0]
<1>1. \A x \in S : zero[x] \in Nat /\ f[x] = f[x] + zero[x] /\ g[x] = f[x] + zero[x]
  OBVIOUS
<1> HIDE DEF zero
<1> QED
  BY <1>1, SumPlus

-----------------------------------------------------------------------------
\* g holds what taking the lines of each set of places, in order, makes of acc.
Taken(g, acc, lines) ==
  g = [s \in SUBSET DOMAIN lines |->
         IF s = {} THEN acc ELSE TakeLine(g[s \ {Max(s)}], lines[Max(s)])]

LEMMA FoldUnfolds ==
  ASSUME NEW acc, NEW lines
  PROVE  TakeLines(acc, lines) = (CHOOSE g : Taken(g, acc, lines))[DOMAIN lines]
BY DEF TakeLines, FoldLeft, MapThenFoldSet, Taken

LEMMA TakenExists ==
  ASSUME NEW acc, NEW lines, NEW n \in Nat, DOMAIN lines = 1..n
  PROVE  \E g : Taken(g, acc, lines)
<1> DEFINE D == 1..n
           G(k) == {s \in SUBSET D : Cardinality(s) <= k}
           Step(g, s) == IF s = {} THEN acc
                         ELSE TakeLine(g[s \ {Max(s)}], lines[Max(s)])
           Good(k) == \E g : \A s \in G(k) : g[s] = Step(g, s)
           T == {k \in Nat : ~Good(k)}
<1>0. IsFiniteSet(D)
  BY FS_Interval
<1>1. \A s \in SUBSET D : IsFiniteSet(s) /\ Cardinality(s) \in Nat
  <2> HIDE DEF D
  <2> QED
    BY <1>0, FS_Subset, FS_CardinalityType
<1>2. \A s \in SUBSET D : s # {} =>
        /\ s \ {Max(s)} \in SUBSET D
        /\ Cardinality(s \ {Max(s)}) = Cardinality(s) - 1
  BY <1>1, MaxIn, Removed
<1>3. Good(0)
  <2> DEFINE g == [s \in SUBSET D |-> acc]
  <2>1. ASSUME NEW s \in G(0) PROVE s = {}
    <3> HIDE DEF D
    <3> QED
      BY <1>1, FS_EmptySet
  <2>2. \A s \in G(0) : g[s] = Step(g, s)
    BY <2>1
  <2> QED
    BY <2>2
<1>4. ASSUME NEW k \in Nat, k # 0, Good(k - 1) PROVE Good(k)
  <2>1. PICK g : \A s \in G(k - 1) : g[s] = Step(g, s)
    BY <1>4
  <2> DEFINE h == [s \in SUBSET D |-> Step(g, s)]
  <2> HIDE DEF D
  <2>2. ASSUME NEW s \in G(k) PROVE h[s] = Step(h, s)
    <3>1. CASE s = {}
      BY <3>1
    <3>2. CASE s # {}
      <4> DEFINE t == s \ {Max(s)}
      <4>1. t \in SUBSET D /\ Cardinality(t) = Cardinality(s) - 1
        BY <1>2, <3>2
      <4>2. t \in G(k - 1)
        BY <1>1, <4>1
      <4>3. h[t] = g[t]
        BY <2>1, <4>1, <4>2
      <4>4. h[s] = TakeLine(g[t], lines[Max(s)])
        BY <3>2
      <4> HIDE DEF h
      <4> QED
        BY <3>2, <4>3, <4>4
    <3> QED
      BY <3>1, <3>2
  <2> QED
    BY <2>2
<1>5. ASSUME NEW k \in Nat PROVE Good(k)
  <2> SUFFICES ASSUME ~Good(k) PROVE FALSE
    OBVIOUS
  <2>1. T \in SUBSET Nat /\ k \in T
    OBVIOUS
  <2>2. PICK m \in T : \A j \in T : m <= j
    <3> HIDE DEF T
    <3> QED
      BY <2>1, LeastNatural
  <2>3. m \in Nat /\ ~Good(m)
    BY <2>2
  <2>4. m # 0
    BY <1>3, <2>3
  <2>5. m - 1 \in Nat /\ m - 1 \notin T
    <3> HIDE DEF T
    <3> QED
      BY <2>2, <2>3, <2>4
  <2> HIDE DEF Good
  <2> QED
    BY <1>4, <2>3, <2>4, <2>5
<1> HIDE DEF D
<1>6. Cardinality(D) \in Nat /\ \A s \in SUBSET D : s \in G(Cardinality(D))
  BY <1>0, <1>1, FS_CardinalityType, FS_Subset
<1>7. PICK g : \A s \in SUBSET D : g[s] = Step(g, s)
  <2>1. Good(Cardinality(D))
    <3> HIDE DEF Good
    <3> QED
      BY <1>5, <1>6
  <2> QED
    BY <1>6, <2>1
<1> DEFINE h == [s \in SUBSET D |-> g[s]]
<1>8. ASSUME NEW s \in SUBSET D PROVE h[s] = Step(h, s)
  <2>1. h[s] = g[s]
    OBVIOUS
  <2>2. CASE s = {}
    BY <1>7, <2>1, <2>2
  <2>3. CASE s # {}
    <3>1. h[s \ {Max(s)}] = g[s \ {Max(s)}]
      BY <1>2, <2>3
    <3> HIDE DEF h
    <3> QED
      BY <1>7, <2>1, <2>3, <3>1
  <2> QED
    BY <2>2, <2>3
<1>9. h = [s \in SUBSET D |-> Step(h, s)]
  <2>1. h = [s \in SUBSET D |-> h[s]]
    OBVIOUS
  <2> HIDE DEF h
  <2> QED
    BY <1>8, <2>1
<1> HIDE DEF h
<1>10. D = DOMAIN lines
  BY DEF D
<1> QED
  BY <1>9, <1>10 DEF Taken

\* The fold of feed() takes the lines one after the other.
LEMMA FoldTakes ==
  ASSUME NEW acc, NEW lines, NEW n \in Nat, DOMAIN lines = 1..n
  PROVE  \E g : /\ g[0] = acc
                /\ \A k \in 1..n : g[k] = TakeLine(g[k - 1], lines[k])
                /\ TakeLines(acc, lines) = g[n]
<1>1. PICK t : Taken(t, acc, lines) /\ TakeLines(acc, lines) = t[1..n]
  BY TakenExists, FoldUnfolds
<1> DEFINE g == [k \in 0..n |-> t[1..k]]
<1>2. g[0] = acc /\ g[n] = t[1..n]
  <2>1. 1..0 = {} /\ 0 \in 0..n /\ n \in 0..n
    OBVIOUS
  <2> QED
    BY <1>1, <2>1 DEF Taken
<1>3. ASSUME NEW k \in 1..n
      PROVE  g[k] = TakeLine(g[k - 1], lines[k])
  <2>1. 1..k \in SUBSET DOMAIN lines /\ 1..k # {} /\ k \in 0..n /\ k - 1 \in 0..n
    <3> HIDE DEF g
    <3>1. 1..k \subseteq 1..n /\ k \in 1..k
      OBVIOUS
    <3> QED
      BY <3>1
  <2>2. Max(1..k) = k /\ (1..k) \ {k} = 1..(k - 1)
    BY MaxOfRange
  <2>3. t[1..k] = TakeLine(t[1..(k - 1)], lines[k])
    BY <1>1, <2>1, <2>2 DEF Taken
  <2> QED
    BY <2>1, <2>3
<1> HIDE DEF g
<1> QED
  BY <1>1, <1>2, <1>3

-----------------------------------------------------------------------------
(* The parser of streams. *)

Bytes == UNION {ToSet(v) : v \in Wires}

Accumulators ==
  [buf : Seq(Bytes), usage : UsageType, model : Seq(STRING),
   started : BOOLEAN, failed : BOOLEAN]

LEMMA AxesAre ==
  Axes = {"input_tokens", "output_tokens", "cache_write_tokens", "cache_read_tokens"}
BY DEF Axes, AxisOrder, ToSet

LEMMA ReachedFinite ==
  ASSUME NEW u, NEW a \in Reached(u) \cap DOMAIN u
  PROVE  u[a] # Infinite
<1>1. PICK i \in DOMAIN AxisOrder :
        /\ a = AxisOrder[i]
        /\ \A j \in 1..i : AxisOrder[j] \in DOMAIN u => u[AxisOrder[j]] # Infinite
  BY DEF Reached
<1>2. i \in 1..i
  BY DEF AxisOrder
<1> QED
  BY <1>1, <1>2

LEMMA MergeType ==
  ASSUME NEW usage \in UsageType, NEW line \in DOMAIN Event
  PROVE  Merge(usage, Event[line].usage) \in UsageType
<1> DEFINE u == Event[line].usage
<1>1. \A a \in Reached(u) \cap DOMAIN u : u[a] \in Nat
  BY ReachedFinite, SSEUsageAssumption
<1> HIDE DEF u
<1>2. \A a \in Axes : (IF a \in Reached(u) \cap DOMAIN u /\ u[a] > usage[a]
                         THEN u[a] ELSE usage[a]) \in Nat
  BY <1>1 DEF UsageType
<1>3. Merge(usage, u) \in UsageType
  BY <1>2 DEF Merge, UsageType
<1> QED
  BY <1>3 DEF u

LEMMA TakeLineType ==
  ASSUME NEW acc \in Accumulators, NEW raw
  PROVE  /\ TakeLine(acc, raw) \in Accumulators
         /\ TakeLine(acc, raw).buf = acc.buf
<1> DEFINE line == WithoutCR(raw)
<1>1. CASE acc.failed \/ line \notin DOMAIN Event
  BY <1>1 DEF TakeLine
<1>2. CASE ~(acc.failed \/ line \notin DOMAIN Event)
  <2>1. Merge(acc.usage, Event[line].usage) \in UsageType
    BY <1>2, MergeType DEF Accumulators
  <2>2. Event[line].model \in Seq(STRING)
    BY <1>2, SSEUsageAssumption
  <2>3. TakeLine(acc, raw) = Consume(acc, Event[line])
    BY <1>2 DEF TakeLine
  <2> HIDE DEF line
  <2>4. /\ Consume(acc, Event[line]) \in Accumulators
        /\ Consume(acc, Event[line]).buf = acc.buf
    BY <2>1, <2>2, <1>2 DEF Consume, Accumulators
  <2> QED
    BY <2>3, <2>4
<1> QED
  BY <1>1, <1>2

LEMMA FoldType ==
  ASSUME NEW acc \in Accumulators, NEW lines, NEW n \in Nat, DOMAIN lines = 1..n
  PROVE  /\ TakeLines(acc, lines) \in Accumulators
         /\ TakeLines(acc, lines).buf = acc.buf
<1>1. PICK g : /\ g[0] = acc
               /\ \A k \in 1..n : g[k] = TakeLine(g[k - 1], lines[k])
               /\ TakeLines(acc, lines) = g[n]
  BY FoldTakes
<1> DEFINE Typed(k) == g[k] \in Accumulators /\ g[k].buf = acc.buf
           T == {k \in 0..n : ~Typed(k)}
<1>2. ASSUME T # {} PROVE FALSE
  <2>1. T \in SUBSET Nat
    OBVIOUS
  <2>2. PICK m \in T : \A j \in T : m <= j
    <3> HIDE DEF T
    <3> QED
      BY <1>2, <2>1, LeastNatural
  <2>3. m \in 1..n
    BY <1>1
  <2>4. Typed(m - 1)
    <3>1. m - 1 \notin T
      <4> HIDE DEF T
      <4> QED
        BY <2>2, <2>3
    <3> QED
      BY <2>3, <3>1
  <2> QED
    BY <1>1, <2>3, <2>4, TakeLineType
<1>3. Typed(n)
  BY <1>2
<1> QED
  BY <1>1, <1>3

LEMMA BreaksFinite ==
  ASSUME NEW bytes \in Seq(Bytes)
  PROVE  /\ IsFiniteSet(Breaks(bytes)) /\ Breaks(bytes) \in SUBSET (1..Len(bytes))
         /\ Cardinality(Breaks(bytes)) \in Nat
<1>1. Breaks(bytes) \in SUBSET (1..Len(bytes)) /\ IsFiniteSet(1..Len(bytes))
  BY FS_Interval DEF Breaks
<1> QED
  BY <1>1, FS_Subset, FS_CardinalityType

\* Behind the last newline of bytes there is none.
LEMMA RestType ==
  ASSUME NEW bytes \in Seq(Bytes)
  PROVE  Rest(bytes) \in Seq(Bytes) /\ NL \notin ToSet(Rest(bytes))
<1> DEFINE B == Breaks(bytes)
           n == Cardinality(B)
           last == Break(bytes, n)
<1>1. IsFiniteSet(B) /\ B \in SUBSET (1..Len(bytes)) /\ n \in Nat
  BY BreaksFinite
<1>2. last \in 0..Len(bytes) /\ \A i \in B : i <= last
  <2>1. CASE n = 0
    BY <1>1, <2>1, FS_EmptySet DEF Break
  <2>2. CASE n # 0
    <3>1. B # {}
      BY <2>2, FS_EmptySet
    <3> DEFINE Upto(i) == {j \in B : j <= i}
    <3>2. Max(B) \in B /\ \A j \in B : Max(B) >= j
      <4> HIDE DEF B
      <4> QED
        BY <1>1, <3>1, MaxIn, Len(bytes) \in Nat
    <3>3. Upto(Max(B)) = B
      BY <1>1, <3>2
    <3>4. Cardinality(Upto(Max(B))) = n
      BY <3>3
    <3>5. last \in B /\ Cardinality(Upto(last)) = n
      BY <2>2, <3>2, <3>4 DEF Break
    <3> HIDE DEF last
    <3>6. Upto(last) = B
      <4>1. Upto(last) \in SUBSET B
        OBVIOUS
      <4> HIDE DEF Upto, B
      <4> QED
        BY <1>1, <3>5, <4>1, FS_Subset DEF n
    <3> QED
      BY <1>1, <3>5, <3>6
  <2> QED
    BY <2>1, <2>2
<1>3. Rest(bytes) = SubSeq(bytes, last + 1, Len(bytes))
  BY DEF Rest
<1> HIDE DEF last, n, B
<1>4. Rest(bytes) \in Seq(Bytes)
  BY <1>2, <1>3
<1>5. ASSUME NEW k \in DOMAIN Rest(bytes) PROVE Rest(bytes)[k] # NL
  <2>1. k \in Nat /\ k >= 1 /\ last + k <= Len(bytes) /\ Rest(bytes)[k] = bytes[last + k]
    BY <1>2, <1>3
  <2>2. last + k \notin B
    BY <1>2, <2>1
  <2> QED
    BY <1>2, <2>1, <2>2 DEF B, Breaks
<1> QED
  BY <1>4, <1>5 DEF ToSet

LEMMA FeedType ==
  ASSUME NEW acc \in Accumulators, NEW chunk \in Seq(Bytes)
  PROVE  Feed(acc, chunk) \in Accumulators /\ NL \notin ToSet(Feed(acc, chunk).buf)
<1> DEFINE whole == acc.buf \o chunk
           start == [acc EXCEPT !.buf = Rest(whole)]
           n == Cardinality(Breaks(whole))
<1>1. whole \in Seq(Bytes)
  BY DEF Accumulators
<1>2. Rest(whole) \in Seq(Bytes) /\ NL \notin ToSet(Rest(whole)) /\ n \in Nat
  <2> HIDE DEF whole
  <2> QED
    BY <1>1, RestType, BreaksFinite
<1>3. DOMAIN RawLines(whole) = 1..n
  BY DEF RawLines
<1>4. Feed(acc, chunk) = TakeLines(start, RawLines(whole))
  BY DEF Feed
<1> HIDE DEF whole, n
<1>5. start \in Accumulators /\ start.buf = Rest(whole)
  BY <1>2 DEF Accumulators
<1> HIDE DEF start
<1> QED
  BY <1>2, <1>3, <1>4, <1>5, FoldType

-----------------------------------------------------------------------------
(* The lines and events of a stream, however its bytes were cut. *)

\* The newlines of bytes up to place i.
Upto(bytes, i) == {j \in Breaks(bytes) : j <= i}

\* They are finitely many.
LEMMA UptoParts ==
  ASSUME NEW bytes \in Seq(Bytes), NEW i
  PROVE  IsFiniteSet(Upto(bytes, i)) /\ Cardinality(Upto(bytes, i)) \in Nat
BY BreaksFinite, FS_Subset, FS_CardinalityType DEF Upto

\* There are more of them the further on.
LEMMA RankRises ==
  ASSUME NEW bytes \in Seq(Bytes), NEW i \in Nat, NEW x \in Breaks(bytes), i < x
  PROVE  Cardinality(Upto(bytes, i)) < Cardinality(Upto(bytes, x))
<1> DEFINE A == Upto(bytes, i)  B == Upto(bytes, x)
<1>1. x \in Nat
  BY BreaksFinite
<1>2. A \cup {x} \subseteq B /\ x \notin A
  BY <1>1, BreaksFinite DEF Upto
<1>3. IsFiniteSet(A) /\ Cardinality(A) \in Nat /\ IsFiniteSet(B) /\ Cardinality(B) \in Nat
  BY UptoParts
<1> HIDE DEF A, B
<1>4. Cardinality(A \cup {x}) = Cardinality(A) + 1
  BY <1>2, <1>3, FS_AddElement
<1>5. Cardinality(A \cup {x}) <= Cardinality(B)
  BY <1>2, <1>3, FS_Subset
<1> QED
  BY <1>3, <1>4, <1>5 DEF A, B

\* The place behind the k-th newline, one line further, is the next newline.
LEMMA NextBreak ==
  ASSUME NEW bytes \in Seq(Bytes), NEW i \in Nat, Upto(bytes, i) # Breaks(bytes)
  PROVE  \E x \in Breaks(bytes) :
           Cardinality(Upto(bytes, x)) = Cardinality(Upto(bytes, i)) + 1
<1> DEFINE T == {j \in Breaks(bytes) : i < j}
<1>0. Breaks(bytes) \in SUBSET Nat
  BY BreaksFinite
<1>1. T \in SUBSET Nat /\ T # {}
  BY <1>0 DEF Upto
<1>2. PICK x \in T : \A y \in T : x <= y
  <2> HIDE DEF T
  <2> QED
    BY <1>1, LeastNatural
<1>3. x \in Nat /\ i < x /\ \A j \in Breaks(bytes) : j <= x => j = x \/ j <= i
  BY <1>0, <1>2
<1>4. Upto(bytes, x) = Upto(bytes, i) \cup {x} /\ x \notin Upto(bytes, i)
  BY <1>0, <1>2, <1>3 DEF Upto
<1>5. Cardinality(Upto(bytes, x)) = Cardinality(Upto(bytes, i)) + 1
  BY <1>4, UptoParts, FS_AddElement
<1> QED
  BY <1>5

\* The k-th newline is one, with k - 1 before it.
LEMMA BreakParts ==
  ASSUME NEW bytes \in Seq(Bytes), NEW k \in 0..Cardinality(Breaks(bytes))
  PROVE  /\ Break(bytes, k) \in 0..Len(bytes)
         /\ Cardinality(Upto(bytes, Break(bytes, k))) = k
         /\ k # 0 => Break(bytes, k) \in Breaks(bytes)
<1> DEFINE n == Cardinality(Breaks(bytes))
           Fine(m) == /\ Break(bytes, m) \in 0..Len(bytes)
                      /\ Cardinality(Upto(bytes, Break(bytes, m))) = m
                      /\ m # 0 => Break(bytes, m) \in Breaks(bytes)
           T == {m \in 0..n : ~Fine(m)}
<1>0. /\ n \in Nat /\ Len(bytes) \in Nat /\ Breaks(bytes) \in SUBSET (1..Len(bytes))
      /\ IsFiniteSet(Breaks(bytes))
  BY BreaksFinite, LenProperties
<1>1. Fine(0)
  <2>1. Break(bytes, 0) = 0
    BY DEF Break
  <2>2. Upto(bytes, 0) = {}
    BY <1>0 DEF Upto
  <2>3. Cardinality(Upto(bytes, 0)) = 0
    BY <2>2, FS_EmptySet
  <2>4. 0 \in 0..Len(bytes)
    BY <1>0
  <2> QED
    BY <2>1, <2>3, <2>4
<1>2. ASSUME NEW m \in 1..n, Fine(m - 1) PROVE Fine(m)
  <2> DEFINE i == Break(bytes, m - 1)
  <2>1. i \in Nat /\ Cardinality(Upto(bytes, i)) = m - 1
    <3>1. i \in 0..Len(bytes) /\ Cardinality(Upto(bytes, i)) = m - 1
      BY <1>2
    <3> HIDE DEF i
    <3> QED
      BY <1>0, <3>1
  <2> HIDE DEF i
  <2>2. Upto(bytes, i) # Breaks(bytes)
    BY <1>0, <2>1
  <2>3. \E x \in Breaks(bytes) : Cardinality(Upto(bytes, x)) = m
    BY <1>0, <2>1, <2>2, NextBreak
  <2>4. Break(bytes, m) = CHOOSE x \in Breaks(bytes) : Cardinality(Upto(bytes, x)) = m
    <3>1. m # 0
      BY <1>0
    <3> QED
      BY <3>1 DEF Break, Upto
  <2>5. Break(bytes, m) \in Breaks(bytes) /\ Cardinality(Upto(bytes, Break(bytes, m))) = m
    BY <2>3, <2>4
  <2> QED
    BY <1>0, <2>5
<1>3. ASSUME T # {} PROVE FALSE
  <2>1. T \in SUBSET Nat
    BY <1>0
  <2>2. PICK m \in T : \A j \in T : m <= j
    <3> HIDE DEF T
    <3> QED
      BY <1>3, <2>1, LeastNatural
  <2>3. m \in 1..n
    BY <1>0, <1>1
  <2>4. m - 1 \notin T
    <3> HIDE DEF T
    <3> QED
      BY <1>0, <2>2, <2>3
  <2>5. Fine(m - 1)
    BY <1>0, <2>3, <2>4
  <2> HIDE DEF Fine
  <2> QED
    BY <1>2, <2>2, <2>3, <2>5
<1>4. Fine(k)
  BY <1>3
<1> QED
  BY <1>4

\* Between a newline and the next there is none.
LEMMA BreakNext ==
  ASSUME NEW bytes \in Seq(Bytes), NEW k \in 1..Cardinality(Breaks(bytes))
  PROVE  /\ Break(bytes, k - 1) < Break(bytes, k)
         /\ \A x \in Breaks(bytes) : Break(bytes, k - 1) < x => Break(bytes, k) <= x
<1> DEFINE a == Break(bytes, k - 1)  b == Break(bytes, k)
<1>0. /\ k \in Nat /\ k - 1 \in Nat /\ Cardinality(Breaks(bytes)) \in Nat
      /\ Breaks(bytes) \in SUBSET Nat
  BY BreaksFinite
<1>1. /\ a \in Nat /\ Cardinality(Upto(bytes, a)) = k - 1
      /\ b \in Nat /\ b \in Breaks(bytes) /\ Cardinality(Upto(bytes, b)) = k
      /\ k - 1 # 0 => a \in Breaks(bytes)
  BY <1>0, BreakParts
<1> HIDE DEF a, b
<1>2. a < b
  <2>1. CASE b < a
    <3>1. a \in Breaks(bytes)
      <4>1. CASE k - 1 = 0
        <5>1. a = 0
          BY <4>1 DEF a, Break
        <5> QED
          BY <1>1, <2>1, <5>1
      <4> QED
        BY <1>1, <4>1
    <3>2. k < k - 1
      BY <1>1, <2>1, <3>1, RankRises
    <3> QED
      BY <1>0, <3>2
  <2>2. a # b
    BY <1>0, <1>1
  <2> QED
    BY <1>1, <2>1, <2>2
<1>3. ASSUME NEW x \in Breaks(bytes), a < x, ~(b <= x) PROVE FALSE
  <2>1. x \in Nat /\ x < b
    BY <1>0, <1>1, <1>3
  <2>2. Cardinality(Upto(bytes, a)) < Cardinality(Upto(bytes, x))
    BY <1>1, <1>3, RankRises
  <2>3. Cardinality(Upto(bytes, x)) < Cardinality(Upto(bytes, b))
    BY <1>1, <2>1, RankRises
  <2>4. Cardinality(Upto(bytes, x)) \in Nat
    BY UptoParts
  <2> QED
    BY <1>0, <1>1, <2>2, <2>3, <2>4
<1> QED
  BY <1>2, <1>3 DEF a, b

\* What follows the last newline, wherever that is.
LEMMA RestIs ==
  ASSUME NEW bytes \in Seq(Bytes), NEW c \in 0..Len(bytes),
         c # 0 => bytes[c] = NL,
         \A i \in Breaks(bytes) : i <= c
  PROVE  /\ Rest(bytes) = SubSeq(bytes, c + 1, Len(bytes))
         /\ Break(bytes, Cardinality(Breaks(bytes))) = c
<1> DEFINE n == Cardinality(Breaks(bytes))
           last == Break(bytes, n)
<1>0. n \in Nat /\ Breaks(bytes) \in SUBSET (1..Len(bytes)) /\ Len(bytes) \in Nat
  BY BreaksFinite, LenProperties
<1>1. last \in 0..Len(bytes) /\ Cardinality(Upto(bytes, last)) = n
      /\ (n # 0 => last \in Breaks(bytes))
  BY <1>0, BreakParts
<1>2. Upto(bytes, c) = Breaks(bytes)
  BY <1>0 DEF Upto
<1>3. c # 0 => c \in Breaks(bytes)
  BY <1>0 DEF Breaks
<1>4. last = 0 \/ last \in Breaks(bytes)
  <2>1. CASE n = 0
    BY <2>1 DEF Break
  <2> QED
    BY <1>1, <2>1
<1> HIDE DEF last
<1>5. last <= c
  BY <1>0, <1>1, <1>4
<1>6. ~(last < c)
  <2> SUFFICES ASSUME last < c PROVE FALSE
    OBVIOUS
  <2>1. n < Cardinality(Upto(bytes, c))
    BY <1>1, <1>3, RankRises
  <2> QED
    BY <1>0, <1>2, <2>1
<1>7. last = c
  BY <1>1, <1>5, <1>6
<1> QED
  BY <1>7 DEF Rest, last

\* Two sequences that agree on a stretch, one shifted by o, have the same slice.
LEMMA SameSlice ==
  ASSUME NEW S, NEW a \in Seq(S), NEW b \in Seq(S), NEW o \in Nat, NEW m \in Nat, m >= 1,
         NEW n \in Int, n <= Len(b), o + n <= Len(a),
         \A k \in m..n : a[o + k] = b[k]
  PROVE  SubSeq(a, o + m, o + n) = SubSeq(b, m, n)
<1> DEFINE x == SubSeq(a, o + m, o + n)  y == SubSeq(b, m, n)
<1>0. /\ Len(a) \in Nat /\ Len(b) \in Nat
      /\ \A k \in 1..Len(a) : a[k] \in S
      /\ \A k \in 1..Len(b) : b[k] \in S
  BY LenProperties, ElementOfSeq
<1>1. /\ y \in Seq(S) /\ Len(y) = IF m <= n THEN n - m + 1 ELSE 0
      /\ \A i \in 1..(n - m + 1) : y[i] = b[m + i - 1]
  <2>1. \A k \in m..n : b[k] \in S
    BY <1>0
  <2> QED
    BY <2>1, SubSeqProperties
<1>2. /\ x \in Seq(S) /\ Len(x) = IF m <= n THEN n - m + 1 ELSE 0
      /\ \A i \in 1..(n - m + 1) : x[i] = a[o + m + i - 1]
  <2> DEFINE p == o + m  q == o + n
  <2>1. p \in Int /\ q \in Int /\ (p <= q <=> m <= n) /\ q - p + 1 = n - m + 1
    OBVIOUS
  <2>2. \A k \in p..q : a[k] \in S
    BY <1>0
  <2> HIDE DEF p, q
  <2>3. /\ SubSeq(a, p, q) \in Seq(S)
        /\ Len(SubSeq(a, p, q)) = IF p <= q THEN q - p + 1 ELSE 0
        /\ \A i \in 1..(q - p + 1) : SubSeq(a, p, q)[i] = a[p + i - 1]
    BY <2>1, <2>2, SubSeqProperties
  <2> QED
    BY <2>1, <2>3 DEF p, q
<1> HIDE DEF x, y
<1>3. \A i \in 1..Len(y) : x[i] = y[i]
  <2> SUFFICES ASSUME NEW i \in 1..Len(y) PROVE x[i] = y[i]
    OBVIOUS
  <2>1. i \in 1..(n - m + 1) /\ m + i - 1 \in m..n
    BY <1>1
  <2>2. a[o + (m + i - 1)] = b[m + i - 1] /\ o + (m + i - 1) = o + m + i - 1
    BY <2>1
  <2> QED
    BY <1>1, <1>2, <2>1, <2>2
<1> QED
  BY <1>1, <1>2, <1>3, SeqEqual DEF x, y

\* What Books!EventsIn() calls a whole line, from i to the newline at j, and
\* what it reads.
WholeLine(bytes, i, j) ==
  /\ i = 1 \/ bytes[i - 1] = NL
  /\ bytes[j] = NL
  /\ \A k \in i..(j - 1) : bytes[k] # NL

LineOf(bytes, i, j) == WithoutCR(SubSeq(bytes, i, j - 1))

LEMMA EventsAre ==
  ASSUME NEW bytes
  PROVE  EventsIn(bytes) =
           [j \in {j \in DOMAIN bytes : \E i \in 1..j : WholeLine(bytes, i, j)
                                          /\ LineOf(bytes, i, j) \in DOMAIN Event}
              |-> Event[LineOf(bytes, CHOOSE i \in 1..j : WholeLine(bytes, i, j), j)]]
BY DEF EventsIn, WholeLine, LineOf

\* A line has one beginning.
LEMMA OneStart ==
  ASSUME NEW bytes, NEW j \in Nat, NEW i \in 1..j, WholeLine(bytes, i, j),
         NEW h \in 1..j, WholeLine(bytes, h, j)
  PROVE  i = h
<1>1. ~(i < h) /\ ~(h < i)
  BY DEF WholeLine
<1> QED
  BY <1>1

\* The event of the line from i to j, if it has one.
LEMMA EventAt ==
  ASSUME NEW bytes \in Seq(Bytes), NEW j \in 1..Len(bytes), NEW i \in 1..j,
         WholeLine(bytes, i, j)
  PROVE  /\ j \in DOMAIN EventsIn(bytes) <=> LineOf(bytes, i, j) \in DOMAIN Event
         /\ j \in DOMAIN EventsIn(bytes) =>
              EventsIn(bytes)[j] = Event[LineOf(bytes, i, j)]
<1>0. j \in Nat /\ j \in DOMAIN bytes
  BY LenProperties
<1>1. \A h \in 1..j : WholeLine(bytes, h, j) => h = i
  BY <1>0, OneStart
<1>2. (CHOOSE h \in 1..j : WholeLine(bytes, h, j)) = i
  BY <1>1
<1>3. j \in DOMAIN EventsIn(bytes) <=>
        \E h \in 1..j : WholeLine(bytes, h, j) /\ LineOf(bytes, h, j) \in DOMAIN Event
  BY <1>0, EventsAre
<1>4. j \in DOMAIN EventsIn(bytes) =>
        EventsIn(bytes)[j]
          = Event[LineOf(bytes, CHOOSE h \in 1..j : WholeLine(bytes, h, j), j)]
  BY EventsAre
<1> QED
  BY <1>1, <1>2, <1>3, <1>4

\* An event is at the newline that ends its line.
LEMMA EventEnds ==
  ASSUME NEW bytes \in Seq(Bytes), NEW j \in DOMAIN EventsIn(bytes)
  PROVE  /\ j \in 1..Len(bytes) /\ bytes[j] = NL /\ j \in Breaks(bytes)
         /\ \E i \in 1..j : WholeLine(bytes, i, j)
         /\ \E line \in DOMAIN Event : EventsIn(bytes)[j] = Event[line]
<1>1. j \in DOMAIN bytes /\ \E i \in 1..j : WholeLine(bytes, i, j)
  BY EventsAre
<1>2. PICK i \in 1..j : WholeLine(bytes, i, j)
  BY <1>1
<1>3. j \in 1..Len(bytes) /\ bytes[j] = NL
  BY <1>1, <1>2, LenProperties DEF WholeLine
<1> QED
  BY <1>1, <1>2, <1>3, EventAt DEF Breaks

\* Bytes that come later change nothing about the lines that are complete.
LEMMA EventsExtend ==
  ASSUME NEW bytes \in Seq(Bytes), NEW more \in Seq(Bytes), NEW j \in 1..Len(bytes)
  PROVE  /\ j \in DOMAIN EventsIn(bytes \o more) <=> j \in DOMAIN EventsIn(bytes)
         /\ j \in DOMAIN EventsIn(bytes) =>
              EventsIn(bytes \o more)[j] = EventsIn(bytes)[j]
<1> DEFINE all == bytes \o more
<1>0. Len(bytes) \in Nat /\ Len(more) \in Nat
  BY LenProperties
<1>1. /\ all \in Seq(Bytes) /\ Len(all) = Len(bytes) + Len(more)
      /\ \A k \in 1..Len(bytes) : all[k] = bytes[k]
  BY ConcatProperties
<1> HIDE DEF all
<1>2. j \in 1..Len(all) /\ j \in Nat
  BY <1>0, <1>1
<1>3. ASSUME NEW i \in 1..j
      PROVE  /\ WholeLine(all, i, j) <=> WholeLine(bytes, i, j)
             /\ LineOf(all, i, j) = LineOf(bytes, i, j)
  <2>1. /\ all[j] = bytes[j] /\ \A k \in i..(j - 1) : all[k] = bytes[k]
        /\ i # 1 => all[i - 1] = bytes[i - 1]
    <3>1. /\ j \in 1..Len(bytes) /\ \A k \in i..(j - 1) : k \in 1..Len(bytes)
          /\ i # 1 => i - 1 \in 1..Len(bytes)
      BY <1>0
    <3> QED
      BY <1>1, <3>1
  <2>2. WholeLine(all, i, j) <=> WholeLine(bytes, i, j)
    <3>1. (i = 1 \/ all[i - 1] = NL) <=> (i = 1 \/ bytes[i - 1] = NL)
      BY <2>1
    <3>2. (\A k \in i..(j - 1) : all[k] # NL) <=> (\A k \in i..(j - 1) : bytes[k] # NL)
      BY <2>1
    <3> QED
      BY <2>1, <3>1, <3>2, Zenon DEF WholeLine
  <2>3. SubSeq(all, i, j - 1) = SubSeq(bytes, i, j - 1)
    <3>1. \A k \in i..(j - 1) : all[0 + k] = bytes[k]
      BY <1>2, <2>1
    <3>2. SubSeq(all, 0 + i, 0 + (j - 1)) = SubSeq(bytes, i, j - 1)
      <4> DEFINE n == j - 1
      <4>1. i \in Nat /\ i >= 1 /\ n \in Int /\ n <= Len(bytes) /\ 0 + n <= Len(all)
        BY <1>0, <1>1, <1>2
      <4>2. \A k \in i..n : all[0 + k] = bytes[k]
        BY <3>1
      <4> HIDE DEF n
      <4>3. SubSeq(all, 0 + i, 0 + n) = SubSeq(bytes, i, n)
        BY <1>1, <4>1, <4>2, SameSlice
      <4> QED
        BY <4>3 DEF n
    <3> QED
      BY <1>2, <3>2
  <2> QED
    BY <2>2, <2>3 DEF LineOf
<1>4. CASE \E i \in 1..j : WholeLine(bytes, i, j)
  <2>1. PICK i \in 1..j : WholeLine(bytes, i, j)
    BY <1>4
  <2>2. WholeLine(all, i, j) /\ LineOf(all, i, j) = LineOf(bytes, i, j)
    BY <1>3, <2>1
  <2>3. /\ j \in DOMAIN EventsIn(bytes) <=> LineOf(bytes, i, j) \in DOMAIN Event
        /\ j \in DOMAIN EventsIn(bytes) => EventsIn(bytes)[j] = Event[LineOf(bytes, i, j)]
    BY <2>1, EventAt
  <2>4. /\ j \in DOMAIN EventsIn(all) <=> LineOf(all, i, j) \in DOMAIN Event
        /\ j \in DOMAIN EventsIn(all) => EventsIn(all)[j] = Event[LineOf(all, i, j)]
    BY <1>1, <1>2, <2>2, EventAt
  <2> QED
    BY <2>2, <2>3, <2>4 DEF all
<1>5. CASE ~ \E i \in 1..j : WholeLine(bytes, i, j)
  <2>1. j \notin DOMAIN EventsIn(bytes)
    BY <1>5, EventEnds
  <2>2. j \notin DOMAIN EventsIn(all)
    BY <1>1, <1>3, <1>5, EventEnds
  <2> QED
    BY <2>1, <2>2 DEF all
<1> QED
  BY <1>4, <1>5

(* What an accumulator has made of the events of some places. *)

\* feed() raises on it; it begins the answer; it says which model answers.
Raises(event) == \E a \in DOMAIN event.usage : event.usage[a] = Infinite

Begins(event) == event.type = "message_start"

Named(event) == Begins(event) /\ event.model # NoModel

\* The events of S have all been counted.
HasCounted(acc, evs, S) ==
  /\ \A j \in S : ~Raises(evs[j])
  /\ \A a \in Axes : \A j \in S :
       a \in DOMAIN evs[j].usage => evs[j].usage[a] <= acc.usage[a]
  /\ acc.started <=> \E j \in S : Begins(evs[j])

\* They are all that has been counted.
Exactly(acc, evs, S) ==
  /\ HasCounted(acc, evs, S)
  /\ \A a \in Axes :
       acc.usage[a] = 0
         \/ \E j \in S : a \in DOMAIN evs[j].usage /\ acc.usage[a] = evs[j].usage[a]
  /\ \/ acc.model = NoModel /\ \A j \in S : ~Named(evs[j])
     \/ \E j \in S : /\ Named(evs[j]) /\ acc.model = evs[j].model
                     /\ \A i \in S : Named(evs[i]) => i <= j

\* The places of the events up to p.
Till(evs, p) == {j \in DOMAIN evs : j <= p}

\* acc has read the events up to place p, or one of them has raised.
Follows(acc, evs, p) ==
  IF acc.failed
    THEN \E f \in DOMAIN evs :
           f <= p /\ Raises(evs[f]) /\ HasCounted(acc, evs, Till(evs, f - 1))
    ELSE Exactly(acc, evs, Till(evs, p))

\* Some line decodes to it.
IsEvent(event) == \E line \in DOMAIN Event : event = Event[line]

LEMMA EventParts ==
  ASSUME NEW event, IsEvent(event)
  PROVE  /\ event.model \in Seq(STRING) /\ DOMAIN event.usage \subseteq Axes
         /\ \A a \in DOMAIN event.usage : event.usage[a] \in Nat \cup {Infinite}
         /\ Reached(event.usage) # Axes <=> Raises(event)
         /\ \A a \in Axes : a \in Reached(event.usage) \cap DOMAIN event.usage =>
                              event.usage[a] \in Nat
         /\ ~Raises(event) => \A a \in DOMAIN event.usage :
                                a \in Reached(event.usage) /\ event.usage[a] \in Nat
<1>1. PICK line \in DOMAIN Event : event = Event[line]
  BY DEF IsEvent
<1>2. /\ event.model \in Seq(STRING) /\ DOMAIN event.usage \subseteq Axes
      /\ \A a \in DOMAIN event.usage : event.usage[a] \in Nat \cup {Infinite}
  BY <1>1, SSEUsageAssumption
<1> DEFINE u == event.usage
<1>3. \A a \in Reached(u) \cap DOMAIN u : u[a] # Infinite
  BY ReachedFinite
<1>4. Reached(u) \subseteq Axes
  BY DEF Reached, Axes, ToSet
<1>5. ASSUME ~Raises(event) PROVE Reached(u) = Axes
  <2>1. \A a \in DOMAIN u : u[a] # Infinite
    BY <1>5 DEF Raises
  <2> QED
    BY <2>1 DEF Reached, Axes, ToSet
<1>6. ASSUME Raises(event) PROVE Reached(u) # Axes
  <2>1. PICK a \in DOMAIN u : u[a] = Infinite
    BY <1>6 DEF Raises
  <2>2. a \notin Reached(u)
    BY <1>3, <2>1
  <2> QED
    BY <1>2, <2>1, <2>2
<1>7. ~Raises(event) => \A a \in DOMAIN event.usage :
        a \in Reached(event.usage) /\ event.usage[a] \in Nat
  BY <1>2, <1>5 DEF Raises
<1> QED
  BY <1>2, <1>3, <1>5, <1>6, <1>7

\* What one event adds.
LEMMA ConsumeParts ==
  ASSUME NEW acc \in Accumulators, NEW event, IsEvent(event)
  PROVE  LET new == Consume(acc, event)
         IN /\ new.failed = Raises(event)
            /\ new.started = (acc.started \/ (Begins(event) /\ ~Raises(event)))
            /\ new.model = (IF Named(event) THEN event.model ELSE acc.model)
            /\ \A a \in Axes :
                 /\ new.usage[a] \in Nat /\ acc.usage[a] \in Nat /\ acc.usage[a] <= new.usage[a]
                 /\ \/ new.usage[a] = acc.usage[a]
                    \/ a \in DOMAIN event.usage /\ new.usage[a] = event.usage[a]
                 /\ ~Raises(event) /\ a \in DOMAIN event.usage =>
                      event.usage[a] <= new.usage[a]
<1> DEFINE u == event.usage
           new == Consume(acc, event)
<1>1. /\ new.failed = (Reached(u) # Axes)
      /\ new.usage = Merge(acc.usage, u)
      /\ new.started = (acc.started \/ (event.type = "message_start" /\ ~(Reached(u) # Axes)))
      /\ new.model = IF event.type = "message_start" /\ event.model # NoModel
                       THEN event.model ELSE acc.model
  BY DEF Consume, Accumulators
<1>2. /\ new.failed = Raises(event)
      /\ new.started = (acc.started \/ (Begins(event) /\ ~Raises(event)))
      /\ new.model = (IF Named(event) THEN event.model ELSE acc.model)
  <2>1. (Reached(u) # Axes) <=> Raises(event)
    BY EventParts
  <2>2. (Reached(u) # Axes) = Raises(event)
    BY <2>1, Zenon DEF Raises
  <2> QED
    BY <1>1, <2>2, Zenon DEF Begins, Named
<1>3. ASSUME NEW a \in Axes
      PROVE  /\ new.usage[a] \in Nat /\ acc.usage[a] \in Nat /\ acc.usage[a] <= new.usage[a]
             /\ \/ new.usage[a] = acc.usage[a]
                \/ a \in DOMAIN event.usage /\ new.usage[a] = event.usage[a]
             /\ ~Raises(event) /\ a \in DOMAIN event.usage =>
                  event.usage[a] <= new.usage[a]
  <2>1. new.usage[a] = IF a \in Reached(u) \cap DOMAIN u /\ u[a] > acc.usage[a]
                         THEN u[a] ELSE acc.usage[a]
    BY <1>1 DEF Merge
  <2>2. acc.usage[a] \in Nat
    BY DEF Accumulators, UsageType
  <2>3. a \in Reached(u) \cap DOMAIN u => u[a] \in Nat
    BY EventParts
  <2>4. ~Raises(event) /\ a \in DOMAIN u => a \in Reached(u) /\ u[a] \in Nat
    BY EventParts
  <2> HIDE DEF new
  <2> QED
    BY <2>1, <2>2, <2>3, <2>4
<1> QED
  BY <1>2, <1>3

\* One more line: the event that ends at q, if it carries one.
LEMMA LineFollows ==
  ASSUME NEW acc \in Accumulators, NEW raw, NEW evs, NEW p \in Nat, NEW q \in Nat, p < q,
         DOMAIN evs \subseteq Nat, \A j \in DOMAIN evs : IsEvent(evs[j]),
         \A j \in DOMAIN evs : p < j => q <= j,
         q \in DOMAIN evs <=> WithoutCR(raw) \in DOMAIN Event,
         q \in DOMAIN evs => evs[q] = Event[WithoutCR(raw)],
         Follows(acc, evs, p)
  PROVE  Follows(TakeLine(acc, raw), evs, q)
<1> DEFINE S == Till(evs, p)  T == Till(evs, q)
           new == TakeLine(acc, raw)
<1>1. CASE acc.failed
  <2>1. new = acc
    BY <1>1 DEF TakeLine
  <2>2. \E f \in DOMAIN evs : f <= p /\ Raises(evs[f]) /\ HasCounted(acc, evs, Till(evs, f - 1))
    BY <1>1 DEF Follows
  <2>3. \A f \in DOMAIN evs : f <= p => f <= q
    OBVIOUS
  <2> HIDE DEF new
  <2> QED
    BY <1>1, <2>1, <2>2, <2>3 DEF Follows, new
<1>2. CASE ~acc.failed /\ q \notin DOMAIN evs
  <2>1. new = acc
    BY <1>2 DEF TakeLine
  <2>2. T = S
    BY <1>2 DEF Till
  <2> HIDE DEF new, S, T
  <2> QED
    BY <1>2, <2>1, <2>2 DEF Follows, new, S, T
<1>3. CASE ~acc.failed /\ q \in DOMAIN evs
  <2> DEFINE event == evs[q]
  <2>1. new = Consume(acc, event) /\ IsEvent(event)
    BY <1>3 DEF TakeLine
  <2>2. T = S \cup {q} /\ S = Till(evs, q - 1) /\ \A j \in S : j < q /\ j \in Nat
    BY <1>3 DEF Till
  <2>3. Exactly(acc, evs, S)
    BY <1>3 DEF Follows
  <2>4. /\ new.failed = Raises(event)
        /\ new.started = (acc.started \/ (Begins(event) /\ ~Raises(event)))
        /\ new.model = (IF Named(event) THEN event.model ELSE acc.model)
        /\ \A a \in Axes :
             /\ new.usage[a] \in Nat /\ acc.usage[a] \in Nat /\ acc.usage[a] <= new.usage[a]
             /\ \/ new.usage[a] = acc.usage[a]
                \/ a \in DOMAIN event.usage /\ new.usage[a] = event.usage[a]
             /\ ~Raises(event) /\ a \in DOMAIN event.usage =>
                  event.usage[a] <= new.usage[a]
    <3> HIDE DEF event
    <3> QED
      BY <2>1, ConsumeParts
  <2> HIDE DEF new, S, T
  <2>5. \A j \in S : ~Raises(evs[j])
    BY <2>3 DEF Exactly, HasCounted
  <2>6. ASSUME NEW a \in Axes, NEW j \in S, a \in DOMAIN evs[j].usage
        PROVE  evs[j].usage[a] <= new.usage[a]
    <3>1. evs[j].usage[a] <= acc.usage[a]
      BY <2>3, <2>6 DEF Exactly, HasCounted
    <3>2. evs[j].usage[a] \in Nat
      <4>1. j \in DOMAIN evs /\ IsEvent(evs[j]) /\ ~Raises(evs[j])
        BY <2>5 DEF S, Till
      <4> QED
        BY <2>6, <4>1, EventParts
    <3> QED
      BY <2>4, <3>1, <3>2
  <2>7. acc.started <=> \E j \in S : Begins(evs[j])
    BY <2>3 DEF Exactly, HasCounted
  <2>8. CASE Raises(event)
    <3>1. HasCounted(new, evs, S)
      BY <2>4, <2>5, <2>6, <2>7, <2>8 DEF HasCounted
    <3> QED
      BY <1>3, <2>2, <2>4, <2>8, <3>1 DEF Follows, new
  <2>9. CASE ~Raises(event)
    <3>1. HasCounted(new, evs, T)
      <4>1. \A j \in T : ~Raises(evs[j])
        BY <2>2, <2>5, <2>9
      <4>2. \A a \in Axes : \A j \in T :
              a \in DOMAIN evs[j].usage => evs[j].usage[a] <= new.usage[a]
        BY <2>2, <2>4, <2>6, <2>9
      <4>3. new.started <=> \E j \in T : Begins(evs[j])
        BY <2>2, <2>4, <2>7, <2>9
      <4> QED
        BY <4>1, <4>2, <4>3 DEF HasCounted
    <3>2. ASSUME NEW a \in Axes
          PROVE  new.usage[a] = 0
                   \/ \E j \in T : a \in DOMAIN evs[j].usage /\ new.usage[a] = evs[j].usage[a]
      <4>1. acc.usage[a] = 0
              \/ \E j \in S : a \in DOMAIN evs[j].usage /\ acc.usage[a] = evs[j].usage[a]
        BY <2>3 DEF Exactly
      <4> QED
        BY <2>2, <2>4, <4>1
    <3>3. \/ new.model = NoModel /\ \A j \in T : ~Named(evs[j])
          \/ \E j \in T : /\ Named(evs[j]) /\ new.model = evs[j].model
                          /\ \A i \in T : Named(evs[i]) => i <= j
      <4>1. CASE Named(event)
        <5>1. q \in T /\ new.model = evs[q].model /\ \A i \in T : i <= q
          BY <2>2, <2>4, <4>1
        <5> QED
          BY <4>1, <5>1
      <4>2. CASE ~Named(event)
        <5>1. /\ new.model = acc.model
              /\ \A i \in T : Named(evs[i]) => i \in S
          BY <2>2, <2>4, <4>2
        <5>2. \/ acc.model = NoModel /\ \A j \in S : ~Named(evs[j])
              \/ \E j \in S : /\ Named(evs[j]) /\ acc.model = evs[j].model
                              /\ \A i \in S : Named(evs[i]) => i <= j
          BY <2>3 DEF Exactly
        <5> QED
          BY <2>2, <5>1, <5>2
      <4> QED
        BY <4>1, <4>2
    <3>4. Exactly(new, evs, T)
      BY <3>1, <3>2, <3>3 DEF Exactly
    <3> QED
      BY <2>4, <2>9, <3>4 DEF Follows, new, T
  <2> QED
    BY <2>8, <2>9
<1> QED
  BY <1>1, <1>2, <1>3

\* Where the last line of bytes that is not finished starts, less one.
LEMMA LastLine ==
  ASSUME NEW bytes \in Seq(Bytes)
  PROVE  LET c == Break(bytes, Cardinality(Breaks(bytes)))
         IN /\ c \in 0..Len(bytes) /\ (c # 0 => bytes[c] = NL)
            /\ \A i \in Breaks(bytes) : i <= c
            /\ Rest(bytes) = SubSeq(bytes, c + 1, Len(bytes))
<1> DEFINE n == Cardinality(Breaks(bytes))
           c == Break(bytes, n)
<1>0. /\ n \in Nat /\ Breaks(bytes) \in SUBSET (1..Len(bytes)) /\ Len(bytes) \in Nat
      /\ IsFiniteSet(Breaks(bytes))
  BY BreaksFinite, LenProperties
<1>1. c \in 0..Len(bytes) /\ Cardinality(Upto(bytes, c)) = n
      /\ (n # 0 => c \in Breaks(bytes))
  BY <1>0, BreakParts
<1>2. n = 0 => c = 0
  BY DEF Break
<1> HIDE DEF c
<1>3. c # 0 => bytes[c] = NL
  BY <1>1, <1>2 DEF Breaks
<1>4. Upto(bytes, c) = Breaks(bytes)
  <2>1. Upto(bytes, c) \in SUBSET Breaks(bytes)
    BY DEF Upto
  <2> QED
    BY <1>0, <1>1, <2>1, FS_Subset
<1>5. \A i \in Breaks(bytes) : i <= c
  BY <1>4 DEF Upto
<1> QED
  BY <1>1, <1>3, <1>5, RestIs DEF c

\* A set of events that agree is counted alike.
LEMMA ExactlySame ==
  ASSUME NEW acc, NEW e, NEW f, NEW S, Exactly(acc, e, S), \A j \in S : e[j] = f[j]
  PROVE  Exactly(acc, f, S)
BY Zenon DEF Exactly, HasCounted

\* feed() buffers the line that is not finished and reads those that are.
LEMMA FeedFollows ==
  ASSUME NEW acc \in Accumulators, ~acc.failed,
         NEW old \in Seq(Bytes), NEW chunk \in Seq(Bytes),
         acc.buf = Rest(old), Follows(acc, EventsIn(old), Len(old))
  PROVE  /\ Feed(acc, chunk) \in Accumulators
         /\ Feed(acc, chunk).buf = Rest(old \o chunk)
         /\ Follows(Feed(acc, chunk), EventsIn(old \o chunk), Len(old \o chunk))
<1> DEFINE all == old \o chunk
           o == Break(old, Cardinality(Breaks(old)))
           whole == acc.buf \o chunk
           n == Cardinality(Breaks(whole))
           lines == RawLines(whole)
           start == [acc EXCEPT !.buf = Rest(whole)]
           evs == EventsIn(all)
<1>0. Len(old) \in Nat /\ Len(chunk) \in Nat
  BY LenProperties
<1>1. /\ o \in 0..Len(old) /\ (o # 0 => old[o] = NL)
      /\ \A i \in Breaks(old) : i <= o
      /\ Rest(old) = SubSeq(old, o + 1, Len(old))
  BY LastLine
<1> HIDE DEF o
<1>2. /\ all \in Seq(Bytes) /\ Len(all) = Len(old) + Len(chunk)
      /\ \A k \in 1..Len(old) : all[k] = old[k]
      /\ \A k \in 1..Len(chunk) : all[Len(old) + k] = chunk[k]
  BY <1>0, ConcatProperties
<1>3. /\ acc.buf \in Seq(Bytes) /\ Len(acc.buf) = Len(old) - o
      /\ \A k \in 1..(Len(old) - o) : acc.buf[k] = old[o + k]
  <2>1. /\ o + 1 \in Int /\ Len(old) \in Int
        /\ \A i \in (o + 1)..Len(old) : old[i] \in Bytes
    BY <1>0, <1>1, ElementOfSeq
  <2>2. /\ Len(Rest(old)) = IF o + 1 <= Len(old) THEN Len(old) - (o + 1) + 1 ELSE 0
        /\ \A i \in 1..(Len(old) - (o + 1) + 1) : Rest(old)[i] = old[(o + 1) + i - 1]
        /\ Rest(old) \in Seq(Bytes)
    BY <1>1, <2>1, SubSeqProperties
  <2> QED
    BY <1>0, <1>1, <2>2
<1>4. /\ whole \in Seq(Bytes) /\ Len(whole) = Len(all) - o /\ Len(whole) \in Nat
      /\ \A k \in 1..Len(whole) : whole[k] = all[o + k]
  <2>1. /\ whole \in Seq(Bytes) /\ Len(whole) = Len(acc.buf) + Len(chunk)
        /\ \A k \in 1..Len(acc.buf) : whole[k] = acc.buf[k]
        /\ \A k \in 1..Len(chunk) : whole[Len(acc.buf) + k] = chunk[k]
    <3> DEFINE held == acc.buf
    <3>1. held \in Seq(Bytes)
      BY <1>3
    <3> HIDE DEF held
    <3>2. /\ held \o chunk \in Seq(Bytes)
          /\ Len(held \o chunk) = Len(held) + Len(chunk)
          /\ \A k \in 1..Len(held) : (held \o chunk)[k] = held[k]
          /\ \A k \in 1..Len(chunk) : (held \o chunk)[Len(held) + k] = chunk[k]
      BY <3>1, ConcatProperties
    <3> QED
      BY <3>2 DEF held
  <2> HIDE DEF whole, all
  <2>2. Len(whole) = Len(all) - o /\ Len(whole) \in Nat
    BY <1>0, <1>1, <1>2, <1>3, <2>1
  <2>3. ASSUME NEW k \in 1..Len(whole) PROVE whole[k] = all[o + k]
    <3>1. CASE k <= Len(old) - o
      <4>1. k \in 1..Len(acc.buf) /\ k \in 1..(Len(old) - o) /\ o + k \in 1..Len(old)
        BY <1>0, <1>1, <1>3, <3>1
      <4> QED
        BY <1>2, <1>3, <2>1, <4>1
    <3>2. CASE ~(k <= Len(old) - o)
      <4> DEFINE i == k - (Len(old) - o)
      <4>1. /\ k \in Nat /\ Len(old) - o \in Nat /\ o \in Nat
            /\ k <= Len(old) - o + Len(chunk)
        BY <1>0, <1>1, <1>2, <2>2
      <4>2. i \in 1..Len(chunk) /\ k = Len(old) - o + i /\ o + k = Len(old) + i
        BY <1>0, <3>2, <4>1
      <4>3. k = Len(acc.buf) + i
        BY <1>3, <4>2
      <4> HIDE DEF i
      <4>4. whole[k] = chunk[i]
        BY <2>1, <4>2, <4>3
      <4>5. all[o + k] = chunk[i]
        BY <1>2, <4>2
      <4> QED
        BY <4>4, <4>5
    <3> QED
      BY <3>1, <3>2
  <2> QED
    BY <2>1, <2>2, <2>3
<1>5. n \in Nat /\ DOMAIN lines = 1..n
  BY <1>4, BreaksFinite DEF RawLines
<1>6. Feed(acc, chunk) = TakeLines(start, lines)
  BY DEF Feed
<1> HIDE DEF whole, all, n
<1>7. \A i \in 1..Len(whole) : i \in Breaks(whole) <=> o + i \in Breaks(all)
  <2>1. DOMAIN whole = 1..Len(whole) /\ DOMAIN all = 1..Len(all)
    BY <1>2, <1>4, LenProperties
  <2>2. ASSUME NEW i \in 1..Len(whole)
        PROVE  o + i \in 1..Len(all) /\ whole[i] = all[o + i]
    <3>1. o \in Nat /\ Len(all) \in Nat /\ Len(whole) = Len(all) - o
      BY <1>0, <1>1, <1>2, <1>4
    <3> QED
      BY <1>4, <3>1
  <2> QED
    BY <2>1, <2>2 DEF Breaks
<1>8. Rest(all) = Rest(whole)
  <2> DEFINE c == Break(whole, Cardinality(Breaks(whole)))
  <2>1. /\ c \in 0..Len(whole) /\ (c # 0 => whole[c] = NL)
        /\ \A i \in Breaks(whole) : i <= c
        /\ Rest(whole) = SubSeq(whole, c + 1, Len(whole))
    BY <1>4, LastLine
  <2> HIDE DEF c
  <2>2. o + c \in 0..Len(all) /\ (o + c # 0 => all[o + c] = NL)
    <3>1. CASE c = 0
      BY <1>0, <1>1, <1>2, <1>4, <3>1
    <3>2. CASE c # 0
      BY <1>0, <1>1, <1>2, <1>4, <2>1, <3>2
    <3> QED
      BY <3>1, <3>2
  <2>3. ASSUME NEW j \in Breaks(all) PROVE j <= o + c
    <3>1. j \in 1..Len(all)
      BY <1>2, BreaksFinite
    <3>2. CASE j <= o
      BY <1>0, <1>1, <2>1, <3>1, <3>2
    <3>3. CASE ~(j <= o)
      <4>1. j - o \in 1..Len(whole) /\ o + (j - o) = j
        BY <1>0, <1>1, <1>2, <1>4, <3>1, <3>3
      <4>2. j - o \in Breaks(whole)
        BY <1>7, <4>1
      <4> QED
        BY <1>0, <1>1, <2>1, <3>1, <4>1, <4>2
    <3> QED
      BY <3>2, <3>3
  <2>4. Rest(all) = SubSeq(all, o + c + 1, Len(all))
    BY <1>2, <2>2, <2>3, RestIs
  <2>5. SubSeq(all, o + (c + 1), o + Len(whole)) = SubSeq(whole, c + 1, Len(whole))
    <3>1. /\ o \in Nat /\ c + 1 \in Nat /\ c + 1 >= 1 /\ Len(whole) \in Int
          /\ Len(whole) <= Len(whole) /\ o + Len(whole) <= Len(all)
      BY <1>0, <1>1, <1>2, <1>4, <2>1
    <3>2. \A k \in (c + 1)..Len(whole) : all[o + k] = whole[k]
      BY <1>4, <2>1
    <3> DEFINE m == c + 1  e == Len(whole)
    <3>3. m \in Nat /\ m >= 1 /\ e \in Int /\ e <= Len(whole) /\ o + e <= Len(all)
      BY <3>1
    <3>4. \A k \in m..e : all[o + k] = whole[k]
      BY <3>2
    <3> HIDE DEF m, e
    <3>5. SubSeq(all, o + m, o + e) = SubSeq(whole, m, e)
      BY <1>2, <1>4, <3>1, <3>3, <3>4, SameSlice
    <3> QED
      BY <3>5 DEF m, e
  <2>6. o + (c + 1) = o + c + 1 /\ o + Len(whole) = Len(all)
    BY <1>0, <1>1, <1>2, <1>4, <2>1
  <2> QED
    BY <2>1, <2>4, <2>5, <2>6
<1>9. start \in Accumulators /\ ~start.failed /\ start.buf = Rest(all)
  <2>1. Rest(whole) \in Seq(Bytes)
    BY <1>4, RestType
  <2> QED
    BY <1>8, <2>1 DEF Accumulators
<1>10. Follows(start, evs, o)
  <2>1. Exactly(acc, EventsIn(old), Till(EventsIn(old), Len(old)))
    BY DEF Follows
  <2>2. Till(EventsIn(old), Len(old)) = Till(evs, o)
    <3>1. ASSUME NEW j \in Till(EventsIn(old), Len(old)) PROVE j \in Till(evs, o)
      <4>1. j \in DOMAIN EventsIn(old)
        BY DEF Till
      <4>2. j \in 1..Len(old) /\ j <= o
        BY <1>1, <4>1, EventEnds
      <4> QED
        BY <4>1, <4>2, EventsExtend DEF Till, all
    <3>2. ASSUME NEW j \in Till(evs, o) PROVE j \in Till(EventsIn(old), Len(old))
      <4>1. j \in DOMAIN evs /\ j <= o
        BY DEF Till
      <4>2. j \in 1..Len(all)
        BY <1>2, <4>1, EventEnds
      <4>3. j \in 1..Len(old)
        BY <1>0, <1>1, <1>2, <4>1, <4>2
      <4> QED
        BY <4>1, <4>3, EventsExtend DEF Till, all
    <3> HIDE DEF evs
    <3> QED
      BY <3>1, <3>2
  <2>3. \A j \in Till(EventsIn(old), Len(old)) : EventsIn(old)[j] = evs[j]
    <3>1. \A j \in Till(EventsIn(old), Len(old)) :
            j \in DOMAIN EventsIn(old) /\ j \in 1..Len(old)
      BY EventEnds DEF Till
    <3> QED
      BY <3>1, EventsExtend DEF all
  <2>4. Exactly(acc, evs, Till(evs, o))
    BY <2>1, <2>2, <2>3, ExactlySame
  <2>5. /\ start.usage = acc.usage /\ start.started = acc.started
        /\ start.model = acc.model
    BY DEF Accumulators
  <2> HIDE DEF start, evs
  <2>6. Exactly(start, evs, Till(evs, o))
    BY <2>4, <2>5 DEF Exactly, HasCounted
  <2> QED
    BY <1>9, <2>6 DEF Follows
<1> HIDE DEF start
<1>11. PICK g : /\ g[0] = start
                /\ \A k \in 1..n : g[k] = TakeLine(g[k - 1], lines[k])
                /\ TakeLines(start, lines) = g[n]
  <2> HIDE DEF lines
  <2> QED
    BY <1>5, FoldTakes
<1> DEFINE Good(k) == /\ g[k] \in Accumulators /\ g[k].buf = start.buf
                      /\ Follows(g[k], evs, o + Break(whole, k))
<1>12. Good(0)
  <2>1. Break(whole, 0) = 0 /\ o + 0 = o
    BY <1>0, <1>1 DEF Break
  <2> QED
    BY <1>9, <1>10, <1>11, <2>1
<1>13. ASSUME NEW k \in 1..n, Good(k - 1) PROVE Good(k)
  <2> DEFINE a == Break(whole, k - 1)  b == Break(whole, k)  q == o + b
             raw == lines[k]
  <2>0. k \in Nat /\ k - 1 \in 0..n /\ k \in 0..n /\ k # 0
    BY <1>5
  <2>1. /\ a \in 0..Len(whole) /\ b \in 1..Len(whole) /\ b \in Breaks(whole) /\ a < b
        /\ (a # 0 => a \in Breaks(whole))
        /\ \A x \in Breaks(whole) : a < x => b <= x
    <3>1. /\ a \in 0..Len(whole) /\ (k - 1 # 0 => a \in Breaks(whole))
          /\ b \in Breaks(whole)
      BY <1>4, <2>0, BreakParts DEF n
    <3>2. k - 1 = 0 => a = 0
      BY DEF Break
    <3>3. a < b /\ \A x \in Breaks(whole) : a < x => b <= x
      BY <1>4, BreakNext DEF n
    <3>4. b \in 1..Len(whole)
      BY <1>4, <3>1, BreaksFinite
    <3> HIDE DEF a, b
    <3> QED
      BY <3>1, <3>2, <3>3, <3>4
  <2>2. raw = SubSeq(whole, a + 1, b - 1)
    BY DEF RawLines, n
  <2> HIDE DEF a, b, lines
  <2>3. /\ o + a \in Nat /\ q \in Nat /\ o + a < q /\ q \in 1..Len(all)
        /\ o + a + 1 \in 1..q
    BY <1>0, <1>1, <1>2, <1>4, <2>1
  <2>4. WholeLine(all, o + a + 1, q)
    <3>1. o + a + 1 = 1 \/ all[(o + a + 1) - 1] = NL
      <4>1. (o + a + 1) - 1 = o + a
        BY <2>3
      <4>2. CASE a # 0
        <5>1. o + a \in Breaks(all)
          BY <1>4, <1>7, <2>1, <4>2
        <5> QED
          BY <4>1, <5>1 DEF Breaks
      <4>3. CASE a = 0
        BY <1>0, <1>1, <1>2, <2>3, <4>1, <4>3
      <4> QED
        BY <4>2, <4>3
    <3>2. q \in Breaks(all)
      BY <1>7, <2>1
    <3>3. ASSUME NEW i \in (o + a + 1)..(q - 1) PROVE all[i] # NL
      <4>1. /\ i - o \in 1..Len(whole) /\ o + (i - o) = i
            /\ a < i - o /\ i - o < b
        BY <1>0, <1>1, <1>2, <1>4, <2>1, <2>3
      <4>2. i - o \notin Breaks(whole)
        BY <2>1, <4>1
      <4>3. whole[i - o] # NL
        <5>1. DOMAIN whole = 1..Len(whole)
          BY <1>4, LenProperties
        <5> QED
          BY <4>1, <4>2, <5>1 DEF Breaks
      <4> QED
        BY <1>4, <4>1, <4>3
    <3> QED
      BY <3>1, <3>2, <3>3 DEF WholeLine, Breaks
  <2>5. SubSeq(all, o + a + 1, q - 1) = raw
    <3> DEFINE m == a + 1  e == b - 1
    <3>1. /\ o \in Nat /\ m \in Nat /\ m >= 1 /\ e \in Int
          /\ e <= Len(whole) /\ o + e <= Len(all)
          /\ o + m = o + a + 1 /\ o + e = q - 1
      <4>1. /\ o \in Nat /\ a \in Nat /\ b \in Nat /\ b >= 1
            /\ b <= Len(whole) /\ o + Len(whole) = Len(all) /\ Len(whole) \in Nat
        BY <1>0, <1>1, <1>2, <1>4, <2>1
      <4> QED
        BY <4>1
    <3>2. \A i \in m..e : all[o + i] = whole[i]
      BY <1>4, <2>1
    <3>3. raw = SubSeq(whole, m, e)
      BY <2>2
    <3> HIDE DEF m, e, q
    <3>4. SubSeq(all, o + m, o + e) = SubSeq(whole, m, e)
      BY <1>2, <1>4, <3>1, <3>2, SameSlice
    <3> QED
      BY <3>1, <3>3, <3>4
  <2>6. LineOf(all, o + a + 1, q) = WithoutCR(raw)
    BY <2>5 DEF LineOf
  <2>7. /\ q \in DOMAIN evs <=> WithoutCR(raw) \in DOMAIN Event
        /\ q \in DOMAIN evs => evs[q] = Event[WithoutCR(raw)]
    <3> DEFINE i == o + a + 1
    <3>1. i \in 1..q /\ WholeLine(all, i, q) /\ LineOf(all, i, q) = WithoutCR(raw)
      BY <2>3, <2>4, <2>6
    <3> HIDE DEF i, q, raw
    <3>2. /\ q \in DOMAIN evs <=> LineOf(all, i, q) \in DOMAIN Event
          /\ q \in DOMAIN evs => evs[q] = Event[LineOf(all, i, q)]
      BY <1>2, <2>3, <3>1, EventAt
    <3> QED
      BY <3>1, <3>2
  <2>8. /\ DOMAIN evs \subseteq Nat
        /\ \A j \in DOMAIN evs : IsEvent(evs[j]) /\ j \in 1..Len(all) /\ j \in Breaks(all)
    BY <1>2, EventEnds DEF IsEvent
  <2>9. \A j \in DOMAIN evs : o + a < j => q <= j
    <3> SUFFICES ASSUME NEW j \in DOMAIN evs, o + a < j PROVE q <= j
      OBVIOUS
    <3>1. j \in 1..Len(all) /\ j \in Breaks(all)
      BY <2>8
    <3>2. j - o \in 1..Len(whole) /\ o + (j - o) = j /\ a < j - o
      <4>1. o \in Nat /\ a \in Nat /\ o + Len(whole) = Len(all) /\ Len(whole) \in Nat
        BY <1>0, <1>1, <1>2, <1>4, <2>1
      <4> QED
        BY <3>1, <4>1
    <3>3. j - o \in Breaks(whole)
      BY <1>7, <3>1, <3>2
    <3>4. b <= j - o
      BY <2>1, <3>2, <3>3
    <3> QED
      BY <1>0, <1>1, <2>1, <3>1, <3>4
  <2>10. g[k - 1] \in Accumulators /\ g[k - 1].buf = start.buf /\ Follows(g[k - 1], evs, o + a)
    BY <1>13 DEF a
  <2>11. g[k] = TakeLine(g[k - 1], raw)
    BY <1>11
  <2> HIDE DEF q, raw, evs
  <2>12. Follows(TakeLine(g[k - 1], raw), evs, q)
    BY <2>3, <2>7, <2>8, <2>9, <2>10, LineFollows
  <2>13. TakeLine(g[k - 1], raw) \in Accumulators /\ TakeLine(g[k - 1], raw).buf = g[k - 1].buf
    BY <2>10, TakeLineType
  <2> QED
    BY <2>10, <2>11, <2>12, <2>13 DEF q, b
<1>14. Good(n)
  <2> DEFINE T == {k \in 0..n : ~Good(k)}
  <2>1. ASSUME T # {} PROVE FALSE
    <3> HIDE DEF Good
    <3>1. T \in SUBSET Nat
      BY <1>5
    <3>2. PICK m \in T : \A j \in T : m <= j
      <4> HIDE DEF T
      <4> QED
        BY <2>1, <3>1, LeastNatural
    <3>3. m \in 1..n
      BY <1>5, <1>12
    <3>4. m - 1 \notin T
      <4> HIDE DEF T
      <4> QED
        BY <1>5, <3>2, <3>3
    <3>5. Good(m - 1)
      BY <1>5, <3>3, <3>4
    <3> QED
      BY <1>13, <3>2, <3>3, <3>5
  <2> HIDE DEF Good
  <2> QED
    BY <1>5, <2>1
<1>15. Till(evs, o + Break(whole, n)) = Till(evs, Len(all))
       /\ o + Break(whole, n) \in Nat /\ o + Break(whole, n) <= Len(all)
  <2> DEFINE c == Break(whole, n)
  <2>1. c \in 0..Len(whole) /\ \A i \in Breaks(whole) : i <= c
    BY <1>4, LastLine DEF n
  <2> HIDE DEF c
  <2>2. ASSUME NEW j \in DOMAIN evs PROVE j <= o + c /\ j <= Len(all)
    <3>1. j \in 1..Len(all) /\ j \in Breaks(all)
      BY <1>2, EventEnds
    <3>2. CASE j <= o
      BY <1>0, <1>1, <2>1, <3>1, <3>2
    <3>3. CASE ~(j <= o)
      <4>1. j - o \in 1..Len(whole) /\ o + (j - o) = j
        BY <1>0, <1>1, <1>2, <1>4, <3>1, <3>3
      <4>2. j - o \in Breaks(whole)
        BY <1>7, <3>1, <4>1
      <4> QED
        BY <1>0, <1>1, <2>1, <3>1, <4>1, <4>2
    <3> QED
      BY <3>2, <3>3
  <2> QED
    BY <1>0, <1>1, <1>2, <1>4, <2>1, <2>2 DEF Till, c
<1>16. Follows(g[n], evs, Len(all))
  <2>1. Follows(g[n], evs, o + Break(whole, n))
    BY <1>14
  <2>2. CASE g[n].failed
    <3>1. \E f \in DOMAIN evs : /\ f <= o + Break(whole, n) /\ Raises(evs[f])
                                /\ HasCounted(g[n], evs, Till(evs, f - 1))
      BY <2>1, <2>2 DEF Follows
    <3>2. \A f \in DOMAIN evs : f <= Len(all)
      BY <1>2, EventEnds
    <3> QED
      BY <2>2, <3>1, <3>2 DEF Follows
  <2>3. CASE ~g[n].failed
    BY <1>15, <2>1, <2>3 DEF Follows
  <2> QED
    BY <2>2, <2>3
<1> QED
  BY <1>6, <1>9, <1>11, <1>14, <1>16 DEF all

\* The largest of some numbers, 0 if there are none.
LEMMA LargestOf ==
  ASSUME NEW V \in SUBSET Nat, NEW bound \in Nat, \A v \in V : v <= bound
  PROVE  LET top == CHOOSE v \in V \cup {0} : \A w \in V : w <= v
         IN /\ top \in Nat /\ top <= bound
            /\ bound = 0 \/ bound \in V => top = bound
<1> DEFINE W == V \cup {0}
           T == {bound - v : v \in W}
           top == CHOOSE v \in W : \A w \in V : w <= v
<1>1. T \in SUBSET Nat /\ T # {}
  OBVIOUS
<1>2. PICK x \in T : \A y \in T : x <= y
  <2> HIDE DEF T
  <2> QED
    BY <1>1, LeastNatural
<1>3. PICK v \in W : x = bound - v
  OBVIOUS
<1>4. ASSUME NEW w \in V PROVE w <= v
  <2>1. bound - w \in T
    OBVIOUS
  <2>2. bound - v <= bound - w
    BY <1>2, <1>3, <2>1
  <2> QED
    BY <1>3, <2>2
<1>5. top \in W /\ \A w \in V : w <= top
  BY <1>3, <1>4
<1> HIDE DEF top, T
<1>6. top \in Nat /\ top <= bound
  BY <1>5
<1>7. ASSUME bound = 0 \/ bound \in V PROVE top = bound
  BY <1>5, <1>6, <1>7
<1> QED
  BY <1>6, <1>7 DEF top

\* The reference of events that have been counted, and of those that are all.
LEMMA Referenced ==
  ASSUME NEW acc \in Accumulators, NEW evs, \A j \in DOMAIN evs : IsEvent(evs[j]),
         HasCounted(acc, evs, DOMAIN evs)
  PROVE  /\ \A a \in Axes : /\ ReferenceUsage(evs)[a] \in Nat
                            /\ ReferenceUsage(evs)[a] <= acc.usage[a]
         /\ Exactly(acc, evs, DOMAIN evs) => ReferenceUsage(evs) = acc.usage
<1> DEFINE ref == ReferenceUsage(evs)
           Given(a) == {evs[j].usage[a] : j \in {j \in DOMAIN evs : a \in DOMAIN evs[j].usage}}
<1>1. ASSUME NEW a \in Axes
      PROVE  /\ ref[a] \in Nat /\ ref[a] <= acc.usage[a]
             /\ Exactly(acc, evs, DOMAIN evs) => ref[a] = acc.usage[a]
  <2> DEFINE V == Given(a)
  <2>1. ref[a] = CHOOSE v \in V \cup {0} : \A w \in V : w <= v
    BY DEF ReferenceUsage
  <2>2. acc.usage[a] \in Nat
    BY DEF Accumulators, UsageType
  <2>3. V \in SUBSET Nat /\ \A v \in V : v <= acc.usage[a]
    <3> SUFFICES ASSUME NEW v \in V PROVE v \in Nat /\ v <= acc.usage[a]
      OBVIOUS
    <3>1. PICK j \in DOMAIN evs : a \in DOMAIN evs[j].usage /\ v = evs[j].usage[a]
      OBVIOUS
    <3>2. ~Raises(evs[j]) /\ IsEvent(evs[j])
      BY DEF HasCounted
    <3>3. evs[j].usage[a] \in Nat
      BY <3>1, <3>2, EventParts
    <3> QED
      BY <3>1, <3>3 DEF HasCounted
  <2>4. ASSUME Exactly(acc, evs, DOMAIN evs) PROVE acc.usage[a] = 0 \/ acc.usage[a] \in V
    BY <2>4 DEF Exactly
  <2> HIDE DEF V, ref
  <2> DEFINE bound == acc.usage[a]
             top == CHOOSE v \in V \cup {0} : \A w \in V : w <= v
  <2>5. /\ top \in Nat /\ top <= bound
        /\ bound = 0 \/ bound \in V => top = bound
    <3> HIDE DEF bound
    <3>1. bound \in Nat /\ V \in SUBSET Nat /\ \A v \in V : v <= bound
      BY <2>2, <2>3 DEF bound
    <3> QED
      BY <3>1, LargestOf
  <2> HIDE DEF top
  <2>6. ref[a] = top
    BY <2>1 DEF top
  <2> QED
    BY <2>4, <2>5, <2>6
<1>2. ASSUME Exactly(acc, evs, DOMAIN evs) PROVE ref = acc.usage
  <2>1. ref = [a \in Axes |-> ref[a]]
    BY DEF ReferenceUsage
  <2>2. acc.usage = [a \in Axes |-> acc.usage[a]]
    BY DEF Accumulators, UsageType
  <2> HIDE DEF ref
  <2>3. \A a \in Axes : ref[a] = acc.usage[a]
    BY <1>1, <1>2
  <2> QED
    BY <2>1, <2>2, <2>3
<1> QED
  BY <1>1, <1>2

\* acc has read the bytes that have passed.
HasRead(acc, passed) ==
  /\ ~acc.failed
  /\ acc.buf = Rest(passed)
  /\ Follows(acc, EventsIn(passed), Len(passed))

LEMMA NothingRead == HasRead(NewAccumulator, <<>>)
<1> DEFINE none == <<>>
<1>1. none \in Seq(Bytes) /\ Len(none) = 0 /\ SubSeq(none, 1, 0) = none
  OBVIOUS
<1> HIDE DEF none
<1>2. DOMAIN EventsIn(none) = {}
  <2> SUFFICES ASSUME NEW j \in DOMAIN EventsIn(none) PROVE FALSE
    OBVIOUS
  <2>1. j \in 1..Len(none)
    BY <1>1, EventEnds
  <2> QED
    BY <1>1, <2>1
<1>3. Rest(none) = none
  <2> DEFINE c == 0
  <2>1. c \in 0..Len(none) /\ c = 0 /\ \A i \in Breaks(none) : i <= c
    <3>1. Breaks(none) \in SUBSET (1..0)
      BY <1>1, BreaksFinite
    <3> QED
      BY <1>1, <3>1
  <2> HIDE DEF c
  <2>2. Rest(none) = SubSeq(none, c + 1, Len(none))
    BY <1>1, <2>1, RestIs
  <2> QED
    BY <1>1, <2>1, <2>2
<1>4. /\ ~NewAccumulator.failed /\ NewAccumulator.buf = <<>> /\ ~NewAccumulator.started
      /\ NewAccumulator.model = NoModel /\ \A a \in Axes : NewAccumulator.usage[a] = 0
  BY DEF NewAccumulator, NoUsage
<1>5. Till(EventsIn(none), Len(none)) = {}
  BY <1>2 DEF Till
<1>6. HasRead(NewAccumulator, none)
  BY <1>3, <1>4, <1>5 DEF HasRead, Follows, Exactly, HasCounted, none
<1> QED
  BY <1>6 DEF none

\* All events of what has passed end within it.
LEMMA AllCounted ==
  ASSUME NEW passed \in Seq(Bytes)
  PROVE  /\ Till(EventsIn(passed), Len(passed)) = DOMAIN EventsIn(passed)
         /\ \A j \in DOMAIN EventsIn(passed) : j \in Nat /\ IsEvent(EventsIn(passed)[j])
<1>1. \A j \in DOMAIN EventsIn(passed) : j \in 1..Len(passed) /\ IsEvent(EventsIn(passed)[j])
  BY EventEnds DEF IsEvent
<1> DEFINE D == DOMAIN EventsIn(passed)
<1>2. \A j \in D : j \in Nat /\ j <= Len(passed)
  BY <1>1, LenProperties
<1>3. Till(EventsIn(passed), Len(passed)) = {j \in D : j <= Len(passed)}
  BY DEF Till
<1> HIDE DEF D
<1>4. {j \in D : j <= Len(passed)} = D
  BY <1>2
<1> QED
  BY <1>1, <1>2, <1>3, <1>4 DEF D

\* What ChunksDoNotMatter says of a stream.
LEMMA ReadAsWhole ==
  ASSUME NEW acc \in Accumulators, NEW passed \in Seq(Bytes), HasRead(acc, passed)
  PROVE  LET events == EventsIn(passed)
             starts == {j \in DOMAIN events : events[j].type = "message_start"}
             named  == {j \in starts : events[j].model # NoModel}
         IN /\ acc.usage = ReferenceUsage(events)
            /\ acc.started = (starts # {})
            /\ acc.model =
                 IF named = {} THEN NoModel
                 ELSE events[CHOOSE j \in named : \A i \in named : i <= j].model
<1> DEFINE events == EventsIn(passed)
           starts == {j \in DOMAIN events : events[j].type = "message_start"}
           named  == {j \in starts : events[j].model # NoModel}
           D == DOMAIN events
<1>1. Exactly(acc, events, D) /\ \A j \in D : j \in Nat /\ IsEvent(events[j])
  BY AllCounted DEF HasRead, Follows
<1> HIDE DEF events
<1>2. acc.usage = ReferenceUsage(events)
  BY <1>1, Referenced DEF Exactly
<1>3. acc.started = (starts # {})
  <2>1. acc.started <=> \E j \in D : Begins(events[j])
    BY <1>1 DEF Exactly, HasCounted
  <2>2. acc.started \in BOOLEAN
    BY DEF Accumulators
  <2> QED
    BY <2>1, <2>2 DEF Begins
<1>4. acc.model = IF named = {} THEN NoModel
                  ELSE events[CHOOSE j \in named : \A i \in named : i <= j].model
  <2>1. \A j \in D : Named(events[j]) <=> j \in named
    BY DEF Named, Begins
  <2>2. \/ acc.model = NoModel /\ \A j \in D : ~Named(events[j])
        \/ \E j \in D : /\ Named(events[j]) /\ acc.model = events[j].model
                        /\ \A i \in D : Named(events[i]) => i <= j
    BY <1>1 DEF Exactly
  <2>3. named \subseteq D
    OBVIOUS
  <2> HIDE DEF named, D
  <2>4. CASE acc.model = NoModel /\ \A j \in D : ~Named(events[j])
    BY <2>1, <2>3, <2>4
  <2>5. CASE \E j \in D : /\ Named(events[j]) /\ acc.model = events[j].model
                          /\ \A i \in D : Named(events[i]) => i <= j
    <3>1. PICK j \in named : acc.model = events[j].model /\ \A i \in named : i <= j
      BY <2>1, <2>3, <2>5
    <3>2. \A h \in named : (\A i \in named : i <= h) => h = j
      BY <1>1, <2>3, <3>1 DEF D
    <3>3. (CHOOSE h \in named : \A i \in named : i <= h) = j
      BY <3>1, <3>2
    <3> QED
      BY <3>1, <3>3
  <2> QED
    BY <2>2, <2>4, <2>5
<1> QED
  BY <1>2, <1>3, <1>4 DEF events

-----------------------------------------------------------------------------
(* Money and tokens. *)

Models == Seq(STRING)

\* One of the summed amounts grows by more, or is new.
LEMMA SumUpdate ==
  ASSUME NEW S, IsFiniteSet(S), NEW f, NEW g, NEW m, NEW more \in Nat,
         \A x \in S : f[x] \in Nat,
         \A x \in S \ {m} : g[x] = f[x],
         g[m] = (IF m \in S THEN f[m] ELSE 0) + more
  PROVE  SumOver(S \cup {m}, g) = SumOver(S, f) + more
<1> DEFINE R == S \ {m}
<1>1. IsFiniteSet(R) /\ m \notin R /\ S \cup {m} = R \cup {m}
  BY FS_RemoveElement
<1>2. \A x \in R : f[x] \in Nat /\ g[x] = f[x]
  OBVIOUS
<1>3. g[m] \in Nat
  OBVIOUS
<1>4. SumOver(R, g) = SumOver(R, f) /\ SumOver(R, f) \in Nat
  <2> HIDE DEF R
  <2> QED
    BY <1>1, <1>2, SumSame, SumType
<1>5. SumOver(R \cup {m}, g) = g[m] + SumOver(R, g)
  <2>1. \A x \in R \cup {m} : g[x] \in Nat
    BY <1>2, <1>3
  <2> HIDE DEF R
  <2> QED
    BY <1>1, <2>1, SumAdd
<1>6. CASE m \in S
  <2>1. SumOver(S, f) = f[m] + SumOver(R, f) /\ f[m] \in Nat
    BY <1>6, SumRemove
  <2> QED
    BY <1>1, <1>4, <1>5, <1>6, <2>1
<1>7. CASE m \notin S
  <2>1. R = S
    BY <1>7
  <2>2. g[m] = more
    BY <1>7
  <2> HIDE DEF R
  <2> QED
    BY <1>1, <1>4, <1>5, <2>1, <2>2
<1> QED
  BY <1>6, <1>7

LEMMA SumOneMore ==
  ASSUME NEW S, IsFiniteSet(S), NEW f, NEW g, NEW m,
         \A x \in S : f[x] \in Nat,
         \A x \in S \ {m} : g[x] = f[x],
         g[m] = (IF m \in S THEN f[m] ELSE 0) + 1
  PROVE  SumOver(S \cup {m}, g) = SumOver(S, f) + 1
<1>1. \A more \in Nat : g[m] = (IF m \in S THEN f[m] ELSE 0) + more =>
                         SumOver(S \cup {m}, g) = SumOver(S, f) + more
  BY SumUpdate, SMTT(30)
<1> QED
  BY <1>1

LEMMA BudgetSum ==
  ASSUME NEW usage \in UsageType
  PROVE  SumOver(BudgetAxes, usage) =
           usage["input_tokens"] + usage["output_tokens"] + usage["cache_write_tokens"]
<1> DEFINE A == "input_tokens"  B == "output_tokens"  C == "cache_write_tokens"
<1>1. BudgetAxes = ({A} \cup {B}) \cup {C}
  BY AxesAre DEF BudgetAxes
<1>2. usage[A] \in Nat /\ usage[B] \in Nat /\ usage[C] \in Nat
  BY AxesAre DEF UsageType
<1>3. SumOver({A}, usage) = usage[A]
  <2>1. SumOver({} \cup {A}, usage) = usage[A] + SumOver({}, usage)
    BY <1>2, SumAdd, FS_EmptySet
  <2>2. {} \cup {A} = {A}
    OBVIOUS
  <2> QED
    BY <1>2, <2>1, <2>2, SumEmpty
<1>4. SumOver({A} \cup {B}, usage) = usage[B] + usage[A]
  <2>1. IsFiniteSet({A}) /\ B \notin {A} /\ \A y \in {A} \cup {B} : usage[y] \in Nat
    BY <1>2, FS_Singleton
  <2> DEFINE S == {A}
  <2>2. SumOver(S, usage) = usage[A]
    BY <1>3
  <2> HIDE DEF S, A, B
  <2>3. SumOver(S \cup {B}, usage) = usage[B] + usage[A]
    <3>1. IsFiniteSet(S) /\ B \notin S /\ \A y \in S \cup {B} : usage[y] \in Nat
      BY <2>1 DEF S
    <3> QED
      BY <2>2, <3>1, SumAdd
  <2> QED
    BY <2>3 DEF S
<1>5. SumOver(({A} \cup {B}) \cup {C}, usage) = usage[C] + (usage[B] + usage[A])
  <2>1. IsFiniteSet({A} \cup {B})
    BY FS_Singleton, FS_AddElement
  <2> DEFINE S == {A} \cup {B}
  <2>2. IsFiniteSet(S) /\ C \notin S /\ \A y \in S \cup {C} : usage[y] \in Nat
    BY <1>2, <2>1
  <2>3. SumOver(S, usage) = usage[B] + usage[A]
    BY <1>4
  <2> HIDE DEF S, A, B, C
  <2>4. SumOver(S \cup {C}, usage) = usage[C] + SumOver(S, usage)
    BY <2>2, SumAdd
  <2>5. SumOver(S \cup {C}, usage) = usage[C] + (usage[B] + usage[A])
    BY <2>3, <2>4
  <2> QED
    BY <2>5 DEF S
<1> QED
  BY <1>1, <1>2, <1>5

LEMMA AxesFinite ==
  IsFiniteSet(Axes) /\ \A S \in SUBSET Axes : IsFiniteSet(S)
<1>1. IsFiniteSet(Axes)
  <2>1. IsFiniteSet({"input_tokens"} \cup {"output_tokens"})
    BY FS_Singleton, FS_AddElement
  <2>2. IsFiniteSet(({"input_tokens"} \cup {"output_tokens"}) \cup {"cache_write_tokens"})
    BY <2>1, FS_AddElement
  <2>3. IsFiniteSet((({"input_tokens"} \cup {"output_tokens"}) \cup {"cache_write_tokens"})
                      \cup {"cache_read_tokens"})
    BY <2>2, FS_AddElement
  <2>4. Axes = (({"input_tokens"} \cup {"output_tokens"}) \cup {"cache_write_tokens"})
                 \cup {"cache_read_tokens"}
    BY AxesAre
  <2> QED
    BY <2>3, <2>4
<1> QED
  BY <1>1, FS_Subset

\* What two usages cost together is what they cost apart.
LEMMA TotalUsdPlus ==
  ASSUME NEW p \in DOMAIN PriceTable, NEW u \in UsageType, NEW v \in UsageType
  PROVE  /\ TotalUsd(PriceTable[p], u) \in Nat
         /\ TotalUsd(PriceTable[p], v) \in Nat
         /\ TotalUsd(PriceTable[p], [a \in Axes |-> u[a] + v[a]]) =
              TotalUsd(PriceTable[p], u) + TotalUsd(PriceTable[p], v)
<1> DEFINE price == PriceTable[p]
           w == [a \in Axes |-> u[a] + v[a]]
           due(x) == [a \in DOMAIN price |-> x[a] * price[a]]
<1>1. DOMAIN price \in SUBSET Axes /\ \A a \in DOMAIN price : price[a] \in Nat
  BY CostBooksAssumption
<1> HIDE DEF price
<1>2. IsFiniteSet(DOMAIN price)
  BY <1>1, AxesFinite
<1>3. \A a \in DOMAIN price : /\ due(u)[a] \in Nat /\ due(v)[a] \in Nat
                              /\ due(w)[a] = due(u)[a] + due(v)[a]
  <2> SUFFICES ASSUME NEW a \in DOMAIN price
               PROVE  /\ due(u)[a] \in Nat /\ due(v)[a] \in Nat
                      /\ due(w)[a] = due(u)[a] + due(v)[a]
    OBVIOUS
  <2>1. a \in Axes /\ u[a] \in Nat /\ v[a] \in Nat /\ price[a] \in Nat
    BY <1>1 DEF UsageType
  <2>2. w[a] = u[a] + v[a]
    BY <2>1
  <2>3. (u[a] + v[a]) * price[a] = u[a] * price[a] + v[a] * price[a]
    BY <2>1
  <2>4. u[a] * price[a] \in Nat /\ v[a] * price[a] \in Nat
    BY <2>1
  <2> QED
    BY <2>2, <2>3, <2>4
<1>4. \A x : TotalUsd(price, x) = SumOver(DOMAIN price, due(x))
  BY DEF TotalUsd
<1> HIDE DEF due, w
<1>5. SumOver(DOMAIN price, due(w)) = SumOver(DOMAIN price, due(u)) + SumOver(DOMAIN price, due(v))
  BY <1>2, <1>3, SumPlus
<1>6. SumOver(DOMAIN price, due(u)) \in Nat /\ SumOver(DOMAIN price, due(v)) \in Nat
  BY <1>2, <1>3, SumType
<1> QED
  BY <1>4, <1>5, <1>6 DEF price, w

LEMMA EstimatePlus ==
  ASSUME NEW m, NEW u \in UsageType, NEW v \in UsageType
  PROVE  /\ Estimate(m, u) \in Nat /\ Estimate(m, v) \in Nat
         /\ Estimate(m, [a \in Axes |-> u[a] + v[a]]) = Estimate(m, u) + Estimate(m, v)
<1>1. CASE Matched(m)
  <2> DEFINE p == CHOOSE p \in LookupPrice(m) : TRUE
  <2>1. p \in DOMAIN PriceTable
    BY <1>1 DEF Matched, LookupPrice
  <2>2. \A x : Estimate(m, x) = TotalUsd(PriceTable[p], x)
    BY <1>1 DEF Estimate
  <2> HIDE DEF p
  <2> QED
    BY <2>1, <2>2, TotalUsdPlus
<1>2. CASE ~Matched(m)
  BY <1>2 DEF Estimate
<1> QED
  BY <1>1, <1>2

LEMMA EstimateNothing ==
  ASSUME NEW m
  PROVE  NoUsage \in UsageType /\ Estimate(m, NoUsage) = 0
<1>1. NoUsage \in UsageType
  BY DEF NoUsage, UsageType
<1>2. [a \in Axes |-> NoUsage[a] + NoUsage[a]] = NoUsage
  BY DEF NoUsage
<1>3. /\ Estimate(m, NoUsage) \in Nat
      /\ Estimate(m, [a \in Axes |-> NoUsage[a] + NoUsage[a]]) =
           Estimate(m, NoUsage) + Estimate(m, NoUsage)
  BY <1>1, EstimatePlus
<1> DEFINE e == Estimate(m, NoUsage)
<1>4. e \in Nat /\ e = e + e
  BY <1>2, <1>3
<1> HIDE DEF e
<1>5. e = 0
  BY <1>4
<1> QED
  BY <1>1, <1>5 DEF e

\* A model some row's prefix fits has a longest such row.
LEMMA LongestRow ==
  ASSUME NEW m \in Models
  PROVE  LET rows == {p \in DOMAIN PriceTable : IsPrefix(p, m)}
         IN  /\ LookupPrice(m) \in SUBSET rows
             /\ rows # {} => Matched(m)
             /\ \A b \in LookupPrice(m) : \A p \in rows : Len(p) <= Len(b)
<1> DEFINE rows == {p \in DOMAIN PriceTable : IsPrefix(p, m)}
           T == {Len(m) - Len(p) : p \in rows}
<1>1. \A p \in rows : Len(m) - Len(p) \in Nat /\ Len(p) \in Nat
  BY CostBooksAssumption DEF IsPrefix, Models
<1>2. ASSUME rows # {} PROVE \E b \in rows : \A p \in rows : Len(p) <= Len(b)
  <2>1. T \in SUBSET Nat /\ T # {}
    BY <1>1, <1>2
  <2>2. PICK t \in T : \A y \in T : t <= y
    <3> HIDE DEF T
    <3> QED
      BY <2>1, LeastNatural
  <2>3. PICK b \in rows : t = Len(m) - Len(b)
    OBVIOUS
  <2>4. \A p \in rows : Len(m) - Len(p) \in T
    OBVIOUS
  <2> HIDE DEF T, rows
  <2>5. \A p \in rows : Len(p) <= Len(b)
    BY <1>1, <2>2, <2>3, <2>4, Len(m) \in Nat DEF Models
  <2> QED
    BY <2>5
<1>3. LookupPrice(m) = {p \in rows : \A q \in rows : Len(q) <= Len(p)}
  BY DEF LookupPrice
<1> HIDE DEF rows
<1> QED
  BY <1>2, <1>3 DEF Matched, rows

-----------------------------------------------------------------------------
(* The cost tracker and the budget. *)

Row == [requests : Nat, tokens : UsageType, usd : Nat]

UsdOf(b) == [m \in DOMAIN b |-> b[m].usd]
RequestsOf(b) == [m \in DOMAIN b |-> b[m].requests]
SpentOf(b) ==
  [m \in DOMAIN b |-> b[m].tokens["input_tokens"] + b[m].tokens["output_tokens"]
                        + b[m].tokens["cache_write_tokens"]]
Unmatched(b) == {m \in DOMAIN b : ~Matched(m)}

RowsTyped(b) ==
  /\ IsFiniteSet(DOMAIN b) /\ DOMAIN b \subseteq Models
  /\ \A m \in DOMAIN b : b[m] \in Row

BooksTyped ==
  /\ RowsTyped(byModel)
  /\ totalUsd \in Nat /\ totalRequests \in Nat /\ unmatched \in Nat
  /\ chars \in Nat /\ tokens \in Nat
  /\ apart \in BOOLEAN

\* Each total is the sum of a column, and each row costs what its tokens cost.
Summed ==
  /\ totalUsd = SumOver(DOMAIN byModel, UsdOf(byModel))
  /\ totalRequests = SumOver(DOMAIN byModel, RequestsOf(byModel))
  /\ unmatched = SumOver(Unmatched(byModel), RequestsOf(byModel))
  /\ \A m \in DOMAIN byModel : byModel[m].usd = Estimate(m, byModel[m].tokens)

Agreed ==
  /\ tokens <= SumOver(DOMAIN byModel, SpentOf(byModel))
  /\ ~apart => tokens = SumOver(DOMAIN byModel, SpentOf(byModel))

BooksInv == BooksTyped /\ Summed /\ Agreed

\* What CostTracker.record() does to the rows.
RowAfter(b, m, usage) ==
  LET row == IF m \in DOMAIN b THEN b[m] ELSE NoRow
  IN [requests |-> row.requests + 1,
      tokens |-> [a \in Axes |-> row.tokens[a] + usage[a]],
      usd |-> row.usd + Estimate(m, usage)]

RowsAfter(b, m, usage) ==
  [n \in DOMAIN b \cup {m} |-> IF n = m THEN RowAfter(b, m, usage) ELSE b[n]]

LEMMA TrackRows ==
  ASSUME NEW m, NEW usage, Track(m, usage)
  PROVE  /\ byModel' = RowsAfter(byModel, m, usage)
         /\ totalUsd' = totalUsd + Estimate(m, usage)
         /\ totalRequests' = totalRequests + 1
         /\ unmatched' = unmatched + (IF Matched(m) THEN 0 ELSE 1)
BY DEF Track, RowsAfter, RowAfter

LEMMA RowAfterType ==
  ASSUME NEW b, RowsTyped(b), NEW m \in Models, NEW usage \in UsageType
  PROVE  LET row == IF m \in DOMAIN b THEN b[m] ELSE NoRow
             after == RowAfter(b, m, usage)
         IN  /\ row \in Row /\ after \in Row
             /\ after.requests = row.requests + 1
             /\ after.usd = row.usd + Estimate(m, usage)
             /\ after.tokens = [a \in Axes |-> row.tokens[a] + usage[a]]
             /\ Estimate(m, usage) \in Nat
<1> DEFINE row == IF m \in DOMAIN b THEN b[m] ELSE NoRow
<1>1. row \in Row
  BY EstimateNothing DEF NoRow, Row, RowsTyped
<1>2. Estimate(m, usage) \in Nat
  BY EstimatePlus
<1>3. [a \in Axes |-> row.tokens[a] + usage[a]] \in UsageType
  <2> HIDE DEF row
  <2>1. \A a \in Axes : row.tokens[a] + usage[a] \in Nat
    BY <1>1 DEF Row, UsageType
  <2> QED
    BY <2>1 DEF UsageType
<1>4. RowAfter(b, m, usage) = [requests |-> row.requests + 1,
                               tokens |-> [a \in Axes |-> row.tokens[a] + usage[a]],
                               usd |-> row.usd + Estimate(m, usage)]
  BY DEF RowAfter
<1> HIDE DEF row
<1>5. /\ RowAfter(b, m, usage) \in Row
      /\ RowAfter(b, m, usage).requests = row.requests + 1
      /\ RowAfter(b, m, usage).usd = row.usd + Estimate(m, usage)
      /\ RowAfter(b, m, usage).tokens = [a \in Axes |-> row.tokens[a] + usage[a]]
  BY <1>1, <1>2, <1>3, <1>4 DEF Row
<1> QED
  BY <1>1, <1>2, <1>5 DEF row

LEMMA RowsAfterTyped ==
  ASSUME NEW b, RowsTyped(b), NEW m \in Models, NEW usage \in UsageType
  PROVE  LET c == RowsAfter(b, m, usage)
         IN  /\ RowsTyped(c) /\ DOMAIN c = DOMAIN b \cup {m}
             /\ c[m] = RowAfter(b, m, usage)
             /\ \A n \in DOMAIN b \ {m} : c[n] = b[n]
<1> DEFINE c == RowsAfter(b, m, usage)
<1>1. /\ DOMAIN c = DOMAIN b \cup {m}
      /\ c[m] = RowAfter(b, m, usage)
      /\ \A n \in DOMAIN b \ {m} : c[n] = b[n]
  BY DEF RowsAfter
<1>2. RowAfter(b, m, usage) \in Row
  BY RowAfterType
<1>3. IsFiniteSet(DOMAIN b \cup {m})
  BY FS_AddElement DEF RowsTyped
<1> HIDE DEF c
<1>4. RowsTyped(c)
  BY <1>1, <1>2, <1>3 DEF RowsTyped
<1> QED
  BY <1>1, <1>4 DEF c

\* What a charge adds to the columns.
LEMMA ColumnsAfter ==
  ASSUME NEW b, RowsTyped(b), NEW m \in Models, NEW usage \in UsageType
  PROVE  LET c == RowsAfter(b, m, usage)
         IN  /\ SumOver(DOMAIN c, UsdOf(c)) =
                  SumOver(DOMAIN b, UsdOf(b)) + Estimate(m, usage)
             /\ SumOver(DOMAIN c, RequestsOf(c)) = SumOver(DOMAIN b, RequestsOf(b)) + 1
             /\ SumOver(Unmatched(c), RequestsOf(c)) =
                  SumOver(Unmatched(b), RequestsOf(b)) + (IF Matched(m) THEN 0 ELSE 1)
             /\ SumOver(DOMAIN c, SpentOf(c)) =
                  SumOver(DOMAIN b, SpentOf(b)) + SumOver(BudgetAxes, usage)
<1> DEFINE c == RowsAfter(b, m, usage)
           S == DOMAIN b
           row == IF m \in S THEN b[m] ELSE NoRow
           after == RowAfter(b, m, usage)
           spent(u) == u["input_tokens"] + u["output_tokens"] + u["cache_write_tokens"]
<1>1. /\ DOMAIN c = S \cup {m} /\ c[m] = after
      /\ \A n \in S \ {m} : c[n] = b[n]
      /\ IsFiniteSet(S) /\ \A n \in S : b[n] \in Row
  BY RowsAfterTyped DEF RowsTyped
<1>2. /\ row \in Row /\ after \in Row
      /\ after.requests = row.requests + 1
      /\ after.usd = row.usd + Estimate(m, usage)
      /\ after.tokens = [a \in Axes |-> row.tokens[a] + usage[a]]
      /\ Estimate(m, usage) \in Nat
  BY RowAfterType
<1>3. NoRow.usd = 0 /\ NoRow.requests = 0 /\ NoRow.tokens = NoUsage
      /\ spent(NoUsage) = 0
  BY AxesAre DEF NoRow, NoUsage
<1>4. \A u \in UsageType : spent(u) \in Nat
  BY AxesAre DEF UsageType
<1>5. spent(after.tokens) = spent(row.tokens) + spent(usage)
  <2>1. \A a \in {"input_tokens", "output_tokens", "cache_write_tokens"} :
          /\ after.tokens[a] = row.tokens[a] + usage[a]
          /\ row.tokens[a] \in Nat /\ usage[a] \in Nat
    <3> HIDE DEF row, after
    <3> QED
      BY <1>2, AxesAre DEF Row, UsageType
  <2> HIDE DEF row, after
  <2> QED
    BY <2>1
<1>6. SumOver(BudgetAxes, usage) = spent(usage) /\ spent(usage) \in Nat
  BY <1>4, BudgetSum
<1>7. m \in S => row = b[m]
  OBVIOUS
<1>8. m \notin S => row.usd = 0 /\ row.requests = 0 /\ spent(row.tokens) = 0
  BY <1>3
<1> HIDE DEF c, S, row, after, spent
<1>9. SumOver(S \cup {m}, UsdOf(c)) = SumOver(S, UsdOf(b)) + Estimate(m, usage)
  <2> DEFINE f == UsdOf(b)  g == UsdOf(c)
  <2>1. /\ \A x \in S : f[x] \in Nat
        /\ \A x \in S \ {m} : g[x] = f[x]
        /\ g[m] = (IF m \in S THEN f[m] ELSE 0) + Estimate(m, usage)
    BY <1>1, <1>2, <1>7, <1>8 DEF UsdOf, Row, S
  <2> DEFINE more == Estimate(m, usage)
  <2>2. IsFiniteSet(S) /\ more \in Nat
    BY <1>1, <1>2
  <2>3. g[m] = (IF m \in S THEN f[m] ELSE 0) + more
    BY <2>1
  <2> HIDE DEF f, g, more
  <2>4. SumOver(S \cup {m}, g) = SumOver(S, f) + more
    BY <2>1, <2>2, <2>3, SumUpdate, SMTT(30)
  <2> QED
    BY <2>4 DEF f, g, more
<1>10. \A x \in S : RequestsOf(b)[x] \in Nat
  BY <1>1 DEF RequestsOf, Row, S
<1>11. /\ \A x \in S \ {m} : RequestsOf(c)[x] = RequestsOf(b)[x]
       /\ RequestsOf(c)[m] = (IF m \in S THEN RequestsOf(b)[m] ELSE 0) + 1
  BY <1>1, <1>2, <1>7, <1>8 DEF RequestsOf, S
<1>12. SumOver(S \cup {m}, RequestsOf(c)) = SumOver(S, RequestsOf(b)) + 1
  BY <1>1, <1>10, <1>11, SumOneMore
<1>13. SumOver(Unmatched(c), RequestsOf(c)) =
         SumOver(Unmatched(b), RequestsOf(b)) + (IF Matched(m) THEN 0 ELSE 1)
  <2> DEFINE U == Unmatched(b)
  <2>1. U \in SUBSET S /\ IsFiniteSet(U)
    BY <1>1, FS_Subset DEF Unmatched, S
  <2>2. \A x \in U : RequestsOf(b)[x] \in Nat
    BY <1>10, <2>1
  <2>3. CASE Matched(m)
    <3>1. Unmatched(c) = U /\ m \notin U
      BY <1>1, <2>3 DEF Unmatched, S
    <3> HIDE DEF U
    <3>2. \A x \in U : RequestsOf(c)[x] = RequestsOf(b)[x]
      BY <1>11, <2>1, <3>1
    <3>3. SumOver(U, RequestsOf(c)) = SumOver(U, RequestsOf(b))
      BY <2>1, <2>2, <3>2, SumSame
    <3>4. SumOver(U, RequestsOf(b)) \in Nat
      BY <2>1, <2>2, SumType
    <3> QED
      BY <2>3, <3>1, <3>3, <3>4 DEF U
  <2>4. CASE ~Matched(m)
    <3>1. Unmatched(c) = U \cup {m} /\ (m \in U <=> m \in S)
      BY <1>1, <2>4 DEF Unmatched, S
    <3> HIDE DEF U
    <3>2. /\ \A x \in U \ {m} : RequestsOf(c)[x] = RequestsOf(b)[x]
          /\ RequestsOf(c)[m] = (IF m \in U THEN RequestsOf(b)[m] ELSE 0) + 1
      BY <1>11, <2>1, <3>1
    <3>3. SumOver(U \cup {m}, RequestsOf(c)) = SumOver(U, RequestsOf(b)) + 1
      <4> DEFINE f == RequestsOf(b)  g == RequestsOf(c)
      <4> HIDE DEF f, g
      <4>1. SumOver(U \cup {m}, g) = SumOver(U, f) + 1
        <5>1. /\ \A x \in U : f[x] \in Nat
              /\ \A x \in U \ {m} : g[x] = f[x]
              /\ g[m] = (IF m \in U THEN f[m] ELSE 0) + 1
          BY <2>2, <3>2 DEF f, g
        <5>2. IsFiniteSet(U)
          BY <2>1
        <5> QED
          BY <5>1, <5>2, SumOneMore
      <4> QED
        BY <4>1 DEF f, g
    <3> QED
      BY <2>4, <3>1, <3>3 DEF U
  <2> QED
    BY <2>3, <2>4
<1>14. SumOver(S \cup {m}, SpentOf(c)) = SumOver(S, SpentOf(b)) + SumOver(BudgetAxes, usage)
  <2> DEFINE f == SpentOf(b)  g == SpentOf(c)
  <2>1. /\ \A x \in S : f[x] = spent(b[x].tokens)
        /\ \A x \in S \cup {m} : g[x] = spent(c[x].tokens)
    BY <1>1 DEF SpentOf, S, spent
  <2>2. \A x \in S : b[x].tokens \in UsageType
    BY <1>1 DEF Row
  <2>3. /\ \A x \in S : f[x] \in Nat
        /\ \A x \in S \ {m} : g[x] = f[x]
        /\ g[m] = (IF m \in S THEN f[m] ELSE 0) + spent(usage)
    <3> HIDE DEF f, g
    <3>1. \A x \in S : f[x] \in Nat
      BY <1>4, <2>1, <2>2
    <3>2. g[m] = spent(row.tokens) + spent(usage)
      BY <1>1, <1>5, <2>1
    <3>3. \A x \in S \ {m} : g[x] = f[x]
      BY <1>1, <2>1
    <3>4. CASE m \in S
      <4>1. f[m] = spent(row.tokens)
        BY <1>7, <2>1, <3>4
      <4> QED
        BY <3>1, <3>2, <3>3, <3>4, <4>1
    <3>5. CASE m \notin S
      BY <1>8, <3>1, <3>2, <3>3, <3>5
    <3> QED
      BY <3>4, <3>5
  <2> HIDE DEF f, g
  <2>4. /\ IsFiniteSet(S) /\ SumOver(BudgetAxes, usage) \in Nat
        /\ \A x \in S : f[x] \in Nat
        /\ \A x \in S \ {m} : g[x] = f[x]
        /\ g[m] = (IF m \in S THEN f[m] ELSE 0) + SumOver(BudgetAxes, usage)
    BY <1>1, <1>6, <2>3
  <2>5. SumOver(S \cup {m}, g) = SumOver(S, f) + SumOver(BudgetAxes, usage)
    BY <2>4, SumUpdate, SMTT(30)
  <2> QED
    BY <2>5 DEF f, g
<1> QED
  BY <1>1, <1>9, <1>12, <1>13, <1>14 DEF S, c

LEMMA ChargeStep ==
  ASSUME BooksInv, NEW m \in Models, NEW usage \in UsageType,
         Charge(m, usage, BytesIn), UNCHANGED apart
  PROVE  BooksInv'
<1> DEFINE c == RowsAfter(byModel, m, usage)
<1>1. RowsTyped(byModel)
  BY DEF BooksInv, BooksTyped
<1>2. /\ byModel' = c
      /\ totalUsd' = totalUsd + Estimate(m, usage)
      /\ totalRequests' = totalRequests + 1
      /\ unmatched' = unmatched + (IF Matched(m) THEN 0 ELSE 1)
  BY TrackRows DEF Charge
<1>3. chars' = chars + BytesIn /\ tokens' = tokens + SumOver(BudgetAxes, usage)
  BY DEF Charge, Spend
<1>4. /\ RowsTyped(c) /\ DOMAIN c = DOMAIN byModel \cup {m}
      /\ c[m] = RowAfter(byModel, m, usage)
      /\ \A n \in DOMAIN byModel \ {m} : c[n] = byModel[n]
  BY <1>1, RowsAfterTyped
<1>5. Estimate(m, usage) \in Nat /\ SumOver(BudgetAxes, usage) \in Nat
  <2>1. usage["input_tokens"] + usage["output_tokens"] + usage["cache_write_tokens"] \in Nat
    BY AxesAre DEF UsageType
  <2> QED
    BY <2>1, BudgetSum, EstimatePlus
<1>6. /\ SumOver(DOMAIN c, UsdOf(c)) =
           SumOver(DOMAIN byModel, UsdOf(byModel)) + Estimate(m, usage)
      /\ SumOver(DOMAIN c, RequestsOf(c)) = SumOver(DOMAIN byModel, RequestsOf(byModel)) + 1
      /\ SumOver(Unmatched(c), RequestsOf(c)) =
           SumOver(Unmatched(byModel), RequestsOf(byModel)) + (IF Matched(m) THEN 0 ELSE 1)
      /\ SumOver(DOMAIN c, SpentOf(c)) =
           SumOver(DOMAIN byModel, SpentOf(byModel)) + SumOver(BudgetAxes, usage)
  BY <1>1, ColumnsAfter
<1>7. c[m].usd = Estimate(m, c[m].tokens)
  <2> DEFINE row == IF m \in DOMAIN byModel THEN byModel[m] ELSE NoRow
  <2>1. /\ row \in Row
        /\ c[m].usd = row.usd + Estimate(m, usage)
        /\ c[m].tokens = [a \in Axes |-> row.tokens[a] + usage[a]]
    BY <1>1, <1>4, RowAfterType
  <2>2. row.usd = Estimate(m, row.tokens)
    BY EstimateNothing DEF BooksInv, Summed, NoRow
  <2> HIDE DEF row, c
  <2>3. row.tokens \in UsageType
    BY <2>1 DEF Row
  <2>4. Estimate(m, [a \in Axes |-> row.tokens[a] + usage[a]]) =
          Estimate(m, row.tokens) + Estimate(m, usage)
    BY <2>3, EstimatePlus
  <2> QED
    BY <2>1, <2>2, <2>4
<1> HIDE DEF c
<1>8. BooksTyped'
  BY <1>2, <1>3, <1>4, <1>5, BooksAssumption DEF BooksInv, BooksTyped
<1>9. \A n \in DOMAIN c : c[n].usd = Estimate(n, c[n].tokens)
  BY <1>4, <1>7 DEF BooksInv, Summed
<1>10. Summed'
  BY <1>2, <1>6, <1>9 DEF BooksInv, Summed
<1>11. Agreed'
  <2>1. SumOver(DOMAIN byModel, SpentOf(byModel)) \in Nat
    <3>1. \A n \in DOMAIN byModel : SpentOf(byModel)[n] \in Nat
      BY <1>1, AxesAre DEF SpentOf, RowsTyped, Row, UsageType
    <3> QED
      BY <1>1, <3>1, SumType DEF RowsTyped
  <2>2. tokens \in Nat /\ apart' = apart
    BY DEF BooksInv, BooksTyped
  <2>3. /\ tokens <= SumOver(DOMAIN byModel, SpentOf(byModel))
        /\ ~apart => tokens = SumOver(DOMAIN byModel, SpentOf(byModel))
    BY DEF BooksInv, Agreed
  <2> QED
    BY <1>2, <1>3, <1>5, <1>6, <2>1, <2>2, <2>3 DEF Agreed
<1> QED
  BY <1>8, <1>10, <1>11 DEF BooksInv

LEMMA SettleStep ==
  ASSUME BooksInv, NEW acc \in Accumulators, Settle(acc), UNCHANGED apart
  PROVE  BooksInv'
<1>1. CASE acc.started
  <2>1. ModelOf(acc) \in Models /\ acc.usage \in UsageType
    BY BooksAssumption DEF ModelOf, Accumulators, Models
  <2>2. Charge(ModelOf(acc), acc.usage, BytesIn)
    BY <1>1 DEF Settle
  <2> QED
    BY <2>1, <2>2, ChargeStep
<1>2. CASE ~acc.started
  BY <1>2 DEF Settle, BooksInv, BooksTyped, Summed, Agreed, bookVars, trackerVars, budgetVars
<1> QED
  BY <1>1, <1>2

\* Empty books.
LEMMA NothingBooked ==
  LET b == [m \in {} |-> 0]
  IN  /\ RowsTyped(b) /\ DOMAIN b = {}
      /\ SumOver(DOMAIN b, UsdOf(b)) = 0 /\ SumOver(DOMAIN b, RequestsOf(b)) = 0
      /\ SumOver(Unmatched(b), RequestsOf(b)) = 0
      /\ SumOver(DOMAIN b, SpentOf(b)) = 0
<1> DEFINE b == [m \in {} |-> 0]
<1>1. DOMAIN b = {} /\ Unmatched(b) = {}
  BY DEF Unmatched
<1> HIDE DEF b
<1>2. RowsTyped(b)
  BY <1>1, FS_EmptySet DEF RowsTyped
<1>3. /\ SumOver(DOMAIN b, UsdOf(b)) = 0 /\ SumOver(DOMAIN b, RequestsOf(b)) = 0
      /\ SumOver(Unmatched(b), RequestsOf(b)) = 0
      /\ SumOver(DOMAIN b, SpentOf(b)) = 0
  BY <1>1, SumEmpty
<1> QED
  BY <1>1, <1>2, <1>3 DEF b

LEMMA ResetStep ==
  ASSUME BooksInv, Reset
  PROVE  BooksInv'
<1>1. CASE CostReset /\ apart' = FALSE
  <2> DEFINE b == [m \in {} |-> 0]
  <2>1. /\ RowsTyped(b) /\ DOMAIN b = {}
        /\ SumOver(DOMAIN b, UsdOf(b)) = 0 /\ SumOver(DOMAIN b, RequestsOf(b)) = 0
        /\ SumOver(Unmatched(b), RequestsOf(b)) = 0
        /\ SumOver(DOMAIN b, SpentOf(b)) = 0
    BY NothingBooked
  <2>2. /\ byModel' = b /\ totalUsd' = 0 /\ totalRequests' = 0 /\ unmatched' = 0
        /\ chars' = 0 /\ tokens' = 0 /\ apart' = FALSE
    BY <1>1 DEF CostReset, ResetBudget
  <2> HIDE DEF b
  <2>3. BooksTyped'
    BY <2>1, <2>2 DEF BooksTyped
  <2>4. Summed'
    BY <2>1, <2>2 DEF Summed
  <2>5. Agreed'
    BY <2>1, <2>2 DEF Agreed
  <2> QED
    BY <2>3, <2>4, <2>5 DEF BooksInv
<1>2. CASE BudgetReset /\ apart' = TRUE
  <2>1. SumOver(DOMAIN byModel, SpentOf(byModel)) \in Nat
    <3>1. RowsTyped(byModel)
      BY DEF BooksInv, BooksTyped
    <3>2. \A n \in DOMAIN byModel : SpentOf(byModel)[n] \in Nat
      BY <3>1, AxesAre DEF SpentOf, RowsTyped, Row, UsageType
    <3> QED
      BY <3>1, <3>2, SumType DEF RowsTyped
  <2> QED
    BY <1>2, <2>1
       DEF BudgetReset, ResetBudget, trackerVars, BooksInv, BooksTyped, Summed, Agreed
<1> QED
  BY <1>1, <1>2 DEF Reset

LEMMA ReplyStep ==
  ASSUME BooksInv, NEW r \in Replies, NEW ts, NEW ms, Reply(r, ts, ms)
  PROVE  BooksInv'
<1>1. CASE Infinite \in {r.usage[a] : a \in DOMAIN r.usage}
  BY <1>1 DEF Reply, BooksInv, BooksTyped, Summed, Agreed, bookVars, trackerVars, budgetVars
<1>2. CASE Infinite \notin {r.usage[a] : a \in DOMAIN r.usage}
  <2>1. \A a \in DOMAIN r.usage : r.usage[a] \in Nat
    BY <1>2, BooksAssumption
  <2>2. Extracted(r.usage) \in UsageType
    BY <2>1 DEF Extracted, UsageType
  <2>3. Charge(r.model, Extracted(r.usage), BytesIn) /\ UNCHANGED apart
    BY <1>2 DEF Reply
  <2> QED
    BY <2>2, <2>3, ChargeStep, BooksAssumption DEF Models
<1> QED
  BY <1>1, <1>2

-----------------------------------------------------------------------------
(* The streams. *)

Streams ==
  [pc : {"idle", "open", "done"}, wire : Seq(Bytes), passed : Seq(Bytes),
   acc : Accumulators]

StreamsTyped ==
  /\ stream \in [StreamIds -> Streams]
  /\ \A s \in StreamIds : NL \notin ToSet(stream[s].acc.buf)

LEMMA AxisType ==
  NewAccumulator \in Accumulators /\ NoStream \in Streams /\ NL \notin ToSet(NoStream.acc.buf)
<1>1. NewAccumulator \in Accumulators /\ NewAccumulator.buf = <<>>
  BY EstimateNothing DEF NewAccumulator, Accumulators, NoModel
<1>2. NoStream \in Streams /\ NoStream.acc = NewAccumulator
  BY <1>1 DEF NoStream, Streams
<1> QED
  BY <1>1, <1>2 DEF ToSet

LEMMA OpenStep ==
  ASSUME StreamsTyped, NEW s \in StreamIds, NEW w \in Wires, Open(s, w)
  PROVE  StreamsTyped'
<1> DEFINE new == [NoStream EXCEPT !.pc = "open", !.wire = w]
<1>1. w \in Seq(Bytes)
  BY BooksAssumption DEF Bytes
<1>2. new \in Streams /\ new.acc = NoStream.acc
  BY <1>1, AxisType DEF Streams
<1>3. stream' = [stream EXCEPT ![s] = new]
  BY DEF Open
<1> HIDE DEF new
<1> QED
  BY <1>2, <1>3, AxisType DEF StreamsTyped

LEMMA ChunkStep ==
  ASSUME StreamsTyped, NEW s \in StreamIds, NEW n \in 1..Len(stream[s].wire), Chunk(s, n)
  PROVE  StreamsTyped' /\ Parsed(s, SubSeq(stream[s].wire, 1, n)) \in Accumulators
<1> DEFINE rest  == stream[s].wire
           chunk == SubSeq(rest, 1, n)
           acc   == Parsed(s, chunk)
           after == [stream[s] EXCEPT !.wire = SubSeq(rest, n + 1, Len(rest)),
                                      !.passed = @ \o chunk, !.acc = acc]
           last  == [after EXCEPT !.pc = "done"]
<1>1. stream[s] \in Streams
  BY DEF StreamsTyped
<1>2. rest \in Seq(Bytes) /\ stream[s].passed \in Seq(Bytes) /\ stream[s].acc \in Accumulators
  BY <1>1 DEF Streams
<1>3. /\ chunk \in Seq(Bytes) /\ SubSeq(rest, n + 1, Len(rest)) \in Seq(Bytes)
      /\ stream[s].passed \o chunk \in Seq(Bytes)
  <2> DEFINE w == stream[s].wire  p == stream[s].passed
  <2>1. w \in Seq(Bytes) /\ p \in Seq(Bytes) /\ n \in 1..Len(w)
    BY <1>2
  <2> HIDE DEF w, p
  <2>2. SubSeq(w, 1, n) \in Seq(Bytes) /\ SubSeq(w, n + 1, Len(w)) \in Seq(Bytes)
    BY <2>1
  <2>3. p \o SubSeq(w, 1, n) \in Seq(Bytes)
    BY <2>1, <2>2
  <2> QED
    BY <2>2, <2>3 DEF w, p
<1>4. acc \in Accumulators /\ NL \notin ToSet(acc.buf)
  <2> HIDE DEF chunk
  <2> QED
    BY <1>2, <1>3, FeedType DEF Parsed
<1>5. \/ stream' = [stream EXCEPT ![s] = last]
      \/ stream' = [stream EXCEPT ![s] = after]
  BY DEF Chunk
<1> HIDE DEF acc, chunk
<1>6. after \in Streams /\ after.acc = acc
  BY <1>1, <1>3, <1>4 DEF Streams
<1> HIDE DEF after
<1>7. last \in Streams /\ last.acc = acc
  BY <1>6 DEF Streams
<1> HIDE DEF last
<1>8. StreamsTyped'
  BY <1>4, <1>5, <1>6, <1>7 DEF StreamsTyped
<1> QED
  BY <1>4, <1>8 DEF acc, chunk

LEMMA CloseStep ==
  ASSUME StreamsTyped, NEW s \in StreamIds, Close(s)
  PROVE  StreamsTyped' /\ stream[s].acc \in Accumulators
<1> DEFINE last == [stream[s] EXCEPT !.pc = "done"]
<1>1. stream[s] \in Streams
  BY DEF StreamsTyped
<1>2. last \in Streams /\ last.acc = stream[s].acc /\ stream[s].acc \in Accumulators
  BY <1>1 DEF Streams
<1>3. stream' = [stream EXCEPT ![s] = last]
  BY DEF Close
<1> HIDE DEF last
<1> QED
  BY <1>2, <1>3 DEF StreamsTyped

-----------------------------------------------------------------------------
(* The statistics. *)

Records == [ts : Times, ms : Latencies, error : BOOLEAN]
Counts == [BinIndexes -> Nat]
Buckets == [requests : Nat, errors : Nat, counts : Counts]

\* Which of the records rs are of minute m, of those the ones with an error,
\* and of a set S of them the ones in bin i.
InMinute(rs, m) == {n \in DOMAIN rs : MinuteOf(rs[n].ts) = m}
FailedIn(rs, m) == {n \in DOMAIN rs : MinuteOf(rs[n].ts) = m /\ rs[n].error}
Binned(rs, S, i) == {n \in S : BinIndex(rs[n].ms) = i}

StatsTyped ==
  /\ records \in Seq(Records)
  /\ requestsTotal \in Nat /\ upstreamErrors \in Nat
  /\ latencyCounts \in Counts
  /\ dropped \in Nat /\ latest \in Nat /\ dropped <= latest
  /\ recent \in Seq(Records) /\ Len(recent) <= RecentMax

\* A bucket that is the whole of its minute.
Exact(b, rs, m) ==
  /\ b[m].requests = Cardinality(InMinute(rs, m))
  /\ b[m].errors = Cardinality(FailedIn(rs, m))
  /\ \A i \in BinIndexes : b[m].counts[i] = Cardinality(Binned(rs, InMinute(rs, m), i))

Counted ==
  /\ requestsTotal = Cardinality(DOMAIN records)
  /\ \A i \in BinIndexes :
       latencyCounts[i] = Cardinality(Binned(records, DOMAIN records, i))

\* The buckets b show the records rs, when late is the latest time at which old
\* buckets were dropped.
Shows(b, rs, late) ==
  /\ \A m \in DOMAIN b :
       /\ m \in Nat /\ m % MinuteSeconds = 0 /\ m <= MinuteOf(late)
       /\ b[m] \in Buckets /\ b[m].requests > 0
  /\ \A n \in DOMAIN rs :
       MinuteOf(rs[n].ts) > Cutoff(late) => MinuteOf(rs[n].ts) \in DOMAIN b
  /\ \A m \in DOMAIN b : m > Cutoff(late) => Exact(b, rs, m)

Shown ==
  /\ Shows(buckets, records, latest)
  /\ \A m \in DOMAIN buckets : m > Cutoff(dropped)

StatsInv == StatsTyped /\ Counted /\ Shown

LEMMA Divide ==
  ASSUME NEW a \in Int, NEW b \in Int, b > 0
  PROVE  /\ a = b * (a \div b) + (a % b) /\ a \div b \in Int
         /\ a % b \in Nat /\ a % b < b
OBVIOUS

LEMMA Multiple ==
  ASSUME NEW k \in Int, NEW b \in Int, b > 0
  PROVE  (b * k) % b = 0 /\ (b * k) \div b = k
OBVIOUS

LEMMA MinuteFacts ==
  ASSUME NEW ts \in Nat
  PROVE  /\ MinuteSeconds \in Nat /\ MinuteSeconds > 0
         /\ MinuteOf(ts) \in Nat /\ MinuteOf(ts) % MinuteSeconds = 0
         /\ MinuteOf(ts) = MinuteSeconds * (ts \div MinuteSeconds)
         /\ ts \div MinuteSeconds \in Nat
         /\ MinuteOf(ts) <= ts /\ ts < MinuteOf(ts) + MinuteSeconds
<1>1. MinuteSeconds \in Nat /\ MinuteSeconds > 0
  BY AuditStatsAssumption
<1>2. /\ ts = MinuteSeconds * (ts \div MinuteSeconds) + (ts % MinuteSeconds)
      /\ ts \div MinuteSeconds \in Int
      /\ ts % MinuteSeconds \in Nat /\ ts % MinuteSeconds < MinuteSeconds
  BY <1>1, Divide
<1>3. MinuteOf(ts) = MinuteSeconds * (ts \div MinuteSeconds)
  BY <1>1, <1>2 DEF MinuteOf
<1>4. MinuteOf(ts) % MinuteSeconds = 0
  BY <1>1, <1>2, <1>3, Multiple
<1>5. ts \div MinuteSeconds \in Nat
  BY <1>1
<1>6. MinuteOf(ts) \in Nat
  BY <1>1, <1>3, <1>5
<1> QED
  BY <1>1, <1>2, <1>3, <1>4, <1>5, <1>6 DEF MinuteOf

LEMMA MinuteRises ==
  ASSUME NEW a \in Nat, NEW b \in Nat, a <= b
  PROVE  MinuteOf(a) <= MinuteOf(b)
<1>1. MinuteSeconds \in Nat /\ MinuteSeconds > 0
  BY AuditStatsAssumption
<1>2. a \div MinuteSeconds <= b \div MinuteSeconds
  BY <1>1
<1> QED
  BY <1>1, <1>2, MinuteFacts

\* Every latency is in exactly one bin.
LEMMA BinIndexType ==
  ASSUME NEW ms \in Nat
  PROVE  BinIndex(ms) \in BinIndexes
<1> DEFINE L == Len(LatencyBins)
           T == {i \in BinIndexes : i <= L => ms <= LatencyBins[i]}
<1>1. L \in Nat /\ \A i \in 1..L : LatencyBins[i] \in Nat
  BY AuditStatsAssumption
<1>2. L + 1 \in T /\ T \in SUBSET Nat
  BY <1>1 DEF BinIndexes
<1>3. PICK i \in T : \A j \in T : i <= j
  <2> HIDE DEF T
  <2> QED
    BY <1>2, LeastNatural
<1>4. ASSUME NEW j \in 1..(i - 1) PROVE ms > LatencyBins[j]
  <2>1. j \in BinIndexes /\ j < i
    BY <1>1 DEF BinIndexes
  <2>2. j \notin T
    <3> HIDE DEF T
    <3> QED
      BY <1>2, <1>3, <2>1
  <2>3. j \in 1..L /\ ~(ms <= LatencyBins[j])
    BY <1>1, <2>1, <2>2 DEF BinIndexes
  <2> QED
    BY <1>1, <2>3
<1>5. i \in BinIndexes /\ (i <= Len(LatencyBins) => ms <= LatencyBins[i])
  OBVIOUS
<1> QED
  BY <1>4, <1>5 DEF BinIndex

LEMMA OneMore ==
  ASSUME NEW S, IsFiniteSet(S), NEW x, x \notin S
  PROVE  Cardinality(S) \in Nat /\ Cardinality(S \cup {x}) = Cardinality(S) + 1
BY FS_CardinalityType, FS_AddElement

\* One more record: what it adds to each count.
LEMMA Recorded ==
  ASSUME NEW rs \in Seq(Records), NEW r \in Records
  PROVE  LET q == Append(rs, r)
         IN  /\ q \in Seq(Records)
             /\ Cardinality(DOMAIN q) = Cardinality(DOMAIN rs) + 1
             /\ \A i : Cardinality(Binned(q, DOMAIN q, i)) =
                         Cardinality(Binned(rs, DOMAIN rs, i))
                           + (IF BinIndex(r.ms) = i THEN 1 ELSE 0)
             /\ \A m :
                  /\ Cardinality(InMinute(q, m)) =
                       Cardinality(InMinute(rs, m)) + (IF MinuteOf(r.ts) = m THEN 1 ELSE 0)
                  /\ Cardinality(FailedIn(q, m)) =
                       Cardinality(FailedIn(rs, m))
                         + (IF MinuteOf(r.ts) = m /\ r.error THEN 1 ELSE 0)
                  /\ \A i : Cardinality(Binned(q, InMinute(q, m), i)) =
                       Cardinality(Binned(rs, InMinute(rs, m), i))
                         + (IF MinuteOf(r.ts) = m /\ BinIndex(r.ms) = i THEN 1 ELSE 0)
<1> DEFINE q == Append(rs, r)
           D == DOMAIN rs
           x == Len(rs) + 1
<1>1. /\ q \in Seq(Records) /\ DOMAIN q = D \cup {x} /\ x \notin D /\ q[x] = r
      /\ \A n \in D : q[n] = rs[n]
  OBVIOUS
<1>2. IsFiniteSet(D)
  <2>1. D = 1..Len(rs)
    OBVIOUS
  <2> QED
    BY <2>1, FS_Interval
<1> HIDE DEF q, D, x
<1>3. ASSUME NEW S \in SUBSET D
      PROVE  Cardinality(S \cup {x}) = Cardinality(S) + 1
  BY <1>1, <1>2, FS_Subset, OneMore
<1>4. Cardinality(DOMAIN q) = Cardinality(D) + 1
  BY <1>1, <1>2, FS_AddElement
<1>5. ASSUME NEW i
      PROVE  Cardinality(Binned(q, DOMAIN q, i)) =
               Cardinality(Binned(rs, D, i))
                 + (IF BinIndex(r.ms) = i THEN 1 ELSE 0)
  <2> DEFINE S == Binned(rs, D, i)
             T == Binned(q, DOMAIN q, i)
  <2>1. CASE BinIndex(r.ms) = i
    <3>1. T = S \cup {x} /\ S \in SUBSET D
      BY <1>1, <2>1 DEF Binned
    <3> HIDE DEF S, T
    <3>2. Cardinality(T) = Cardinality(S) + 1
      BY <1>3, <3>1
    <3> QED
      BY <2>1, <3>2 DEF S, T
  <2>2. CASE ~(BinIndex(r.ms) = i)
    <3>1. T = S /\ S \in SUBSET D
      BY <1>1, <2>2 DEF Binned
    <3> HIDE DEF S, T
    <3>2. Cardinality(S) \in Nat
      BY <1>1, <1>2, <3>1, FS_Subset, OneMore
    <3>3. Cardinality(T) = Cardinality(S) + 0
      BY <3>1, <3>2
    <3> QED
      BY <2>2, <3>3 DEF S, T
  <2> QED
    BY <2>1, <2>2
<1>6. ASSUME NEW m
      PROVE  Cardinality(InMinute(q, m)) =
               Cardinality(InMinute(rs, m))
                 + (IF MinuteOf(r.ts) = m THEN 1 ELSE 0)
  <2> DEFINE S == InMinute(rs, m)
             T == InMinute(q, m)
  <2>1. CASE MinuteOf(r.ts) = m
    <3>1. T = S \cup {x} /\ S \in SUBSET D
      BY <1>1, <2>1 DEF InMinute, D
    <3> HIDE DEF S, T
    <3>2. Cardinality(T) = Cardinality(S) + 1
      BY <1>3, <3>1
    <3> QED
      BY <2>1, <3>2 DEF S, T
  <2>2. CASE ~(MinuteOf(r.ts) = m)
    <3>1. T = S /\ S \in SUBSET D
      BY <1>1, <2>2 DEF InMinute, D
    <3> HIDE DEF S, T
    <3>2. Cardinality(S) \in Nat
      BY <1>1, <1>2, <3>1, FS_Subset, OneMore
    <3>3. Cardinality(T) = Cardinality(S) + 0
      BY <3>1, <3>2
    <3> QED
      BY <2>2, <3>3 DEF S, T
  <2> QED
    BY <2>1, <2>2
<1>7. ASSUME NEW m
      PROVE  Cardinality(FailedIn(q, m)) =
               Cardinality(FailedIn(rs, m))
                 + (IF MinuteOf(r.ts) = m /\ r.error THEN 1 ELSE 0)
  <2> DEFINE S == FailedIn(rs, m)
             T == FailedIn(q, m)
  <2>1. CASE MinuteOf(r.ts) = m /\ r.error
    <3>1. T = S \cup {x} /\ S \in SUBSET D
      BY <1>1, <2>1 DEF FailedIn, D
    <3> HIDE DEF S, T
    <3>2. Cardinality(T) = Cardinality(S) + 1
      BY <1>3, <3>1
    <3> QED
      BY <2>1, <3>2 DEF S, T
  <2>2. CASE ~(MinuteOf(r.ts) = m /\ r.error)
    <3>1. T = S /\ S \in SUBSET D
      BY <1>1, <2>2 DEF FailedIn, D
    <3> HIDE DEF S, T
    <3>2. Cardinality(S) \in Nat
      BY <1>1, <1>2, <3>1, FS_Subset, OneMore
    <3>3. Cardinality(T) = Cardinality(S) + 0
      BY <3>1, <3>2
    <3> QED
      BY <2>2, <3>3 DEF S, T
  <2> QED
    BY <2>1, <2>2
<1>8. ASSUME NEW m, NEW i
      PROVE  Cardinality(Binned(q, InMinute(q, m), i)) =
               Cardinality(Binned(rs, InMinute(rs, m), i))
                 + (IF MinuteOf(r.ts) = m /\ BinIndex(r.ms) = i THEN 1 ELSE 0)
  <2> DEFINE S == Binned(rs, InMinute(rs, m), i)
             T == Binned(q, InMinute(q, m), i)
  <2>1. CASE MinuteOf(r.ts) = m /\ BinIndex(r.ms) = i
    <3>1. T = S \cup {x} /\ S \in SUBSET D
      BY <1>1, <2>1 DEF Binned, InMinute, D
    <3> HIDE DEF S, T
    <3>2. Cardinality(T) = Cardinality(S) + 1
      BY <1>3, <3>1
    <3> QED
      BY <2>1, <3>2 DEF S, T
  <2>2. CASE ~(MinuteOf(r.ts) = m /\ BinIndex(r.ms) = i)
    <3>1. T = S /\ S \in SUBSET D
      BY <1>1, <2>2 DEF Binned, InMinute, D
    <3> HIDE DEF S, T
    <3>2. Cardinality(S) \in Nat
      BY <1>1, <1>2, <3>1, FS_Subset, OneMore
    <3>3. Cardinality(T) = Cardinality(S) + 0
      BY <3>1, <3>2
    <3> QED
      BY <2>2, <3>3 DEF S, T
  <2> QED
    BY <2>1, <2>2
<1> QED
  BY <1>1, <1>4, <1>5, <1>6, <1>7, <1>8 DEF q, D

\* Dropping old buckets keeps the others as they are.
LEMMA EvictedShows ==
  ASSUME NEW b, NEW rs \in Seq(Records), NEW late \in Nat, Shows(b, rs, late),
         NEW ts \in Nat, NEW later \in Nat, late <= later, ts <= later
  PROVE  /\ Shows(Within(b, ts), rs, later)
         /\ \A m \in DOMAIN Within(b, ts) : m > Cutoff(ts)
<1> DEFINE c == Within(b, ts)
<1>1. DOMAIN c = {m \in DOMAIN b : m > Cutoff(ts)} /\ \A m \in DOMAIN c : c[m] = b[m]
  BY DEF Within
<1> HIDE DEF c
<1>2. /\ Cutoff(late) \in Int /\ Cutoff(ts) \in Int /\ Cutoff(later) \in Int
      /\ Cutoff(late) <= Cutoff(later) /\ Cutoff(ts) <= Cutoff(later)
  <2>1. WindowMinutes * MinuteSeconds \in Nat
    BY AuditStatsAssumption
  <2> QED
    BY <2>1 DEF Cutoff
<1>3. MinuteOf(late) <= MinuteOf(later) /\ MinuteOf(late) \in Nat /\ MinuteOf(later) \in Nat
  BY MinuteRises, MinuteFacts
<1>4. \A m \in DOMAIN c :
        /\ m \in Nat /\ m % MinuteSeconds = 0 /\ m <= MinuteOf(later)
        /\ c[m] \in Buckets /\ c[m].requests > 0
  BY <1>1, <1>3 DEF Shows
<1>5. ASSUME NEW n \in DOMAIN rs, MinuteOf(rs[n].ts) > Cutoff(later)
      PROVE  MinuteOf(rs[n].ts) \in DOMAIN c
  <2>1. MinuteOf(rs[n].ts) \in Nat
    <3>1. rs[n] \in Records
      OBVIOUS
    <3>2. rs[n].ts \in Nat
      BY <3>1, AuditStatsAssumption DEF Records
    <3> QED
      BY <3>2, MinuteFacts
  <2>2. MinuteOf(rs[n].ts) > Cutoff(late) /\ MinuteOf(rs[n].ts) > Cutoff(ts)
    BY <1>2, <1>5, <2>1
  <2> QED
    BY <1>1, <2>2 DEF Shows
<1>6. ASSUME NEW m \in DOMAIN c, m > Cutoff(later)
      PROVE  Exact(c, rs, m)
  <2>1. m \in DOMAIN b /\ m > Cutoff(late)
    BY <1>1, <1>2, <1>4, <1>6
  <2>2. Exact(b, rs, m)
    BY <2>1 DEF Shows
  <2> QED
    BY <1>1, <2>2 DEF Exact
<1>7. Shows(c, rs, later)
  BY <1>4, <1>5, <1>6 DEF Shows
<1> QED
  BY <1>1, <1>7 DEF c

\* The buckets as ProxyStats.observe() leaves them before it drops old ones.
Filled(b, r) ==
  LET m == MinuteOf(r.ts)
      bucket == IF m \in DOMAIN b THEN b[m] ELSE NoBucket
  IN [requests |-> bucket.requests + 1,
      errors |-> bucket.errors + (IF r.error THEN 1 ELSE 0),
      counts |-> [bucket.counts EXCEPT ![BinIndex(r.ms)] = @ + 1]]

BucketsAfter(b, r) ==
  [n \in DOMAIN b \cup {MinuteOf(r.ts)} |->
     IF n = MinuteOf(r.ts) THEN Filled(b, r) ELSE b[n]]

LEMMA RecordsAre ==
  ASSUME NEW r \in Records
  PROVE  /\ r.ts \in Nat /\ r.ms \in Nat /\ r.error \in BOOLEAN
         /\ MinuteOf(r.ts) \in Nat /\ BinIndex(r.ms) \in BinIndexes
<1>1. r.ts \in Nat /\ r.ms \in Nat /\ r.error \in BOOLEAN
  BY AuditStatsAssumption DEF Records
<1> QED
  BY <1>1, MinuteFacts, BinIndexType

LEMMA FilledType ==
  ASSUME NEW b, NEW r \in Records, MinuteOf(r.ts) \in DOMAIN b => b[MinuteOf(r.ts)] \in Buckets
  PROVE  LET m == MinuteOf(r.ts)
             bucket == IF m \in DOMAIN b THEN b[m] ELSE NoBucket
             full == Filled(b, r)
         IN  /\ bucket \in Buckets /\ full \in Buckets
             /\ full.requests = bucket.requests + 1
             /\ full.errors = bucket.errors + (IF r.error THEN 1 ELSE 0)
             /\ \A i \in BinIndexes :
                  full.counts[i] = bucket.counts[i] + (IF BinIndex(r.ms) = i THEN 1 ELSE 0)
<1> DEFINE m == MinuteOf(r.ts)
           bucket == IF m \in DOMAIN b THEN b[m] ELSE NoBucket
           k == BinIndex(r.ms)
           counts == [bucket.counts EXCEPT ![k] = @ + 1]
<1>1. bucket \in Buckets
  BY DEF NoBucket, NoCounts, Buckets, Counts
<1>2. k \in BinIndexes /\ r.error \in BOOLEAN
  BY RecordsAre
<1>3. Filled(b, r) = [requests |-> bucket.requests + 1,
                      errors |-> bucket.errors + (IF r.error THEN 1 ELSE 0),
                      counts |-> counts]
  BY DEF Filled
<1> HIDE DEF bucket, k
<1>4. bucket.counts \in Counts
  BY <1>1 DEF Buckets
<1>5. /\ counts \in Counts
      /\ \A i \in BinIndexes : counts[i] = bucket.counts[i] + (IF k = i THEN 1 ELSE 0)
  BY <1>2, <1>4 DEF Counts
<1> HIDE DEF counts
<1>6. /\ Filled(b, r) \in Buckets
      /\ Filled(b, r).requests = bucket.requests + 1
      /\ Filled(b, r).errors = bucket.errors + (IF r.error THEN 1 ELSE 0)
      /\ Filled(b, r).counts = counts
  BY <1>1, <1>2, <1>3, <1>5 DEF Buckets
<1> QED
  BY <1>1, <1>5, <1>6 DEF bucket, k

\* No record of a minute: nothing to count in it.
LEMMA NoneInMinute ==
  ASSUME NEW rs, NEW m, \A n \in DOMAIN rs : MinuteOf(rs[n].ts) # m
  PROVE  /\ Cardinality(InMinute(rs, m)) = 0 /\ Cardinality(FailedIn(rs, m)) = 0
         /\ \A i : Cardinality(Binned(rs, InMinute(rs, m), i)) = 0
<1>1. /\ InMinute(rs, m) = {} /\ FailedIn(rs, m) = {}
      /\ \A i : Binned(rs, InMinute(rs, m), i) = {}
  BY DEF InMinute, FailedIn, Binned
<1> QED
  BY <1>1, FS_EmptySet

LEMMA FilledShows ==
  ASSUME NEW b, NEW rs \in Seq(Records), NEW late \in Nat, Shows(b, rs, late),
         NEW r \in Records, NEW later \in Nat, late <= later, r.ts <= later
  PROVE  Shows(BucketsAfter(b, r), Append(rs, r), later)
<1> DEFINE m == MinuteOf(r.ts)
           full == Filled(b, r)
           bucket == IF m \in DOMAIN b THEN b[m] ELSE NoBucket
           c == BucketsAfter(b, r)
           q == Append(rs, r)
<1>1. /\ DOMAIN c = DOMAIN b \cup {m} /\ c[m] = full
      /\ \A n \in DOMAIN b \ {m} : c[n] = b[n]
  BY DEF BucketsAfter
<1>2. /\ bucket \in Buckets /\ full \in Buckets
      /\ full.requests = bucket.requests + 1
      /\ full.errors = bucket.errors + (IF r.error THEN 1 ELSE 0)
      /\ \A i \in BinIndexes :
           full.counts[i] = bucket.counts[i] + (IF BinIndex(r.ms) = i THEN 1 ELSE 0)
  BY FilledType DEF Shows
<1>3. /\ m \in Nat /\ m % MinuteSeconds = 0 /\ m <= MinuteOf(later)
      /\ MinuteOf(late) <= MinuteOf(later)
      /\ MinuteOf(late) \in Nat /\ MinuteOf(later) \in Nat
  <2>1. r.ts \in Nat
    BY RecordsAre
  <2> QED
    BY <2>1, MinuteFacts, MinuteRises
<1>4. Cutoff(late) \in Int /\ Cutoff(later) \in Int /\ Cutoff(late) <= Cutoff(later)
  <2>1. WindowMinutes * MinuteSeconds \in Nat
    BY AuditStatsAssumption
  <2> QED
    BY <2>1 DEF Cutoff
<1>5. /\ DOMAIN q = DOMAIN rs \cup {Len(rs) + 1} /\ q[Len(rs) + 1] = r
      /\ \A n \in DOMAIN rs : q[n] = rs[n]
  OBVIOUS
<1>6. /\ \A n : /\ Cardinality(InMinute(q, n)) =
                     Cardinality(InMinute(rs, n)) + (IF m = n THEN 1 ELSE 0)
                /\ Cardinality(FailedIn(q, n)) =
                     Cardinality(FailedIn(rs, n)) + (IF m = n /\ r.error THEN 1 ELSE 0)
                /\ \A i : Cardinality(Binned(q, InMinute(q, n), i)) =
                     Cardinality(Binned(rs, InMinute(rs, n), i))
                       + (IF m = n /\ BinIndex(r.ms) = i THEN 1 ELSE 0)
  BY Recorded
<1>7. \A n \in DOMAIN rs : MinuteOf(rs[n].ts) \in Nat
  BY RecordsAre
<1> HIDE DEF c, q, full, bucket
<1>8. \A n \in DOMAIN c :
        /\ n \in Nat /\ n % MinuteSeconds = 0 /\ n <= MinuteOf(later)
        /\ c[n] \in Buckets /\ c[n].requests > 0
  <2>1. full.requests > 0
    BY <1>2 DEF Buckets
  <2>2. \A n \in DOMAIN b :
          /\ n \in Nat /\ n % MinuteSeconds = 0 /\ n <= MinuteOf(late)
          /\ b[n] \in Buckets /\ b[n].requests > 0
    BY DEF Shows
  <2> HIDE DEF m
  <2> QED
    BY <1>1, <1>2, <1>3, <2>1, <2>2
<1>9. ASSUME NEW n \in DOMAIN q, MinuteOf(q[n].ts) > Cutoff(later)
      PROVE  MinuteOf(q[n].ts) \in DOMAIN c
  <2>1. CASE n \in DOMAIN rs
    <3>1. MinuteOf(rs[n].ts) > Cutoff(late)
      BY <1>4, <1>5, <1>7, <1>9, <2>1
    <3> QED
      BY <1>1, <1>5, <2>1, <3>1 DEF Shows
  <2>2. CASE n = Len(rs) + 1
    BY <1>1, <1>5, <2>2
  <2> QED
    BY <1>5, <2>1, <2>2
<1>10. ASSUME NEW n \in DOMAIN c, n > Cutoff(later)
       PROVE  Exact(c, q, n)
  <2>1. n > Cutoff(late) /\ n \in Nat
    BY <1>4, <1>8, <1>10
  <2>2. CASE n # m
    <3>1. n \in DOMAIN b /\ c[n] = b[n]
      BY <1>1, <2>2
    <3>2. Exact(b, rs, n) /\ b[n] \in Buckets
      BY <2>1, <3>1 DEF Shows
    <3> HIDE DEF m
    <3> QED
      BY <1>6, <2>2, <3>1, <3>2 DEF Exact, Buckets, Counts
  <2>3. CASE n = m
    <3>1. /\ bucket.requests = Cardinality(InMinute(rs, m))
          /\ bucket.errors = Cardinality(FailedIn(rs, m))
          /\ \A i \in BinIndexes :
               bucket.counts[i] = Cardinality(Binned(rs, InMinute(rs, m), i))
      <4>1. CASE m \in DOMAIN b
        <5>1. Exact(b, rs, m) /\ bucket = b[m]
          BY <2>1, <2>3, <4>1 DEF Shows, bucket
        <5> QED
          BY <5>1 DEF Exact
      <4>2. CASE m \notin DOMAIN b
        <5>1. \A j \in DOMAIN rs : MinuteOf(rs[j].ts) # m
          BY <2>1, <2>3, <4>2 DEF Shows
        <5>2. /\ Cardinality(InMinute(rs, m)) = 0 /\ Cardinality(FailedIn(rs, m)) = 0
              /\ \A i : Cardinality(Binned(rs, InMinute(rs, m), i)) = 0
          BY <5>1, NoneInMinute
        <5>3. bucket = NoBucket
          BY <4>2 DEF bucket
        <5> QED
          BY <5>2, <5>3 DEF NoBucket, NoCounts
      <4> QED
        BY <4>1, <4>2
    <3> HIDE DEF m
    <3>2. c[n].requests = Cardinality(InMinute(q, n))
      BY <1>1, <1>2, <1>6, <2>3, <3>1
    <3>3. c[n].errors = Cardinality(FailedIn(q, n))
      BY <1>1, <1>2, <1>6, <2>3, <3>1
    <3>4. ASSUME NEW i \in BinIndexes
          PROVE  c[n].counts[i] = Cardinality(Binned(q, InMinute(q, n), i))
      BY <1>1, <1>2, <1>6, <2>3, <3>1
    <3> QED
      BY <3>2, <3>3, <3>4 DEF Exact
  <2> QED
    BY <2>2, <2>3
<1> QED
  BY <1>8, <1>9, <1>10 DEF Shows, c, q

LEMMA ObserveStep ==
  ASSUME StatsInv, NEW ts \in Times, NEW ms \in Latencies, NEW isError \in BOOLEAN,
         Observe(ts, ms, isError)
  PROVE  StatsInv'
<1> DEFINE r == [ts |-> ts, ms |-> ms, error |-> isError]
           b == BucketsAfter(buckets, r)
           later == IF ts > latest THEN ts ELSE latest
           all == Append(recent, r)
<1>1. r \in Records /\ r.ts = ts /\ r.ms = ms /\ r.error = isError
  BY DEF Records
<1>2. ts \in Nat /\ BinIndex(ms) \in BinIndexes
  BY <1>1, RecordsAre
<1>3. /\ records \in Seq(Records) /\ requestsTotal \in Nat /\ upstreamErrors \in Nat
      /\ latencyCounts \in Counts /\ latest \in Nat /\ dropped \in Nat
      /\ recent \in Seq(Records) /\ Len(recent) <= RecentMax
  BY DEF StatsInv, StatsTyped
<1>4. /\ requestsTotal' = requestsTotal + 1
      /\ upstreamErrors' = upstreamErrors + (IF isError THEN 1 ELSE 0)
      /\ latencyCounts' = [latencyCounts EXCEPT ![BinIndex(ms)] = @ + 1]
      /\ recent' = IF Len(all) > RecentMax THEN Tail(all) ELSE all
      /\ records' = Append(records, r)
      /\ dropped' = ts /\ latest' = later
  BY DEF Observe, Evicted
<1>5. buckets' = Within(b, ts)
  BY <1>1 DEF Observe, Evicted, BucketsAfter, Filled, BucketFor
<1>6. later \in Nat /\ latest <= later /\ ts <= later
  BY <1>2, <1>3
<1> HIDE DEF b, later, r
<1>7. Shows(b, records', later)
  BY <1>1, <1>3, <1>4, <1>6, FilledShows DEF StatsInv, Shown, b
<1>8. records' \in Seq(Records)
  BY <1>1, <1>3, <1>4
<1>9. Shown'
  <2>1. /\ Shows(Within(b, ts), records', later)
        /\ \A m \in DOMAIN Within(b, ts) : m > Cutoff(ts)
    <3> DEFINE rs == records'
    <3>1. /\ rs \in Seq(Records) /\ Shows(b, rs, later)
          /\ later \in Nat /\ ts \in Nat /\ later <= later /\ ts <= later
      BY <1>2, <1>6, <1>7, <1>8
    <3> HIDE DEF rs
    <3>2. /\ Shows(Within(b, ts), rs, later)
          /\ \A m \in DOMAIN Within(b, ts) : m > Cutoff(ts)
      BY <3>1, EvictedShows
    <3> QED
      BY <3>2 DEF rs
  <2> QED
    BY <1>4, <1>5, <2>1 DEF Shown
<1>10. latencyCounts' \in Counts /\
       \A i \in BinIndexes :
         latencyCounts'[i] = latencyCounts[i] + (IF BinIndex(ms) = i THEN 1 ELSE 0)
  BY <1>2, <1>3, <1>4 DEF Counts
<1>11. Counted'
  <2>1. /\ Cardinality(DOMAIN records') = Cardinality(DOMAIN records) + 1
        /\ \A i : Cardinality(Binned(records', DOMAIN records', i)) =
                    Cardinality(Binned(records, DOMAIN records, i))
                      + (IF BinIndex(ms) = i THEN 1 ELSE 0)
    BY <1>1, <1>3, <1>4, Recorded
  <2> QED
    BY <1>4, <1>10, <2>1 DEF StatsInv, Counted
<1>12. recent' \in Seq(Records) /\ Len(recent') <= RecentMax
  <2>1. RecentMax \in Nat /\ RecentMax > 0
    BY AuditStatsAssumption
  <2>2. all \in Seq(Records) /\ Len(all) = Len(recent) + 1 /\ all # <<>>
    BY <1>1, <1>3
  <2>3. Tail(all) \in Seq(Records) /\ Len(Tail(all)) = Len(all) - 1
    BY <2>2
  <2> HIDE DEF all
  <2> QED
    BY <1>3, <1>4, <2>1, <2>2, <2>3
<1>13. StatsTyped'
  BY <1>2, <1>3, <1>4, <1>6, <1>8, <1>10, <1>12 DEF StatsTyped
<1> QED
  BY <1>9, <1>11, <1>13 DEF StatsInv

LEMMA TimeseriesStep ==
  ASSUME StatsInv, NEW ts \in Times, Timeseries(ts)
  PROVE  StatsInv'
<1> DEFINE later == IF ts > latest THEN ts ELSE latest
<1>1. ts \in Nat /\ latest \in Nat /\ records \in Seq(Records)
  BY AuditStatsAssumption DEF StatsInv, StatsTyped
<1>2. later \in Nat /\ latest <= later /\ ts <= later
  BY <1>1
<1>3. /\ buckets' = Within(buckets, ts) /\ dropped' = ts /\ latest' = later
      /\ UNCHANGED <<requestsTotal, upstreamErrors, latencyCounts, recent, records>>
  BY DEF Timeseries, Evicted
<1> HIDE DEF later
<1>4. Shown'
  BY <1>1, <1>2, <1>3, EvictedShows DEF StatsInv, Shown
<1>5. StatsTyped' /\ Counted'
  BY <1>1, <1>2, <1>3 DEF StatsInv, StatsTyped, Counted
<1> QED
  BY <1>4, <1>5 DEF StatsInv

-----------------------------------------------------------------------------
\* The buckets that are left lie one minute apart, between the window's start
\* at the last reading of the clock and its latest one.
LEMMA BucketsFit ==
  ASSUME StatsInv
  PROVE  /\ IsFiniteSet(DOMAIN buckets)
         /\ Cardinality(DOMAIN buckets) <=
              WindowMinutes + (MinuteOf(latest) - MinuteOf(dropped)) \div MinuteSeconds
<1> DEFINE M == MinuteSeconds
           W == WindowMinutes
           d == dropped \div M
           l == latest \div M
           f == [m \in DOMAIN buckets |-> m \div M]
           I == (d - W + 1)..l
<1>1. M \in Nat /\ M > 0 /\ W \in Nat /\ W > 0
  BY AuditStatsAssumption
<1>2. /\ d \in Nat /\ l \in Nat /\ dropped \in Nat /\ latest \in Nat
      /\ MinuteOf(dropped) = M * d /\ MinuteOf(latest) = M * l
      /\ M * d <= dropped /\ dropped <= latest
  BY MinuteFacts DEF StatsInv, StatsTyped
<1>3. d <= l
  BY <1>1, <1>2
<1>4. (MinuteOf(latest) - MinuteOf(dropped)) \div M = l - d
  <2>1. MinuteOf(latest) - MinuteOf(dropped) = M * (l - d)
    BY <1>1, <1>2
  <2>2. l - d \in Int
    BY <1>2
  <2> HIDE DEF M, l, d
  <2> QED
    BY <1>1, <2>1, <2>2, Multiple
<1>5. \A m \in DOMAIN buckets :
        m \in Nat /\ m % M = 0 /\ m <= MinuteOf(latest) /\ m > Cutoff(dropped)
  BY DEF StatsInv, Shown, Shows
<1> HIDE DEF M, W, l, d
<1>6. ASSUME NEW m \in DOMAIN buckets
      PROVE  m = M * (m \div M) /\ m \div M \in I
  <2>1. m \in Nat /\ m % M = 0 /\ m <= M * l /\ m > dropped - W * M
    BY <1>2, <1>5 DEF Cutoff, M, W
  <2>2. m = M * (m \div M) /\ m \div M \in Int
    BY <1>1, <2>1, Divide
  <2> DEFINE k == m \div M
  <2>3. k \in Int /\ M * k <= M * l /\ M * k > M * d - W * M
    <3>1. W * M \in Nat /\ M * d \in Nat
      BY <1>1, <1>2
    <3> HIDE DEF k
    <3> QED
      BY <1>2, <2>1, <2>2, <3>1 DEF k
  <2> HIDE DEF k
  <2>4. k <= l
    BY <1>1, <1>2, <2>3
  <2>5. k > d - W
    <3>1. M * k > M * (d - W)
      BY <1>1, <1>2, <2>3
    <3> QED
      BY <1>1, <1>2, <2>3, <3>1
  <2>6. k \in I
    BY <1>1, <1>2, <2>3, <2>4, <2>5
  <2> QED
    BY <2>2, <2>6 DEF k
<1>7. f \in Injection(DOMAIN buckets, I)
  <2>1. f \in [DOMAIN buckets -> I]
    BY <1>6
  <2>2. ASSUME NEW a \in DOMAIN buckets, NEW b \in DOMAIN buckets, f[a] = f[b]
        PROVE  a = b
    BY <1>6, <2>2
  <2> QED
    BY <2>1, <2>2 DEF Injection, IsInjective
<1>8. IsFiniteSet(I) /\ Cardinality(I) = W + (l - d)
  BY <1>1, <1>2, <1>3, FS_Interval
<1> HIDE DEF f, I
<1>9. IsFiniteSet(DOMAIN buckets) /\ Cardinality(DOMAIN buckets) <= W + (l - d)
  BY <1>7, <1>8, FS_Injection
<1> QED
  BY <1>4, <1>9 DEF M, W

LEMMA SeriesFollows ==
  ASSUME StatsInv
  PROVE  SeriesExact
<1>1. ASSUME NEW m \in Minutes, m > Cutoff(latest)
      PROVE  /\ m \in DOMAIN buckets
             /\ buckets[m].requests = Cardinality({n \in DOMAIN records : MinuteOf(records[n].ts) = m})
             /\ buckets[m].errors =
                  Cardinality({n \in DOMAIN records : MinuteOf(records[n].ts) = m /\ records[n].error})
  <2>1. m \in DOMAIN buckets
    BY <1>1 DEF StatsInv, Shown, Shows, Minutes
  <2>2. Exact(buckets, records, m)
    BY <1>1, <2>1 DEF StatsInv, Shown, Shows
  <2> QED
    BY <2>1, <2>2 DEF Exact, InMinute, FailedIn
<1> QED
  BY <1>1, BucketsFit DEF SeriesExact, CountRecords

-----------------------------------------------------------------------------
\* Those of the chosen records S that are in bin i or one before it.
AtMost(S, i) == {n \in S : BinIndex(records[n].ms) <= i}

\* The histogram, added up to a bin, counts the records up to that bin.
LEMMA Cumulative ==
  ASSUME records \in Seq(Records), NEW S \in SUBSET DOMAIN records, NEW counts \in Counts,
         \A i \in BinIndexes : counts[i] = Cardinality(Binned(records, S, i))
  PROVE  \A i \in BinIndexes : CumulativeCount(counts, i) = Cardinality(AtMost(S, i))
<1> DEFINE L == Len(LatencyBins)
           Wrong(i) == SumOver(1..i, counts) # Cardinality(AtMost(S, i))
           T == {i \in 0..(L + 1) : Wrong(i)}
<1>1. L \in Nat /\ BinIndexes = 1..(L + 1)
  BY AuditStatsAssumption DEF BinIndexes
<1>2. \A n \in S : BinIndex(records[n].ms) \in BinIndexes
  <2>1. \A n \in DOMAIN records : records[n] \in Records
    OBVIOUS
  <2> QED
    BY <2>1, RecordsAre
<1>3. \A R \in SUBSET S : IsFiniteSet(R) /\ Cardinality(R) \in Nat
  <2>1. S \in SUBSET (1..Len(records)) /\ Len(records) \in Nat
    OBVIOUS
  <2>2. IsFiniteSet(1..Len(records))
    BY <2>1, FS_Interval
  <2> QED
    BY <2>1, <2>2, FS_Subset, FS_CardinalityType
<1>4. \A i : AtMost(S, i) \in SUBSET S /\ Binned(records, S, i) \in SUBSET S
  BY DEF AtMost, Binned
<1>5. \A i \in BinIndexes : counts[i] \in Nat
  BY DEF Counts
<1>6. ~Wrong(0)
  <2>1. AtMost(S, 0) = {} /\ 1..0 = {}
    BY <1>1, <1>2 DEF AtMost
  <2> QED
    BY <2>1, SumEmpty, FS_EmptySet
<1>7. ASSUME NEW i \in 1..(L + 1), ~Wrong(i - 1)
      PROVE  ~Wrong(i)
  <2> DEFINE A == AtMost(S, i - 1)
             B == Binned(records, S, i)
  <2>1. AtMost(S, i) = A \cup B /\ A \cap B = {}
    BY <1>1, <1>2 DEF AtMost, Binned
  <2>2. A \in SUBSET S /\ B \in SUBSET S
    BY <1>4
  <2> HIDE DEF A, B
  <2>3. Cardinality(AtMost(S, i)) = Cardinality(A) + Cardinality(B)
    <3>1. IsFiniteSet(A) /\ IsFiniteSet(B)
          /\ Cardinality(A) \in Nat /\ Cardinality(B) \in Nat
      BY <1>3, <2>2
    <3>2. Cardinality(A \cup B) = Cardinality(A) + Cardinality(B) - Cardinality(A \cap B)
      BY <3>1, FS_Union
    <3>3. Cardinality(A \cap B) = 0
      BY <2>1, FS_EmptySet
    <3> QED
      BY <2>1, <3>1, <3>2, <3>3
  <2> DEFINE R == 1..(i - 1)
  <2>4. /\ 1..i = R \cup {i} /\ i \notin R /\ IsFiniteSet(R) /\ i \in BinIndexes
        /\ \A j \in R \cup {i} : j \in BinIndexes
    <3>1. i \in Nat /\ i >= 1 /\ i <= L + 1
      BY <1>1
    <3>2. IsFiniteSet(R)
      BY <3>1, FS_Interval
    <3>3. 1..i = R \cup {i} /\ i \notin R
      BY <3>1
    <3> QED
      BY <1>1, <3>1, <3>2, <3>3
  <2> HIDE DEF R
  <2>5. SumOver(R \cup {i}, counts) = counts[i] + SumOver(R, counts)
    BY <1>5, <2>4, SumAdd
  <2>6. SumOver(R, counts) = Cardinality(A) /\ counts[i] = Cardinality(B)
    BY <1>7, <2>4 DEF A, B, R
  <2>7. Cardinality(A) \in Nat /\ Cardinality(B) \in Nat
    BY <1>3, <2>2
  <2>8. SumOver(1..i, counts) = Cardinality(AtMost(S, i))
    <3>1. SumOver(1..i, counts) = SumOver(R \cup {i}, counts)
      BY <2>4
    <3>2. SumOver(R \cup {i}, counts) = Cardinality(B) + Cardinality(A)
      BY <2>5, <2>6
    <3> QED
      BY <2>3, <2>7, <3>1, <3>2
  <2> QED
    BY <2>8
<1>8. ASSUME T # {} PROVE FALSE
  <2>1. T \in SUBSET Nat
    BY <1>1
  <2>2. PICK i \in T : \A j \in T : i <= j
    <3> HIDE DEF T
    <3> QED
      BY <1>8, <2>1, LeastNatural
  <2>3. i \in 0..(L + 1) /\ Wrong(i)
    OBVIOUS
  <2>4. i # 0
    BY <1>6, <2>3
  <2>5. i \in 1..(L + 1) /\ i - 1 \in 0..(L + 1)
    BY <1>1, <2>3, <2>4
  <2>6. ~Wrong(i - 1)
    <3>1. i - 1 \notin T
      <4> HIDE DEF T
      <4> QED
        BY <2>2, <2>5
    <3> QED
      BY <2>5, <3>1
  <2> HIDE DEF Wrong
  <2> QED
    BY <1>7, <2>3, <2>5, <2>6
<1>9. ASSUME NEW i \in BinIndexes PROVE ~Wrong(i)
  <2>1. i \in 0..(L + 1) /\ i \notin T
    BY <1>1, <1>8
  <2> QED
    BY <2>1
<1>10. \A i : CumulativeCount(counts, i) = SumOver(1..i, counts)
  BY DEF CumulativeCount, SumOver
<1> QED
  BY <1>9, <1>10

\* What _quantile_from_hist() reads off such a histogram is the percentile by
\* nearest rank: the two look for the same least bin.
LEMMA Ranks ==
  ASSUME records \in Seq(Records), NEW S \in SUBSET DOMAIN records, S # {},
         NEW counts \in Counts,
         \A i \in BinIndexes : counts[i] = Cardinality(Binned(records, S, i)),
         NEW percent \in {50, 95}
  PROVE  Quantile(counts, Cardinality(S), percent) = NearestRank(S, percent)
<1> DEFINE L == Len(LatencyBins)
           total == Cardinality(S)
           rank == (percent * total + 99) \div 100
           C(i) == CumulativeCount(counts, i)
           N(i) == Cardinality(AtMost(S, i))
           First(i) == C(i) >= rank /\ \A j \in 1..(i - 1) : C(j) < rank
           Least(i) == N(i) >= rank /\ \A j \in BinIndexes : j < i => N(j) < rank
           T == {i \in BinIndexes : N(i) >= rank}
<1>1. L \in Nat /\ BinIndexes = 1..(L + 1)
  BY AuditStatsAssumption DEF BinIndexes
<1>2. \A R \in SUBSET S : IsFiniteSet(R) /\ Cardinality(R) \in Nat
  <2>1. S \in SUBSET (1..Len(records)) /\ Len(records) \in Nat
    OBVIOUS
  <2>2. IsFiniteSet(1..Len(records))
    BY <2>1, FS_Interval
  <2> QED
    BY <2>1, <2>2, FS_Subset, FS_CardinalityType
<1>3. total \in Nat /\ total > 0
  BY <1>2, FS_EmptySet
<1>4. rank \in Nat /\ 1 <= rank /\ rank <= total
  <2> HIDE DEF total
  <2>1. CASE percent = 50
    BY <1>3, <2>1
  <2>2. CASE percent = 95
    BY <1>3, <2>2
  <2> QED
    BY <2>1, <2>2
<1>5. \A i \in BinIndexes : C(i) = N(i) /\ N(i) \in Nat
  <2>1. \A i : AtMost(S, i) \in SUBSET S
    BY DEF AtMost
  <2> QED
    BY <1>2, <2>1, Cumulative
<1>6. \A i \in BinIndexes : First(i) <=> Least(i)
  <2> HIDE DEF rank, C, N
  <2> QED
    BY <1>1, <1>5
<1>7. N(L + 1) = total
  <2>1. \A n \in S : BinIndex(records[n].ms) \in BinIndexes
    <3>1. \A n \in DOMAIN records : records[n] \in Records
      OBVIOUS
    <3> QED
      BY <3>1, RecordsAre
  <2>2. AtMost(S, L + 1) = S
    BY <1>1, <2>1 DEF AtMost
  <2> QED
    BY <2>2
<1> HIDE DEF rank, C, N, total
<1>8. L + 1 \in T /\ T \in SUBSET Nat
  BY <1>1, <1>3, <1>4, <1>7
<1>9. PICK i \in T : \A j \in T : i <= j
  <2> HIDE DEF T
  <2> QED
    BY <1>8, LeastNatural
<1>10. i \in BinIndexes /\ Least(i)
  BY <1>1, <1>4, <1>5, <1>9
<1>11. \A k \in BinIndexes : Least(k) => k = i
  BY <1>1, <1>4, <1>5, <1>10
<1> HIDE DEF First, Least, T
<1>12. (CHOOSE k \in BinIndexes : Least(k)) = i
  BY <1>10, <1>11
<1>13. (CHOOSE k \in BinIndexes : First(k)) = i
  BY <1>6, <1>10, <1>11
<1>14. Quantile(counts, total, percent) = Edge(CHOOSE k \in BinIndexes : First(k))
  <2> DEFINE up == (percent * total + 99) \div 100
             target == IF up < 1 THEN 1 ELSE up
  <2>1. Quantile(counts, total, percent) =
          Edge(CHOOSE k \in BinIndexes :
                 /\ CumulativeCount(counts, k) >= target
                 /\ \A j \in 1..(k - 1) : CumulativeCount(counts, j) < target)
    BY <1>3 DEF Quantile
  <2>2. target = rank
    BY <1>4 DEF rank
  <2> HIDE DEF up, target
  <2> QED
    BY <2>1, <2>2 DEF First, C
<1>15. NearestRank(S, percent) = Edge(CHOOSE k \in BinIndexes : Least(k))
  BY DEF NearestRank, Least, N, rank, AtMost, total
<1> QED
  BY <1>12, <1>13, <1>14, <1>15 DEF total

LEMMA PercentilesFollow ==
  ASSUME StatsInv
  PROVE  PercentilesRight
<1>1. records \in Seq(Records) /\ latencyCounts \in Counts /\ Counted
      /\ Shows(buckets, records, latest)
  BY DEF StatsInv, StatsTyped, Shown
<1>2. ASSUME NEW percent \in {50, 95}, records # <<>>
      PROVE  Quantile(latencyCounts, requestsTotal, percent) =
               NearestRank(DOMAIN records, percent)
  <2>1. DOMAIN records # {}
    BY <1>1, <1>2
  <2>2. DOMAIN records \in SUBSET DOMAIN records
    OBVIOUS
  <2>3. Quantile(latencyCounts, Cardinality(DOMAIN records), percent) =
          NearestRank(DOMAIN records, percent)
    BY <1>1, <2>1, <2>2, Ranks DEF Counted
  <2> QED
    BY <1>1, <2>3 DEF Counted
<1>3. ASSUME NEW percent \in {50, 95}, NEW m \in DOMAIN buckets, m > Cutoff(latest)
      PROVE  Quantile(buckets[m].counts, buckets[m].requests, percent) =
               NearestRank({n \in DOMAIN records : MinuteOf(records[n].ts) = m}, percent)
  <2> DEFINE S == InMinute(records, m)
  <2>1. Exact(buckets, records, m) /\ buckets[m] \in Buckets /\ buckets[m].requests > 0
    BY <1>1, <1>3 DEF Shows
  <2>2. S \in SUBSET DOMAIN records
    BY DEF InMinute
  <2>3. /\ buckets[m].requests = Cardinality(S)
        /\ \A i \in BinIndexes : buckets[m].counts[i] = Cardinality(Binned(records, S, i))
    BY <2>1 DEF Exact
  <2> HIDE DEF S
  <2>4. S # {} /\ buckets[m].counts \in Counts
    <3>1. S # {}
      BY <2>1, <2>3, FS_EmptySet
    <3> QED
      BY <2>1, <3>1 DEF Buckets
  <2> DEFINE counts == buckets[m].counts
  <2>5. /\ S \in SUBSET DOMAIN records /\ S # {} /\ counts \in Counts
        /\ records \in Seq(Records) /\ percent \in {50, 95}
        /\ \A i \in BinIndexes : counts[i] = Cardinality(Binned(records, S, i))
    BY <1>1, <2>2, <2>3, <2>4
  <2> HIDE DEF counts
  <2>6. Quantile(counts, Cardinality(S), percent) = NearestRank(S, percent)
    BY <2>5, Ranks
  <2> QED
    BY <2>3, <2>6 DEF S, counts, InMinute
<1> QED
  BY <1>2, <1>3 DEF PercentilesRight

LEMMA TotalsFollow ==
  ASSUME BooksInv
  PROVE  TotalsAddUp /\ BooksAgree
<1>1. TotalsAddUp
  <2>1. totalUsd = SumRows(LAMBDA r : r.usd)
    BY DEF BooksInv, Summed, SumRows, UsdOf
  <2>2. totalRequests = SumRows(LAMBDA r : r.requests)
    BY DEF BooksInv, Summed, SumRows, RequestsOf
  <2>3. unmatched = SumOver({m \in DOMAIN byModel : ~Matched(m)},
                            [m \in DOMAIN byModel |-> byModel[m].requests])
    BY DEF BooksInv, Summed, Unmatched, RequestsOf
  <2>4. ASSUME NEW m \in DOMAIN byModel
        PROVE  LET rows == {p \in DOMAIN PriceTable : IsPrefix(p, m)}
               IN \E best \in rows \cup {<<"no", "row">>} :
                    /\ \A p \in rows : best \in rows /\ Len(p) <= Len(best)
                    /\ byModel[m].usd =
                         IF rows = {} THEN 0
                         ELSE TotalUsd(PriceTable[best], byModel[m].tokens)
    <3> DEFINE rows == {p \in DOMAIN PriceTable : IsPrefix(p, m)}
               best == CHOOSE p \in LookupPrice(m) : TRUE
    <3>1. m \in Models /\ byModel[m].usd = Estimate(m, byModel[m].tokens)
      BY DEF BooksInv, BooksTyped, RowsTyped, Summed
    <3>2. /\ LookupPrice(m) \in SUBSET rows
          /\ rows # {} => Matched(m)
          /\ \A b \in LookupPrice(m) : \A p \in rows : Len(p) <= Len(b)
      BY <3>1, LongestRow
    <3> HIDE DEF rows
    <3>3. CASE rows = {}
      <4>1. ~Matched(m)
        BY <3>2, <3>3 DEF Matched
      <4>2. byModel[m].usd = 0
        BY <3>1, <4>1 DEF Estimate
      <4>3. <<"no", "row">> \in rows \cup {<<"no", "row">>}
        OBVIOUS
      <4> QED
        BY <3>3, <4>2, <4>3 DEF rows
    <3>4. CASE rows # {}
      <4>1. Matched(m)
        BY <3>2, <3>4
      <4>2. best \in LookupPrice(m)
        BY <4>1 DEF Matched
      <4>3. byModel[m].usd = TotalUsd(PriceTable[best], byModel[m].tokens)
        BY <3>1, <4>1 DEF Estimate
      <4> HIDE DEF best
      <4>4. best \in rows /\ \A p \in rows : Len(p) <= Len(best)
        BY <3>2, <4>2
      <4> QED
        BY <3>4, <4>3, <4>4 DEF rows
    <3> QED
      BY <3>3, <3>4
  <2> QED
    BY <2>1, <2>2, <2>3, <2>4 DEF TotalsAddUp
<1>2. BooksAgree
  <2>1. TrackedTokens = SumOver(DOMAIN byModel, SpentOf(byModel))
    BY DEF TrackedTokens, SumRows, SpentOf
  <2> QED
    BY <2>1 DEF BooksInv, Agreed, BooksAgree
<1> QED
  BY <1>1, <1>2

-----------------------------------------------------------------------------
IInv == BooksInv /\ StreamsTyped /\ StatsInv

LEMMA InitInv ==
  ASSUME Init
  PROVE  IInv
<1>1. BooksInv
  <2> DEFINE b == [m \in {} |-> 0]
  <2>1. /\ RowsTyped(b) /\ DOMAIN b = {}
        /\ SumOver(DOMAIN b, UsdOf(b)) = 0 /\ SumOver(DOMAIN b, RequestsOf(b)) = 0
        /\ SumOver(Unmatched(b), RequestsOf(b)) = 0
        /\ SumOver(DOMAIN b, SpentOf(b)) = 0
    BY NothingBooked
  <2>2. /\ byModel = b /\ totalUsd = 0 /\ totalRequests = 0 /\ unmatched = 0
        /\ chars = 0 /\ tokens = 0 /\ apart = FALSE
    BY DEF Init, BooksInit
  <2> HIDE DEF b
  <2>3. BooksTyped
    BY <2>1, <2>2 DEF BooksTyped
  <2>4. Summed
    BY <2>1, <2>2 DEF Summed
  <2>5. Agreed
    BY <2>1, <2>2 DEF Agreed
  <2> QED
    BY <2>3, <2>4, <2>5 DEF BooksInv
<1>2. StreamsTyped
  BY AxisType DEF Init, StreamsTyped
<1>3. StatsInv
  <2>1. /\ requestsTotal = 0 /\ upstreamErrors = 0 /\ latencyCounts = NoCounts
        /\ DOMAIN buckets = {} /\ recent = <<>> /\ records = <<>>
        /\ dropped = 0 /\ latest = 0
    BY DEF Init, StatsInit
  <2>2. StatsTyped
    BY <2>1, AuditStatsAssumption DEF StatsTyped, NoCounts, Counts
  <2>3. DOMAIN records = {}
    BY <2>1
  <2>4. Counted
    <3>1. \A i : Binned(records, DOMAIN records, i) = {}
      BY <2>3 DEF Binned
    <3> QED
      BY <2>1, <2>3, <3>1, FS_EmptySet DEF Counted, NoCounts
  <2>5. Shown
    BY <2>1, <2>3 DEF Shown, Shows
  <2> QED
    BY <2>2, <2>4, <2>5 DEF StatsInv
<1> QED
  BY <1>1, <1>2, <1>3 DEF IInv

\* A finished stream: its charge and its audit record.
LEMMA FinishStep ==
  ASSUME BooksInv, StatsInv, NEW acc \in Accumulators, Finish(acc)
  PROVE  BooksInv' /\ StatsInv'
<1>1. BooksInv'
  BY SettleStep DEF Finish
<1>2. StatsInv'
  BY ObserveStep DEF Finish
<1> QED
  BY <1>1, <1>2

LEMMA BooksKept ==
  ASSUME BooksInv, UNCHANGED <<bookVars, apart>>
  PROVE  BooksInv'
BY DEF BooksInv, BooksTyped, Summed, Agreed, bookVars, trackerVars, budgetVars

LEMMA StatsKept ==
  ASSUME StatsInv, UNCHANGED auditVars
  PROVE  StatsInv'
BY DEF StatsInv, StatsTyped, Counted, Shown, auditVars, statVars

LEMMA StepInv ==
  ASSUME IInv, [Next]_vars
  PROVE  IInv'
<1>1. BooksInv /\ StreamsTyped /\ StatsInv
  BY DEF IInv
<1>2. ASSUME NEW s \in StreamIds, NEW w \in Wires, Open(s, w)
      PROVE  IInv'
  BY <1>1, <1>2, OpenStep, BooksKept, StatsKept DEF IInv, Open
<1>3. ASSUME NEW s \in StreamIds, NEW n \in 1..Len(stream[s].wire), Chunk(s, n)
      PROVE  IInv'
  <2> DEFINE acc == Parsed(s, SubSeq(stream[s].wire, 1, n))
  <2>1. StreamsTyped' /\ acc \in Accumulators
    BY <1>1, <1>3, ChunkStep
  <2>2. CASE acc.failed
    <3>1. Finish(acc)
      BY <1>3, <2>2 DEF Chunk
    <3> HIDE DEF acc
    <3> QED
      BY <1>1, <2>1, <3>1, FinishStep DEF IInv
  <2>3. CASE ~acc.failed
    <3>1. UNCHANGED <<bookVars, auditVars, apart>>
      BY <1>3, <2>3 DEF Chunk
    <3> QED
      BY <1>1, <2>1, <3>1, BooksKept, StatsKept DEF IInv
  <2> QED
    BY <2>2, <2>3
<1>4. ASSUME NEW s \in StreamIds, Close(s)
      PROVE  IInv'
  <2>1. StreamsTyped' /\ stream[s].acc \in Accumulators
    BY <1>1, <1>4, CloseStep
  <2> QED
    BY <1>1, <1>4, <2>1, FinishStep DEF IInv, Close
<1>5. ASSUME NEW ts \in Times, NEW ms \in Latencies, NEW r \in Replies, Reply(r, ts, ms)
      PROVE  IInv'
  <2>1. BooksInv'
    BY <1>1, <1>5, ReplyStep
  <2>2. StatsInv'
    BY <1>1, <1>5, ObserveStep DEF Reply
  <2>3. StreamsTyped'
    BY <1>1, <1>5 DEF Reply, StreamsTyped
  <2> QED
    BY <2>1, <2>2, <2>3 DEF IInv
<1>6. ASSUME NEW ts \in Times, NEW ms \in Latencies, NEW e \in BOOLEAN, Unpriced(ts, ms, e)
      PROVE  IInv'
  <2>1. StatsInv'
    BY <1>1, <1>6, ObserveStep DEF Unpriced
  <2>2. BooksInv' /\ StreamsTyped'
    BY <1>1, <1>6, BooksKept DEF Unpriced, StreamsTyped
  <2> QED
    BY <2>1, <2>2 DEF IInv
<1>7. ASSUME NEW ts \in Times, Look(ts)
      PROVE  IInv'
  <2>1. StatsInv'
    BY <1>1, <1>7, TimeseriesStep DEF Look
  <2>2. BooksInv' /\ StreamsTyped'
    BY <1>1, <1>7, BooksKept DEF Look, StreamsTyped
  <2> QED
    BY <2>1, <2>2 DEF IInv
<1>8. CASE Reset
  <2>1. BooksInv'
    BY <1>1, <1>8, ResetStep
  <2>2. StatsInv' /\ StreamsTyped'
    BY <1>1, <1>8, StatsKept DEF Reset, StreamsTyped
  <2> QED
    BY <2>1, <2>2 DEF IInv
<1>9. CASE UNCHANGED vars
  BY <1>1, <1>9, BooksKept, StatsKept DEF IInv, StreamsTyped, vars
<1> QED
  BY <1>2, <1>3, <1>4, <1>5, <1>6, <1>7, <1>8, <1>9 DEF Next

LEMMA InvTyped ==
  ASSUME IInv
  PROVE  TypeOK
<1>1. \A m \in DOMAIN byModel : byModel[m] \in Row
  BY DEF IInv, BooksInv, BooksTyped, RowsTyped
<1>2. /\ totalUsd \in Nat /\ totalRequests \in Nat /\ unmatched \in Nat
      /\ chars \in Nat /\ tokens \in Nat /\ apart \in BOOLEAN
  BY DEF IInv, BooksInv, BooksTyped
<1>3. \A s \in StreamIds :
        /\ stream[s].pc \in {"idle", "open", "done"}
        /\ stream[s].acc.usage \in UsageType
        /\ NL \notin ToSet(stream[s].acc.buf)
  BY DEF IInv, StreamsTyped, Streams, Accumulators
<1>4. /\ requestsTotal \in Nat /\ upstreamErrors \in Nat /\ dropped \in Nat /\ latest \in Nat
      /\ latencyCounts \in Counts /\ Len(recent) <= RecentMax
  BY DEF IInv, StatsInv, StatsTyped
<1>5. \A m \in DOMAIN buckets : m % MinuteSeconds = 0 /\ buckets[m] \in Buckets
  BY DEF IInv, StatsInv, Shown, Shows
<1> QED
  BY <1>1, <1>2, <1>3, <1>4, <1>5 DEF TypeOK, Row, Buckets, Counts

LEMMA Invariance == Spec => []IInv
BY InitInv, StepInv, PTL DEF Spec

-----------------------------------------------------------------------------
(* Streams, open and settled. *)

\* Every stream that is open has read what has passed.
StreamInv ==
  \A s \in StreamIds :
    stream[s].pc = "open" => HasRead(stream[s].acc, stream[s].passed)

LEMMA StreamInit == Init => StreamInv
BY DEF Init, NoStream, StreamInv

\* The state of a stream that a chunk leaves.
LEMMA ChunkRead ==
  ASSUME StreamsTyped, StreamInv, NEW s \in StreamIds,
         NEW n \in 1..Len(stream[s].wire), Chunk(s, n)
  PROVE  LET acc == Parsed(s, SubSeq(stream[s].wire, 1, n))
             passed == stream[s].passed \o SubSeq(stream[s].wire, 1, n)
         IN /\ acc \in Accumulators /\ passed \in Seq(Bytes)
            /\ stream'[s].acc = acc /\ stream'[s].passed = passed
            /\ stream'[s].pc = IF acc.failed THEN "done" ELSE "open"
            /\ \A t \in StreamIds : t # s => stream'[t] = stream[t]
            /\ Follows(acc, EventsIn(passed), Len(passed))
            /\ acc.buf = Rest(passed)
<1> DEFINE w == stream[s].wire  old == stream[s].passed  was == stream[s].acc
           chunk == SubSeq(w, 1, n)
           acc   == Parsed(s, chunk)
           after == [stream[s] EXCEPT !.wire = SubSeq(w, n + 1, Len(w)),
                                      !.passed = @ \o chunk, !.acc = acc]
           last  == [after EXCEPT !.pc = "done"]
<1>1. stream[s] \in Streams /\ s \in DOMAIN stream /\ stream[s].pc = "open"
  BY DEF StreamsTyped, Chunk
<1>2. w \in Seq(Bytes) /\ old \in Seq(Bytes) /\ was \in Accumulators
  BY <1>1 DEF Streams
<1>3. HasRead(was, old)
  BY <1>1 DEF StreamInv
<1>4. chunk \in Seq(Bytes) /\ old \o chunk \in Seq(Bytes)
  <2>1. w \in Seq(Bytes) /\ n \in 1..Len(w) /\ old \in Seq(Bytes)
    BY <1>2
  <2> HIDE DEF w, old
  <2>2. SubSeq(w, 1, n) \in Seq(Bytes)
    BY <2>1
  <2> HIDE DEF chunk
  <2>3. chunk \in Seq(Bytes)
    BY <2>2 DEF chunk
  <2> QED
    BY <2>1, <2>3
<1>5. acc = Feed(was, chunk)
  BY DEF Parsed
<1>6. IF acc.failed THEN stream' = [stream EXCEPT ![s] = last]
                    ELSE stream' = [stream EXCEPT ![s] = after]
  BY DEF Chunk
<1> HIDE DEF acc, chunk
<1>7. /\ after.acc = acc /\ after.passed = old \o chunk /\ after.pc = "open"
      /\ last.acc = acc /\ last.passed = old \o chunk /\ last.pc = "done"
  BY <1>1 DEF Streams
<1> HIDE DEF after, last
<1>8. /\ stream'[s].acc = acc /\ stream'[s].passed = old \o chunk
      /\ stream'[s].pc = IF acc.failed THEN "done" ELSE "open"
      /\ \A t \in StreamIds : t # s => stream'[t] = stream[t]
  <2>1. stream \in [StreamIds -> Streams]
    BY DEF StreamsTyped
  <2> QED
    BY <1>6, <1>7, <2>1
<1>9. /\ acc \in Accumulators
      /\ acc.buf = Rest(old \o chunk)
      /\ Follows(acc, EventsIn(old \o chunk), Len(old \o chunk))
  <2> HIDE DEF was, old
  <2> QED
    BY <1>2, <1>3, <1>4, <1>5, FeedFollows DEF HasRead
<1> QED
  BY <1>4, <1>8, <1>9 DEF acc, chunk

\* Each step keeps every open stream at what has passed.
LEMMA StreamStep ==
  ASSUME StreamsTyped, StreamInv, [Next]_vars
  PROVE  StreamInv'
<1>1. CASE UNCHANGED stream
  BY <1>1 DEF StreamInv
<1>2. ASSUME NEW s \in StreamIds, NEW w \in Wires, Open(s, w)
      PROVE  StreamInv'
  <2> DEFINE new == [NoStream EXCEPT !.pc = "open", !.wire = w]
  <2>1. new.acc = NewAccumulator /\ new.passed = <<>>
    BY DEF NoStream
  <2>2. stream' = [stream EXCEPT ![s] = new] /\ stream \in [StreamIds -> Streams]
    BY <1>2 DEF Open, StreamsTyped
  <2> HIDE DEF new
  <2>3. \A t \in StreamIds : stream'[t] = IF t = s THEN new ELSE stream[t]
    BY <2>2
  <2> QED
    BY <2>1, <2>3, NothingRead DEF StreamInv
<1>3. ASSUME NEW s \in StreamIds, NEW n \in 1..Len(stream[s].wire), Chunk(s, n)
      PROVE  StreamInv'
  <2> DEFINE acc == Parsed(s, SubSeq(stream[s].wire, 1, n))
             passed == stream[s].passed \o SubSeq(stream[s].wire, 1, n)
  <2>1. /\ stream'[s].acc = acc /\ stream'[s].passed = passed
        /\ stream'[s].pc = IF acc.failed THEN "done" ELSE "open"
        /\ \A t \in StreamIds : t # s => stream'[t] = stream[t]
        /\ Follows(acc, EventsIn(passed), Len(passed))
        /\ acc.buf = Rest(passed)
    BY <1>3, ChunkRead
  <2> HIDE DEF acc, passed
  <2>2. stream'[s].pc = "open" => HasRead(stream'[s].acc, stream'[s].passed)
    BY <2>1 DEF HasRead
  <2> QED
    BY <2>1, <2>2 DEF StreamInv
<1>4. ASSUME NEW s \in StreamIds, Close(s)
      PROVE  StreamInv'
  <2>1. stream' = [stream EXCEPT ![s].pc = "done"] /\ stream \in [StreamIds -> Streams]
    BY <1>4 DEF Close, StreamsTyped
  <2>2. \A t \in StreamIds : t # s => stream'[t] = stream[t]
    BY <2>1
  <2>3. stream'[s].pc = "done"
    BY <2>1 DEF Streams
  <2> QED
    BY <2>2, <2>3 DEF StreamInv
<1> QED
  BY <1>1, <1>2, <1>3, <1>4 DEF Next, Reply, Unpriced, Look, Reset, vars

\* What a charge adds to the rows.
LEMMA Booked ==
  ASSUME RowsTyped(byModel), NEW m \in Models, NEW usage \in UsageType,
         Charge(m, usage, BytesIn)
  PROVE  /\ totalRequests' = totalRequests + 1
         /\ m \in DOMAIN byModel'
         /\ \A a \in Axes : byModel'[m].tokens[a] - TokensOf(m)[a] = usage[a]
<1> DEFINE row == IF m \in DOMAIN byModel THEN byModel[m] ELSE NoRow
           c == RowsAfter(byModel, m, usage)
<1>1. byModel' = c /\ totalRequests' = totalRequests + 1
  BY TrackRows DEF Charge
<1>2. DOMAIN c = DOMAIN byModel \cup {m} /\ c[m] = RowAfter(byModel, m, usage)
  BY RowsAfterTyped
<1>3. /\ row \in Row
      /\ RowAfter(byModel, m, usage).tokens = [a \in Axes |-> row.tokens[a] + usage[a]]
  BY RowAfterType
<1>4. TokensOf(m) = row.tokens
  BY DEF TokensOf, NoRow
<1> HIDE DEF row, c
<1>5. \A a \in Axes : row.tokens[a] \in Nat /\ usage[a] \in Nat
  BY <1>3 DEF Row, UsageType
<1>6. byModel'[m].tokens = [a \in Axes |-> row.tokens[a] + usage[a]]
  BY <1>1, <1>2, <1>3
<1> QED
  BY <1>1, <1>2, <1>4, <1>5, <1>6

\* What BilledForWhatArrived says of a stream that ends.
Settled(passed) ==
  \E events \in {EventsIn(passed)} :
    \E good \in {BeforeFailure(events)} :
      \E due \in {ReferenceUsage(good)} :
        IF \A j \in DOMAIN good : good[j].type # "message_start"
          THEN UNCHANGED bookVars
          ELSE /\ totalRequests' = totalRequests + 1
               /\ \E m \in DOMAIN byModel' : \A a \in Axes :
                    LET added == byModel'[m].tokens[a] - TokensOf(m)[a]
                    IN IF good = events THEN added = due[a] ELSE added >= due[a]

\* A stream that ends is settled for what has passed, failed or not.
LEMMA SettledRight ==
  ASSUME RowsTyped(byModel), NEW acc \in Accumulators, NEW passed \in Seq(Bytes),
         Follows(acc, EventsIn(passed), Len(passed)), Settle(acc)
  PROVE  Settled(passed)
<1> DEFINE events == EventsIn(passed)
           good == BeforeFailure(events)
           due == ReferenceUsage(good)
<1>1. /\ Till(events, Len(passed)) = DOMAIN events
      /\ \A j \in DOMAIN events : j \in Nat /\ IsEvent(events[j])
  BY AllCounted
<1>2. /\ DOMAIN good = {j \in DOMAIN events :
                          \A i \in DOMAIN events : i <= j => ~Raises(events[i])}
      /\ \A j \in DOMAIN good : good[j] = events[j]
      /\ good = [j \in DOMAIN good |-> events[j]]
  <2>1. \A j : Raises(events[j]) <=>
                 Infinite \in {events[j].usage[a] : a \in DOMAIN events[j].usage}
    BY DEF Raises
  <2>2. good = [j \in {j \in DOMAIN events :
                         \A i \in DOMAIN events : i <= j =>
                           ~(Infinite \in {events[i].usage[a] : a \in DOMAIN events[i].usage})}
                  |-> events[j]]
    BY DEF BeforeFailure
  <2> HIDE DEF good, events
  <2> QED
    BY <2>1, <2>2
<1>3. events = [j \in DOMAIN events |-> events[j]]
  <2> DEFINE Ends == {j \in DOMAIN passed : \E i \in 1..j : WholeLine(passed, i, j)
                                         /\ LineOf(passed, i, j) \in DOMAIN Event}
             At(j) == Event[LineOf(passed, CHOOSE i \in 1..j : WholeLine(passed, i, j), j)]
  <2>1. events = [j \in Ends |-> At(j)]
    BY EventsAre
  <2> HIDE DEF events, Ends, At
  <2> QED
    BY <2>1
<1>4. Follows(acc, events, Len(passed))
  OBVIOUS
<1> HIDE DEF events, good
<1>5. /\ HasCounted(acc, events, DOMAIN good)
      /\ good = events => Exactly(acc, events, DOMAIN events)
  <2>1. CASE acc.failed
    <3>1. PICK f \in DOMAIN events : Raises(events[f]) /\ HasCounted(acc, events, Till(events, f - 1))
      BY <1>4, <2>1 DEF Follows
    <3>2. \A j \in DOMAIN events : j <= f - 1 => ~Raises(events[j])
      BY <3>1 DEF HasCounted, Till
    <3>3. DOMAIN good = Till(events, f - 1)
      <4>1. ASSUME NEW j \in DOMAIN good PROVE j \in Till(events, f - 1)
        <5>1. j \in DOMAIN events /\ ~(f <= j)
          BY <1>2, <3>1
        <5> QED
          BY <1>1, <5>1 DEF Till
      <4>2. ASSUME NEW j \in Till(events, f - 1) PROVE j \in DOMAIN good
        <5>1. j \in DOMAIN events /\ j <= f - 1
          BY DEF Till
        <5>2. \A i \in DOMAIN events : i <= j => i <= f - 1
          BY <1>1, <5>1
        <5> QED
          BY <1>2, <3>2, <5>1, <5>2
      <4> QED
        BY <4>1, <4>2
    <3>4. f \notin DOMAIN good
      BY <1>1, <1>2, <3>1
    <3> QED
      BY <3>1, <3>3, <3>4
  <2>2. CASE ~acc.failed
    <3>1. Exactly(acc, events, DOMAIN events)
      BY <1>1, <1>4, <2>2 DEF Follows
    <3>2. DOMAIN good = DOMAIN events
      BY <1>2, <3>1 DEF Exactly, HasCounted
    <3> QED
      BY <3>1, <3>2 DEF Exactly
  <2> QED
    BY <2>1, <2>2
<1>6. HasCounted(acc, good, DOMAIN good)
  BY <1>2, <1>5, Zenon DEF HasCounted
<1>7. \A j \in DOMAIN good : IsEvent(good[j])
  BY <1>1, <1>2
<1>8. /\ \A a \in Axes : due[a] \in Nat /\ due[a] <= acc.usage[a]
      /\ good = events => due = acc.usage
  BY <1>5, <1>6, <1>7, Referenced
<1>9. acc.started <=> \E j \in DOMAIN good : good[j].type = "message_start"
  BY <1>6 DEF HasCounted, Begins
<1> HIDE DEF due
<1> DEFINE Said ==
      IF \A j \in DOMAIN good : good[j].type # "message_start"
        THEN UNCHANGED bookVars
        ELSE /\ totalRequests' = totalRequests + 1
             /\ \E m \in DOMAIN byModel' : \A a \in Axes :
                  LET added == byModel'[m].tokens[a] - TokensOf(m)[a]
                  IN IF good = events THEN added = due[a] ELSE added >= due[a]
<1>10. Said
  <2>1. CASE acc.started
    <3> DEFINE m == ModelOf(acc)
    <3>1. m \in Models /\ acc.usage \in UsageType
      BY BooksAssumption DEF ModelOf, Accumulators, Models
    <3>2. Charge(m, acc.usage, BytesIn)
      BY <2>1 DEF Settle
    <3> HIDE DEF m
    <3>3. /\ totalRequests' = totalRequests + 1
          /\ m \in DOMAIN byModel'
          /\ \A a \in Axes : byModel'[m].tokens[a] - TokensOf(m)[a] = acc.usage[a]
      BY <3>1, <3>2, Booked
    <3>4. \A a \in Axes : acc.usage[a] \in Nat
      BY <3>1 DEF UsageType
    <3>5. \A a \in Axes : IF good = events THEN acc.usage[a] = due[a] ELSE acc.usage[a] >= due[a]
      BY <1>8, <3>4
    <3> QED
      BY <1>9, <2>1, <3>3, <3>5
  <2>2. CASE ~acc.started
    BY <1>9, <2>2 DEF Settle
  <2> QED
    BY <2>1, <2>2
<1> QED
  BY <1>10 DEF Settled, due, good, events

\* Only a chunk that fails and Close() end a stream, and both settle it.
LEMMA EndsSettled ==
  ASSUME IInv, StreamInv, [Next]_vars, NEW s \in StreamIds, Finishes(s)
  PROVE  Settled(stream'[s].passed)
<1>1. StreamsTyped /\ RowsTyped(byModel)
  BY DEF IInv, BooksInv, BooksTyped
<1>2. stream[s].pc = "open" /\ stream'[s].pc = "done"
  BY DEF Finishes
<1>3. CASE UNCHANGED stream
  BY <1>2, <1>3
<1>4. ASSUME NEW t \in StreamIds, NEW w \in Wires, Open(t, w)
      PROVE  FALSE
  <2>1. t # s /\ stream' = [stream EXCEPT ![t] = [NoStream EXCEPT !.pc = "open", !.wire = w]]
    BY <1>2, <1>4 DEF Open
  <2>2. stream'[s] = stream[s]
    BY <1>1, <2>1 DEF StreamsTyped
  <2> QED
    BY <1>2, <2>2
<1>5. ASSUME NEW t \in StreamIds, NEW n \in 1..Len(stream[t].wire), Chunk(t, n)
      PROVE  Settled(stream'[s].passed)
  <2> DEFINE acc == Parsed(t, SubSeq(stream[t].wire, 1, n))
             passed == stream[t].passed \o SubSeq(stream[t].wire, 1, n)
  <2>1. /\ acc \in Accumulators /\ passed \in Seq(Bytes)
        /\ stream'[t].passed = passed
        /\ stream'[t].pc = IF acc.failed THEN "done" ELSE "open"
        /\ \A u \in StreamIds : u # t => stream'[u] = stream[u]
        /\ Follows(acc, EventsIn(passed), Len(passed))
    BY <1>1, <1>5, ChunkRead
  <2>2. acc.failed => Finish(acc)
    BY <1>5 DEF Chunk
  <2> HIDE DEF acc, passed
  <2>3. s = t /\ acc.failed
    BY <1>2, <2>1
  <2>4. Settle(acc)
    BY <2>2, <2>3 DEF Finish
  <2>5. Settled(passed)
    BY <1>1, <2>1, <2>4, SettledRight
  <2> QED
    BY <2>1, <2>3, <2>5
<1>6. ASSUME NEW t \in StreamIds, Close(t)
      PROVE  Settled(stream'[s].passed)
  <2>1. stream' = [stream EXCEPT ![t].pc = "done"] /\ stream \in [StreamIds -> Streams]
    BY <1>1, <1>6 DEF Close, StreamsTyped
  <2>2. s = t
    BY <1>2, <2>1
  <2>3. stream'[s].passed = stream[s].passed /\ stream[s] \in Streams
    BY <2>1 DEF Streams
  <2> DEFINE acc == stream[s].acc  passed == stream[s].passed
  <2>4. acc \in Accumulators /\ passed \in Seq(Bytes)
    BY <2>3 DEF Streams
  <2>5. Follows(acc, EventsIn(passed), Len(passed))
    BY <1>2 DEF StreamInv, HasRead
  <2>6. Settle(acc)
    BY <1>6, <2>2 DEF Close, Finish
  <2> HIDE DEF acc, passed
  <2>7. Settled(passed)
    BY <1>1, <2>4, <2>5, <2>6, SettledRight
  <2> QED
    BY <2>3, <2>7 DEF passed
<1> QED
  BY <1>3, <1>4, <1>5, <1>6 DEF Next, Reply, Unpriced, Look, Reset, vars

LEMMA StreamInvariance == Spec => []StreamInv
<1>1. IInv => StreamsTyped
  BY DEF IInv
<1>2. IInv /\ StreamInv /\ [Next]_vars => StreamInv'
  BY <1>1, StreamStep
<1> QED
  BY <1>2, StreamInit, Invariance, PTL DEF Spec

-----------------------------------------------------------------------------
\* For any prices, events, bins and clocks, the books and statistics keep their
\* types; no buffered piece of a stream holds a newline, each bucket starts on
\* a minute, and no more recent requests are kept than configured.
THEOREM BooksAreTyped == Spec => []TypeOK
BY Invariance, InvTyped, PTL

\* GET /cost adds up after any sequence of charges and resets: the totals are
\* the sums of the rows, and each row costs what its tokens cost at the price of
\* the longest matching prefix.
THEOREM TotalsAlwaysAddUp == Spec => []TotalsAddUp
<1>1. IInv => TotalsAddUp
  BY TotalsFollow DEF IInv
<1> QED
  BY <1>1, Invariance, PTL

\* The budget never holds more tokens than the rows do, and the same until it is
\* reset alone.
THEOREM BooksAlwaysAgree == Spec => []BooksAgree
<1>1. IInv => BooksAgree
  BY TotalsFollow DEF IInv
<1> QED
  BY <1>1, Invariance, PTL

\* However the clock steps, a minute inside the window is shown with exactly its
\* requests and errors, and the number of buckets is bounded by the window and
\* by how far the clock is behind its latest reading.
THEOREM SeriesAlwaysExact == Spec => []SeriesExact
<1>1. IInv => SeriesExact
  BY SeriesFollows DEF IInv
<1> QED
  BY <1>1, Invariance, PTL

\* p50 and p95 of the histogram are the nearest-rank percentiles of the recorded
\* latencies, for all requests and for those of each minute in the window.
THEOREM PercentilesAlwaysRight == Spec => []PercentilesRight
<1>1. IInv => PercentilesRight
  BY PercentilesFollow DEF IInv
<1> QED
  BY <1>1, Invariance, PTL

\* However the bytes of a stream are cut into chunks, as long as it is open its
\* accumulator holds what the complete lines among them say: the largest value
\* of each axis, whether it has begun, and the last model named.
THEOREM ChunksNeverMatter == Spec => []ChunksDoNotMatter
<1>1. IInv /\ StreamInv => ChunksDoNotMatter
  <2> SUFFICES ASSUME IInv, StreamInv PROVE ChunksDoNotMatter
    OBVIOUS
  <2>1. ASSUME NEW s \in StreamIds, stream[s].pc = "open"
        PROVE  /\ stream[s].acc \in Accumulators /\ stream[s].passed \in Seq(Bytes)
               /\ HasRead(stream[s].acc, stream[s].passed)
    BY <2>1 DEF IInv, StreamsTyped, Streams, StreamInv
  <2> QED
    BY <2>1, ReadAsWhole DEF ChunksDoNotMatter
<1> QED
  BY <1>1, Invariance, StreamInvariance, PTL

\* A stream that ends is charged, once, for the largest values the client has
\* been sent, or for nothing when its message_start never arrived; one that
\* broke the parser is charged for no less than came before that.
THEOREM AlwaysBilled == Spec => BilledForWhatArrived
<1>1. IInv /\ StreamInv /\ [Next]_vars =>
        [\A s \in StreamIds : Finishes(s) => Settled(stream[s]'.passed)]_vars
  BY EndsSettled
<1>2. [][\A s \in StreamIds : Finishes(s) => Settled(stream[s]'.passed)]_vars
        <=> BilledForWhatArrived
  BY DEF Settled, BilledForWhatArrived
<1> QED
  BY <1>1, <1>2, Invariance, StreamInvariance, PTL DEF Spec
=============================================================================
