------------------------ MODULE SemanticCacheProofs ------------------------
(***************************************************************************)
(* What the semantic cache keeps and serves, for any texts, cosines,       *)
(* threshold and capacity.                                                 *)
(***************************************************************************)
EXTENDS SemanticCache, SequenceLemmas

-----------------------------------------------------------------------------
\* No two points have one id.  NewestOnly rests on it: a put takes one point
\* out, and a second of the same id would keep its old answer.
Distinct ==
  \A i, j \in 1..Len(points) : points[i].text = points[j].text => i = j

IInv == points \in Seq(Point) /\ Distinct /\ NewestOnly

LEMMA PointParts ==
  ASSUME points \in Seq(Point), NEW i \in DOMAIN points
  PROVE  /\ DOMAIN points = 1..Len(points) /\ Len(points) \in Nat
         /\ points[i] \in Point
         /\ points[i].text \in Texts /\ points[i].text \in StoredTexts
<1>1. DOMAIN points = 1..Len(points) /\ Len(points) \in Nat
  BY LenProperties
<1>2. points[i] \in Point
  BY <1>1, ElementOfSeq
<1> QED
  BY <1>1, <1>2 DEF Point, StoredTexts

\* What is left when an id is taken out: other points, still distinct.
LEMMA WithoutParts ==
  ASSUME points \in Seq(Point), Distinct, NEW t
  PROVE  /\ Without(t) \in Seq(Point) /\ Len(Without(t)) <= Len(points)
         /\ \A i \in 1..Len(Without(t)) :
              /\ Without(t)[i].text # t
              /\ \E j \in 1..Len(points) : Without(t)[i] = points[j]
         /\ \A i, j \in 1..Len(Without(t)) :
              Without(t)[i].text = Without(t)[j].text => i = j
<1>0. DOMAIN points = 1..Len(points) /\ Len(points) \in Nat
  BY LenProperties
<1>1. CASE t \notin StoredTexts
  BY <1>0, <1>1 DEF Without, StoredTexts, Distinct
<1>2. CASE t \in StoredTexts
  <2> DEFINE n == CHOOSE i \in DOMAIN points : points[i].text = t
  <2>1. n \in 1..Len(points) /\ points[n].text = t
    BY <1>0, <1>2 DEF StoredTexts
  <2>2. Without(t) = RemoveAt(points, n)
    BY <1>2 DEF Without
  <2> HIDE DEF n
  <2>3. /\ Without(t) \in Seq(Point)
        /\ Len(Without(t)) = Len(points) - 1
        /\ \A i \in 1..(Len(points) - 1) :
             Without(t)[i] = IF i < n THEN points[i] ELSE points[i + 1]
    BY <2>1, <2>2, RemoveAtShape
  <2> DEFINE From(i) == IF i < n THEN i ELSE i + 1
  <2>4. ASSUME NEW i \in 1..(Len(points) - 1)
        PROVE  /\ From(i) \in 1..Len(points) /\ From(i) # n
               /\ Without(t)[i] = points[From(i)]
    BY <1>0, <2>1, <2>3
  <2>5. ASSUME NEW i \in 1..(Len(points) - 1), NEW j \in 1..(Len(points) - 1),
               From(i) = From(j)
        PROVE  i = j
    BY <1>0, <2>1, <2>5
  <2> HIDE DEF From
  <2> QED
    BY <1>0, <2>1, <2>3, <2>4, <2>5 DEF Distinct
<1> QED
  BY <1>1, <1>2

\* An id put back behind the others leaves the points distinct.
LEMMA Reappended ==
  ASSUME points \in Seq(Point), Distinct, NEW p \in Point,
         points' = Append(Without(p.text), p)
  PROVE  /\ points' \in Seq(Point) /\ Distinct'
         /\ Len(points') = Len(Without(p.text)) + 1
         /\ \A i \in 1..Len(points') :
              \/ points'[i] = p /\ i = Len(points')
              \/ /\ points'[i].text # p.text
                 /\ \E j \in 1..Len(points) : points'[i] = points[j]
<1> DEFINE w == Without(p.text)
<1>1. /\ w \in Seq(Point) /\ Len(w) \in Nat
      /\ \A i \in 1..Len(w) : w[i].text # p.text /\ \E j \in 1..Len(points) : w[i] = points[j]
      /\ \A i, j \in 1..Len(w) : w[i].text = w[j].text => i = j
  BY WithoutParts, LenProperties
<1>2. points' = Append(w, p)
  OBVIOUS
<1> HIDE DEF w
<1>3. /\ points' \in Seq(Point)
      /\ Len(points') = Len(w) + 1
      /\ \A i \in 1..Len(w) : points'[i] = w[i]
      /\ points'[Len(w) + 1] = p
  BY <1>1, <1>2, AppendProperties
<1>4. \A i \in 1..Len(points') : i \in 1..Len(w) \/ i = Len(w) + 1
  BY <1>1, <1>3
<1>5. Distinct'
  BY <1>1, <1>3, <1>4 DEF Distinct
<1> QED
  BY <1>1, <1>3, <1>4, <1>5 DEF w

LEMMA CosineParts ==
  ASSUME NEW s \in Texts, NEW t \in Texts
  PROVE  Cosine[s][t] \in Int /\ Cosine[s][t] <= 100
<1>1. Cosine[s] \in [Texts -> -100..100]
  BY SemanticCacheAssumption
<1>2. Cosine[s][t] \in -100..100
  BY <1>1
<1> QED
  BY <1>2

\* A search finds a nearest point, whatever the cosines are.
LEMMA TopFound ==
  ASSUME points \in Seq(Point), points # <<>>, NEW t \in Texts
  PROVE  /\ Top(t) \in 1..Len(points)
         /\ \A s \in StoredTexts : Cosine[t][s] <= Cosine[t][points[Top(t)].text]
<1>0. /\ DOMAIN points = 1..Len(points) /\ Len(points) \in Nat /\ Len(points) > 0
  BY LenProperties, EmptySeq
<1> DEFINE Far(i) == 100 - Cosine[t][points[i].text]
           all == {Far(i) : i \in 1..Len(points)}
<1>1. ASSUME NEW i \in 1..Len(points)
      PROVE  /\ Cosine[t][points[i].text] \in Int
             /\ Cosine[t][points[i].text] <= 100
             /\ Far(i) \in Nat
  <2>1. points[i].text \in Texts
    BY <1>0, PointParts
  <2>2. Cosine[t][points[i].text] \in Int /\ Cosine[t][points[i].text] <= 100
    BY <2>1, CosineParts
  <2> QED
    BY <2>2
<1>2. all \in SUBSET Nat /\ all # {}
  <2>1. Far(1) \in all
    BY <1>0
  <2> HIDE DEF Far
  <2> QED
    BY <1>1, <2>1
<1>3. PICK least \in all : \A y \in all : least <= y
  <2> HIDE DEF all
  <2> QED
    BY <1>2, LeastNatural
<1> DEFINE best == {i \in 1..Len(points) : Far(i) = least}
<1>4. best \in SUBSET Nat /\ best # {}
  BY <1>0, <1>3
<1>5. PICK n \in best : \A y \in best : n <= y
  <2> HIDE DEF best
  <2> QED
    BY <1>4, LeastNatural
<1>6. ASSUME NEW j \in 1..Len(points)
      PROVE  \/ Cosine[t][points[n].text] > Cosine[t][points[j].text]
             \/ Cosine[t][points[n].text] = Cosine[t][points[j].text] /\ n <= j
  <2>1. Far(n) = least /\ least <= Far(j) /\ n \in 1..Len(points)
    BY <1>3, <1>5
  <2> DEFINE x == Cosine[t][points[n].text]
             y == Cosine[t][points[j].text]
  <2>2. x \in Int /\ y \in Int
    BY <1>1, <2>1
  <2>3. 100 - x <= 100 - y
    BY <2>1
  <2>4. 100 - y = 100 - x => n <= j
    <3>1. ASSUME Far(j) = least PROVE n <= j
      <4>1. j \in best
        BY <3>1
      <4> QED
        BY <1>5, <4>1
    <3> QED
      BY <2>1, <3>1
  <2> HIDE DEF x, y
  <2>5. x > y \/ (x = y /\ n <= j)
    BY <2>2, <2>3, <2>4
  <2> QED
    BY <2>5 DEF x, y
<1>7. /\ Top(t) \in 1..Len(points)
      /\ \A j \in 1..Len(points) :
           \/ Cosine[t][points[Top(t)].text] > Cosine[t][points[j].text]
           \/ Cosine[t][points[Top(t)].text] = Cosine[t][points[j].text] /\ Top(t) <= j
  <2>1. n \in DOMAIN points
    BY <1>0, <1>5
  <2> HIDE DEF best, Far, all
  <2> QED
    BY <1>0, <1>6, <2>1 DEF Top
<1>8. \A j \in 1..Len(points) : Cosine[t][points[j].text] <= Cosine[t][points[Top(t)].text]
  <2> SUFFICES ASSUME NEW j \in 1..Len(points)
               PROVE  Cosine[t][points[j].text] <= Cosine[t][points[Top(t)].text]
    OBVIOUS
  <2> DEFINE x == Cosine[t][points[Top(t)].text]
             y == Cosine[t][points[j].text]
  <2>1. x \in Int /\ y \in Int
    BY <1>1, <1>7
  <2>2. x > y \/ x = y
    BY <1>7
  <2> HIDE DEF x, y
  <2>3. y <= x
    BY <2>1, <2>2
  <2> QED
    BY <2>3 DEF x, y
<1> QED
  BY <1>0, <1>7, <1>8 DEF StoredTexts

-----------------------------------------------------------------------------
LEMMA StepIInv == IInv /\ [Next]_vars => IInv'
<1> SUFFICES ASSUME IInv, [Next]_vars PROVE IInv'
  OBVIOUS
<1>0. /\ points \in Seq(Point) /\ Distinct /\ NewestOnly
      /\ DOMAIN points = 1..Len(points) /\ Len(points) \in Nat
  BY LenProperties DEF IInv
<1>1. CASE UNCHANGED <<points, lastPut>>
  BY <1>0, <1>1 DEF IInv, Distinct, NewestOnly
<1>2. ASSUME NEW t \in Texts, Lookup(t) PROVE IInv'
  <2>1. CASE points = <<>>
    BY <1>1, <1>2, <2>1 DEF Lookup
  <2>2. CASE points # <<>>
    <3> DEFINE p == points[Top(t)]
    <3>1. Top(t) \in 1..Len(points)
      BY <1>0, <2>2, TopFound
    <3>2. p \in Point
      BY <1>0, <3>1, PointParts
    <3>3. points' = Append(Without(p.text), p) /\ lastPut' = lastPut
      BY <1>2, <2>2 DEF Lookup, Promote
    <3>4. \A i \in DOMAIN points : /\ points[i].text \in DOMAIN lastPut
                                   /\ points[i].response = lastPut[points[i].text]
      BY <1>0 DEF NewestOnly
    <3>5. p.text \in DOMAIN lastPut /\ p.response = lastPut[p.text]
      <4>1. Top(t) \in DOMAIN points
        BY <1>0, <3>1
      <4> QED
        BY <3>4, <4>1
    <3> HIDE DEF p
    <3>6. /\ points' \in Seq(Point) /\ Distinct'
          /\ \A i \in 1..Len(points') :
               points'[i] = p \/ \E j \in 1..Len(points) : points'[i] = points[j]
      BY <1>0, <3>2, <3>3, Reappended
    <3>7. DOMAIN points' = 1..Len(points')
      BY <3>6, LenProperties
    <3>8. NewestOnly'
      <4>1. ASSUME NEW i \in DOMAIN points'
            PROVE  /\ points'[i].text \in DOMAIN lastPut
                   /\ points'[i].response = lastPut[points'[i].text]
        <5>1. CASE points'[i] = p
          BY <3>5, <5>1
        <5>2. CASE points'[i] # p
          <6>1. PICK j \in 1..Len(points) : points'[i] = points[j]
            BY <3>6, <3>7, <4>1, <5>2
          <6>2. j \in DOMAIN points
            BY <1>0
          <6> QED
            BY <3>4, <6>1, <6>2
        <5> QED
          BY <5>1, <5>2
      <4> QED
        BY <3>3, <4>1 DEF NewestOnly
    <3> QED
      BY <3>6, <3>8 DEF IInv
  <2> QED
    BY <2>1, <2>2
<1>3. ASSUME NEW t \in Texts, NEW r \in Responses, Put(t, r) PROVE IInv'
  <2> DEFINE p == [text |-> t, response |-> r]
             q == Append(Without(t), p)
  <2>1. p \in Point /\ p.text = t /\ p.response = r
    BY DEF Point
  <2>2. /\ points' = IF Len(q) > MaxEntries THEN Tail(q) ELSE q
        /\ lastPut' = [u \in DOMAIN lastPut \cup {t} |-> IF u = t THEN r ELSE lastPut[u]]
    BY <1>3 DEF Put, Upsert
  <2> HIDE DEF p
  <2>3. /\ Without(t) \in Seq(Point) /\ Len(Without(t)) \in Nat
        /\ \A i \in 1..Len(Without(t)) :
             Without(t)[i].text # t /\ \E j \in 1..Len(points) : Without(t)[i] = points[j]
        /\ \A i, j \in 1..Len(Without(t)) :
             Without(t)[i].text = Without(t)[j].text => i = j
    BY <1>0, WithoutParts, LenProperties
  <2>4. /\ q \in Seq(Point) /\ Len(q) = Len(Without(t)) + 1
        /\ \A i \in 1..Len(Without(t)) : q[i] = Without(t)[i]
        /\ q[Len(Without(t)) + 1] = p
    BY <2>1, <2>3, AppendProperties
  <2> HIDE DEF q
  <2>5. \A i \in 1..Len(q) : i \in 1..Len(Without(t)) \/ i = Len(Without(t)) + 1
    BY <2>3, <2>4
  <2>6. \A i, j \in 1..Len(q) : q[i].text = q[j].text => i = j
    BY <2>1, <2>3, <2>4, <2>5
  <2>7. ASSUME NEW i \in 1..Len(q)
        PROVE  q[i].text \in DOMAIN lastPut' /\ q[i].response = lastPut'[q[i].text]
    <3>1. CASE i = Len(Without(t)) + 1
      BY <2>1, <2>2, <2>4, <3>1
    <3>2. CASE i \in 1..Len(Without(t))
      <4>1. PICK j \in 1..Len(points) : q[i] = points[j]
        BY <2>3, <2>4, <3>2
      <4>2. q[i].text # t
        BY <2>3, <2>4, <3>2
      <4>3. points[j].text \in DOMAIN lastPut /\ points[j].response = lastPut[points[j].text]
        BY <1>0 DEF NewestOnly
      <4> QED
        BY <2>2, <4>1, <4>2, <4>3
    <3> QED
      BY <2>5, <3>1, <3>2
  <2>8. CASE points' = q
    <3>1. DOMAIN points' = 1..Len(points')
      BY <2>4, <2>8, LenProperties
    <3> QED
      BY <2>4, <2>6, <2>7, <2>8, <3>1 DEF IInv, Distinct, NewestOnly
  <2>9. CASE points' = Tail(q)
    <3>1. q # <<>>
      BY <2>3, <2>4
    <3>2. /\ points' \in Seq(Point) /\ Len(points') = Len(q) - 1
          /\ \A i \in 1..Len(points') : points'[i] = q[i + 1]
      BY <2>4, <2>9, <3>1, HeadTailProperties
    <3>3. DOMAIN points' = 1..Len(points') /\ Len(q) \in Nat
      BY <2>4, <3>2, LenProperties
    <3>4. \A i \in 1..Len(points') : i + 1 \in 1..Len(q)
      BY <3>2, <3>3
    <3>5. Distinct'
      BY <2>6, <3>2, <3>3, <3>4 DEF Distinct
    <3>6. NewestOnly'
      BY <2>7, <3>2, <3>3, <3>4 DEF NewestOnly
    <3> QED
      BY <3>2, <3>5, <3>6 DEF IInv
  <2> QED
    BY <2>2, <2>8, <2>9
<1>4. CASE Clear
  <2>1. points' = <<>>
    BY <1>4 DEF Clear, Emptied
  <2>2. points' \in Seq(Point) /\ Len(points') = 0 /\ DOMAIN points' = {}
    BY <2>1, EmptySeq, LenProperties
  <2> QED
    BY <2>2 DEF IInv, Distinct, NewestOnly
<1>5. CASE LookupOff \/ LookupFails \/ Toggle \/ UNCHANGED vars
  BY <1>1, <1>5 DEF LookupOff, LookupFails, Toggle, vars
<1> QED
  BY <1>2, <1>3, <1>4, <1>5 DEF Next

LEMMA InitIInv == Init => IInv
<1> SUFFICES ASSUME Init PROVE IInv
  OBVIOUS
<1>1. points \in Seq(Point) /\ Len(points) = 0 /\ DOMAIN points = {}
  BY EmptySeq, LenProperties DEF Init
<1> QED
  BY <1>1 DEF IInv, Distinct, NewestOnly

\* A point of the store holds the answer last put for its text since the last
\* purge, for any capacity, cosines and sequence of calls (upsert() and
\* search(), vector_stores.py:67-107).
THEOREM NewestKept == Spec => []NewestOnly
<1>1. IInv => NewestOnly
  BY DEF IInv
<1> QED
  BY <1>1, InitIInv, StepIInv, PTL DEF Spec

\* What get_similar() serves is near enough, is stored before and after the
\* call, and is nearest; what it misses has no near neighbour in the store
\* (l2.py:138-174).
THEOREM NearestServed == Spec => ServesNearest
<1> DEFINE Nearest(t) ==
      LET p == reply'.hit
      IN IF p = None
           THEN \A s \in StoredTexts : Cosine[t][s] < Threshold
           ELSE /\ Cosine[t][p.text] >= Threshold
                /\ p \in ToSet(points) \cap ToSet(points')
                /\ \A s \in StoredTexts : Cosine[t][s] <= Cosine[t][p.text]
<1>1. ASSUME IInv, NEW t \in Texts, Lookup(t) PROVE Nearest(t)
  <2>0. /\ points \in Seq(Point) /\ Distinct
        /\ DOMAIN points = 1..Len(points) /\ Len(points) \in Nat
    BY <1>1, LenProperties DEF IInv
  <2>1. CASE points = <<>>
    <3>1. StoredTexts = {} /\ reply'.hit = None
      BY <1>1, <2>1 DEF Lookup, StoredTexts
    <3> QED
      BY <3>1
  <2>2. CASE points # <<>>
    <3> DEFINE p == points[Top(t)]
    <3>1. /\ Top(t) \in 1..Len(points)
          /\ \A s \in StoredTexts : Cosine[t][s] <= Cosine[t][p.text]
      BY <2>0, <2>2, TopFound
    <3>2. p \in Point /\ p.text \in StoredTexts /\ p.text \in Texts
      BY <2>0, <3>1, PointParts
    <3>3. points' = Append(Without(p.text), p)
      BY <1>1, <2>2 DEF Lookup, Promote
    <3>4. reply'.hit = IF NearEnough(t, p) THEN p ELSE None
      BY <1>1, <2>2 DEF Lookup
    <3>5. p # None
      BY <3>2, SemanticCacheAssumption DEF Point
    <3>6. p \in ToSet(points)
      BY <2>0, <3>1 DEF ToSet
    <3> HIDE DEF p
    <3>7. p \in ToSet(points')
      <4>1. Without(p.text) \in Seq(Point) /\ Len(Without(p.text)) \in Nat
        BY <2>0, WithoutParts, LenProperties
      <4>2. /\ points' \in Seq(Point) /\ Len(points') = Len(Without(p.text)) + 1
            /\ points'[Len(points')] = p
        BY <3>2, <3>3, <4>1, AppendProperties
      <4>3. Len(points') \in DOMAIN points'
        BY <4>1, <4>2, LenProperties
      <4> QED
        BY <4>2, <4>3 DEF ToSet
    <3>8. \A s \in StoredTexts : s \in Texts
      BY <2>0, PointParts DEF StoredTexts
    <3>9. CASE NearEnough(t, p)
      BY <3>1, <3>4, <3>5, <3>6, <3>7, <3>9 DEF NearEnough
    <3>10. CASE ~NearEnough(t, p)
      <4>1. \A s \in StoredTexts : Cosine[t][s] \in Int /\ Cosine[t][p.text] \in Int
        BY <3>2, <3>8, CosineParts
      <4>2. \A s \in StoredTexts : Cosine[t][s] < Threshold
        BY <3>1, <3>10, <4>1, SemanticCacheAssumption DEF NearEnough
      <4> QED
        BY <3>4, <3>10, <4>2
    <3> QED
      BY <3>9, <3>10
  <2> QED
    BY <2>1, <2>2
<1>2. IInv => [\A t \in Texts : Lookup(t) => Nearest(t)]_vars
  BY <1>1
<1> QED
  BY <1>2, InitIInv, StepIInv, PTL DEF Spec, ServesNearest

-----------------------------------------------------------------------------
\* The points in their order are an LRU store of texts.
TextsOf(s) == [i \in DOMAIN s |-> s[i].text]

Order == TextsOf(points)

LEMMA TextsOfParts ==
  ASSUME NEW s \in Seq(Point)
  PROVE  /\ TextsOf(s) \in Seq(Texts) /\ Len(TextsOf(s)) = Len(s)
         /\ \A i \in 1..Len(s) : TextsOf(s)[i] = s[i].text
<1>1. Len(s) \in Nat /\ DOMAIN s = 1..Len(s) /\ \A i \in 1..Len(s) : s[i] \in Point
  BY LenProperties, ElementOfSeq
<1>2. TextsOf(s) = [i \in 1..Len(s) |-> s[i].text]
  BY <1>1 DEF TextsOf
<1>3. \A i \in 1..Len(s) : s[i].text \in Texts
  BY <1>1 DEF Point
<1> QED
  BY <1>1, <1>2, <1>3

\* Taking the keys commutes with what a store does to its entries.
LEMMA TextsOfCommutes ==
  ASSUME NEW s \in Seq(Point)
  PROVE  /\ \A n \in 1..Len(s) : TextsOf(RemoveAt(s, n)) = RemoveAt(TextsOf(s), n)
         /\ \A e \in Point : TextsOf(Append(s, e)) = Append(TextsOf(s), e.text)
         /\ s # <<>> => TextsOf(Tail(s)) = Tail(TextsOf(s))
<1> DEFINE k == TextsOf(s)
<1>1. /\ k \in Seq(Texts) /\ Len(k) = Len(s) /\ Len(s) \in Nat
      /\ \A i \in 1..Len(s) : k[i] = s[i].text
  <2>1. Len(s) \in Nat
    BY LenProperties
  <2>2. /\ k \in Seq(Texts) /\ Len(k) = Len(s)
        /\ \A i \in 1..Len(s) : k[i] = s[i].text
    BY TextsOfParts
  <2> QED
    BY <2>1, <2>2
<1> HIDE DEF k
<1>2. ASSUME NEW n \in 1..Len(s) PROVE TextsOf(RemoveAt(s, n)) = RemoveAt(k, n)
  <2> DEFINE r == RemoveAt(s, n)
             q == RemoveAt(k, n)
  <2>1. /\ r \in Seq(Point) /\ Len(r) = Len(s) - 1
        /\ \A i \in 1..(Len(s) - 1) : r[i] = IF i < n THEN s[i] ELSE s[i + 1]
    BY RemoveAtShape
  <2>2. /\ q \in Seq(Texts) /\ Len(q) = Len(s) - 1
        /\ \A i \in 1..(Len(s) - 1) : q[i] = IF i < n THEN k[i] ELSE k[i + 1]
    BY <1>1, RemoveAtShape
  <2> HIDE DEF r, q
  <2>3. /\ TextsOf(r) \in Seq(Texts) /\ Len(TextsOf(r)) = Len(r)
        /\ \A i \in 1..Len(r) : TextsOf(r)[i] = r[i].text
    BY <2>1, TextsOfParts
  <2>4. ASSUME NEW i \in 1..Len(r) PROVE TextsOf(r)[i] = q[i]
    <3>1. i \in 1..Len(s) /\ i + 1 \in 1..Len(s) /\ i \in 1..(Len(s) - 1)
      BY <1>1, <2>1
    <3>2. TextsOf(r)[i] = r[i].text
      BY <2>3
    <3> QED
      BY <1>1, <2>1, <2>2, <3>1, <3>2
  <2>5. TextsOf(r) = q
    BY <2>1, <2>2, <2>3, <2>4, SeqEqual
  <2> QED
    BY <2>5 DEF r, q
<1>3. ASSUME NEW e \in Point PROVE TextsOf(Append(s, e)) = Append(k, e.text)
  <2> DEFINE r == Append(s, e)
             q == Append(k, e.text)
  <2>1. /\ r \in Seq(Point) /\ Len(r) = Len(s) + 1 /\ r[Len(s) + 1] = e
        /\ \A i \in 1..Len(s) : r[i] = s[i]
    BY AppendProperties
  <2>2. /\ q \in Seq(Texts) /\ Len(q) = Len(s) + 1 /\ q[Len(s) + 1] = e.text
        /\ \A i \in 1..Len(s) : q[i] = k[i]
    <3>1. e.text \in Texts
      BY DEF Point
    <3> QED
      BY <1>1, <3>1, AppendProperties
  <2> HIDE DEF r, q
  <2>3. /\ TextsOf(r) \in Seq(Texts) /\ Len(TextsOf(r)) = Len(r)
        /\ \A i \in 1..Len(r) : TextsOf(r)[i] = r[i].text
    BY <2>1, TextsOfParts
  <2>4. ASSUME NEW i \in 1..Len(r) PROVE TextsOf(r)[i] = q[i]
    <3>1. CASE i \in 1..Len(s)
      BY <1>1, <2>1, <2>2, <2>3, <3>1
    <3>2. CASE i = Len(s) + 1
      BY <1>1, <2>1, <2>2, <2>3, <3>2
    <3> QED
      BY <1>1, <2>1, <3>1, <3>2
  <2>5. TextsOf(r) = q
    BY <2>1, <2>2, <2>3, <2>4, SeqEqual
  <2> QED
    BY <2>5 DEF r, q
<1>4. ASSUME s # <<>> PROVE TextsOf(Tail(s)) = Tail(k)
  <2> DEFINE r == Tail(s)
             q == Tail(k)
  <2>0. k # <<>>
    BY <1>1, <1>4, EmptySeq
  <2>1. /\ r \in Seq(Point) /\ Len(r) = Len(s) - 1
        /\ \A i \in 1..Len(r) : r[i] = s[i + 1]
    BY <1>4, HeadTailProperties
  <2>2. /\ q \in Seq(Texts) /\ Len(q) = Len(s) - 1
        /\ \A i \in 1..Len(q) : q[i] = k[i + 1]
    BY <1>1, <2>0, HeadTailProperties
  <2> HIDE DEF r, q
  <2>3. /\ TextsOf(r) \in Seq(Texts) /\ Len(TextsOf(r)) = Len(r)
        /\ \A i \in 1..Len(r) : TextsOf(r)[i] = r[i].text
    BY <2>1, TextsOfParts
  <2>4. ASSUME NEW i \in 1..Len(r) PROVE TextsOf(r)[i] = q[i]
    <3>1. i \in 1..Len(q) /\ i + 1 \in 1..Len(s)
      BY <1>1, <2>1, <2>2
    <3>2. TextsOf(r)[i] = r[i].text /\ r[i] = s[i + 1]
      BY <2>1, <2>3
    <3>3. q[i] = k[i + 1] /\ k[i + 1] = s[i + 1].text
      BY <1>1, <2>2, <3>1
    <3> QED
      BY <3>2, <3>3
  <2>5. TextsOf(r) = q
    BY <2>1, <2>2, <2>3, <2>4, SeqEqual
  <2> QED
    BY <2>5 DEF r, q
<1> QED
  BY <1>2, <1>3, <1>4 DEF k

LruInv == IInv /\ Len(points) <= MaxEntries

LEMMA OrderParts ==
  ASSUME LruInv
  PROVE  /\ Order = [i \in DOMAIN points |-> points[i].text]
         /\ Order \in Seq(Texts) /\ EachOnce(Order)
         /\ Len(Order) = Len(points) /\ Len(points) <= MaxEntries
         /\ \A i \in 1..Len(points) : Order[i] = points[i].text
<1>1. points \in Seq(Point) /\ Distinct /\ Len(points) <= MaxEntries
  BY DEF LruInv, IInv
<1>3. /\ Order \in Seq(Texts) /\ Len(Order) = Len(points)
      /\ \A i \in 1..Len(points) : Order[i] = points[i].text
  BY <1>1, TextsOfParts DEF Order
<1>5. Order = [i \in DOMAIN points |-> points[i].text]
  BY DEF Order, TextsOf
<1> QED
  BY <1>1, <1>3, <1>5 DEF EachOnce, Distinct

\* Taking a text's point out takes the text out of the order.
LEMMA WithoutKeys ==
  ASSUME LruInv, NEW t
  PROVE  /\ TextsOf(Without(t)) = RemoveFirst(Order, t)
         /\ Without(t) \in Seq(Point) /\ Len(Without(t)) <= MaxEntries
<1>0. /\ points \in Seq(Point) /\ DOMAIN points = 1..Len(points) /\ Len(points) \in Nat
      /\ Distinct /\ MaxEntries \in Nat
  BY LenProperties, SemanticCacheAssumption DEF LruInv, IInv
<1>1. /\ Without(t) \in Seq(Point) /\ Len(Without(t)) <= MaxEntries
  <2>1. Without(t) \in Seq(Point) /\ Len(Without(t)) <= Len(points)
    BY <1>0, WithoutParts
  <2>2. Len(Without(t)) \in Nat
    BY <2>1, LenProperties
  <2> QED
    BY <1>0, <2>1, <2>2 DEF LruInv
<1>2. CASE t \notin StoredTexts
  <2>1. Without(t) = points
    BY <1>2 DEF Without
  <2>2. \A i \in 1..Len(Order) : Order[i] # t
    BY <1>0, <1>2, OrderParts DEF StoredTexts
  <2>3. RemoveFirst(Order, t) = Order
    BY <2>2, OrderParts, RemoveFirstParts
  <2> QED
    BY <1>1, <2>1, <2>3 DEF Order
<1>3. CASE t \in StoredTexts
  <2> DEFINE n == CHOOSE i \in DOMAIN points : points[i].text = t
  <2>1. n \in 1..Len(points) /\ points[n].text = t
    BY <1>0, <1>3 DEF StoredTexts
  <2>2. Without(t) = RemoveAt(points, n)
    BY <1>3 DEF Without
  <2> HIDE DEF n
  <2>3. TextsOf(RemoveAt(points, n)) = RemoveAt(Order, n)
    BY <1>0, <2>1, OrderParts, TextsOfCommutes DEF Order
  <2>4. Order[n] = t /\ n \in 1..Len(Order)
    BY <2>1, OrderParts
  <2>5. RemoveFirst(Order, Order[n]) = RemoveAt(Order, n)
    BY <2>4, OrderParts, MovedLast
  <2> QED
    BY <1>1, <2>2, <2>3, <2>4, <2>5
<1> QED
  BY <1>2, <1>3

\* A search makes the text of its top point the most recent one.
LEMMA LookupAccesses ==
  ASSUME LruInv, NEW t \in Texts, Lookup(t), points # <<>>
  PROVE  /\ points[Top(t)].text \in Texts /\ points[Top(t)].text \in ToSet(Order)
         /\ Order' = Append(RemoveFirst(Order, points[Top(t)].text),
                           points[Top(t)].text)
         /\ Len(points') <= MaxEntries
<1> DEFINE p == points[Top(t)]
<1>0. points \in Seq(Point) /\ DOMAIN points = 1..Len(points) /\ Distinct
      /\ Len(points) \in Nat
  BY LenProperties DEF LruInv, IInv
<1>1. Top(t) \in 1..Len(points)
  BY <1>0, TopFound
<1>2. p \in Point /\ p.text \in Texts /\ p.text = Order[Top(t)]
  BY <1>0, <1>1, PointParts, OrderParts
<1>3. p.text \in ToSet(Order)
  <2>1. DOMAIN Order = 1..Len(points)
    BY OrderParts, LenProperties
  <2> QED
    BY <1>1, <1>2, <2>1 DEF ToSet
<1>4. points' = Append(Without(p.text), p)
  BY DEF Lookup, Promote
<1> HIDE DEF p
<1>5. Order' = Append(RemoveFirst(Order, p.text), p.text)
  <2>1. TextsOf(Append(Without(p.text), p))
          = Append(TextsOf(Without(p.text)), p.text)
    BY <1>2, WithoutKeys, OrderParts, TextsOfCommutes, Zenon
  <2>2. p.text = p.text
    OBVIOUS
  <2>3. Order' = TextsOf(points')
    BY DEF Order
  <2> QED
    BY <1>4, <2>1, <2>2, <2>3, WithoutKeys
<1>6. Len(points') <= MaxEntries
  <2>1. Len(points') = Len(Without(p.text)) + 1
    BY <1>2, <1>4, WithoutKeys, AppendProperties
  <2> DEFINE n == CHOOSE i \in DOMAIN points : points[i].text = p.text
  <2>2. p.text \in StoredTexts
    BY <1>0, <1>1, PointParts DEF p
  <2>3. n \in 1..Len(points) /\ Without(p.text) = RemoveAt(points, n)
    BY <1>0, <2>2 DEF Without, StoredTexts
  <2> HIDE DEF n
  <2>4. Len(Without(p.text)) = Len(points) - 1
    BY <1>0, <2>3, RemoveAtShape
  <2> QED
    BY <1>0, <2>1, <2>4 DEF LruInv
<1> QED
  BY <1>2, <1>3, <1>5, <1>6 DEF p

\* A put stores its text, the coldest making room.
LEMMA PutStores ==
  ASSUME LruInv, NEW t \in Texts, NEW r \in Responses, Put(t, r)
  PROVE  /\ Order' = LastOf(Append(RemoveFirst(Order, t), t), MaxEntries)
         /\ Len(points') <= MaxEntries
<1> DEFINE p == [text |-> t, response |-> r]
           w == Without(t)
           q == Append(w, p)
<1>1. p \in Point /\ p.text = t
  BY DEF Point
<1>2. points' = IF Len(q) > MaxEntries THEN Tail(q) ELSE q
  BY DEF Put, Upsert
<1>3. w \in Seq(Point) /\ Len(w) <= MaxEntries /\ TextsOf(w) = RemoveFirst(Order, t)
  BY WithoutKeys
<1> HIDE DEF p, w
<1>4. /\ q \in Seq(Point) /\ Len(q) = Len(w) + 1
      /\ TextsOf(q) = Append(RemoveFirst(Order, t), t)
  <2>1. q \in Seq(Point) /\ Len(q) = Len(w) + 1
    BY <1>1, <1>3, AppendProperties
  <2>2. TextsOf(Append(w, p)) = Append(TextsOf(w), p.text)
    BY <1>1, <1>3, OrderParts, TextsOfCommutes, Zenon
  <2> QED
    BY <1>1, <1>3, <2>1, <2>2
<1>5. Len(w) \in Nat /\ MaxEntries \in Nat
  BY <1>3, LenProperties, SemanticCacheAssumption
<1>6. Order' = TextsOf(points')
  BY DEF Order
<1> HIDE DEF q
<1> DEFINE k == TextsOf(q)
<1>7. k \in Seq(Texts) /\ Len(k) = Len(q)
  BY <1>4, OrderParts, TextsOfParts, Zenon
<1>8. CASE Len(q) > MaxEntries
  <2>1. Len(q) = MaxEntries + 1 /\ points' = Tail(q)
    BY <1>2, <1>3, <1>4, <1>5, <1>8
  <2>2. q # <<>>
    BY <1>4, <1>5, <2>1, EmptySeq
  <2>3. TextsOf(Tail(q)) = Tail(k) /\ Len(Tail(q)) = Len(q) - 1
    BY <1>4, <2>2, OrderParts, TextsOfCommutes, HeadTailProperties
  <2> HIDE DEF k
  <2>4. LastOf(k, MaxEntries) = Tail(k)
    BY <1>5, <1>7, <2>1, LastOfParts
  <2> QED
    BY <1>4, <1>5, <1>6, <2>1, <2>3, <2>4 DEF k
<1>9. CASE ~(Len(q) > MaxEntries)
  <2>1. Len(q) <= MaxEntries /\ points' = q
    BY <1>2, <1>4, <1>5, <1>9
  <2> HIDE DEF k
  <2>2. LastOf(k, MaxEntries) = k
    BY <1>5, <1>7, <2>1, LastOfParts
  <2> QED
    BY <1>4, <1>6, <2>1, <2>2 DEF k
<1> QED
  BY <1>8, <1>9

LEMMA LruInitInv == Init => LruInv
<1> SUFFICES ASSUME Init PROVE LruInv
  OBVIOUS
<1>1. IInv /\ Len(points) = 0
  BY InitIInv, EmptySeq DEF Init
<1> QED
  BY <1>1, SemanticCacheAssumption DEF LruInv

LEMMA LruStepInv == LruInv /\ [Next]_vars => LruInv'
<1> SUFFICES ASSUME LruInv, [Next]_vars PROVE LruInv'
  OBVIOUS
<1>1. IInv'
  BY StepIInv DEF LruInv
<1>2. Len(points') <= MaxEntries
  <2>1. CASE UNCHANGED points
    BY <2>1 DEF LruInv
  <2>2. ASSUME NEW t \in Texts, Lookup(t) PROVE Len(points') <= MaxEntries
    BY <2>1, <2>2, LookupAccesses DEF Lookup
  <2>3. ASSUME NEW t \in Texts, NEW r \in Responses, Put(t, r)
        PROVE  Len(points') <= MaxEntries
    BY <2>3, PutStores
  <2>4. CASE Clear
    <3>1. Len(points') = 0
      BY <2>4, EmptySeq DEF Clear, Emptied
    <3> QED
      BY <3>1, SemanticCacheAssumption
  <2>5. CASE LookupOff \/ LookupFails \/ Toggle \/ UNCHANGED vars
    BY <2>1, <2>5 DEF LookupOff, LookupFails, Toggle, vars
  <2> QED
    BY <2>2, <2>3, <2>4, <2>5 DEF Next
<1> QED
  BY <1>1, <1>2 DEF LruInv

\* LruStore takes sequences apart with the same operators.
LEMMA SameRemoval ==
  ASSUME LruInv, LruInv', NEW k
  PROVE  /\ (k \in ToSet(Order) /\ Order' = Append(RemoveFirst(Order, k), k))
              => Lru!Access(k)
         /\ Order' = LastOf(Append(RemoveFirst(Order, k), k), MaxEntries) => Lru!Store(k)
<1> DEFINE o == [i \in DOMAIN points |-> points[i].text]
<1>1. Order = o /\ Order' = o'
  BY DEF Order, TextsOf
<1>2. Lru!RemoveFirst(o, k) = RemoveFirst(o, k) /\ Lru!ToSet(o) = ToSet(o)
  BY DEF RemoveFirst, Lru!RemoveFirst, SelectInSeq, Lru!SelectInSeq,
         RemoveAt, Lru!RemoveAt, Min, Lru!Min, ToSet, Lru!ToSet
<1> QED
  BY <1>1, <1>2 DEF Lru!Access, Lru!Store, Lru!Suffix, LastOf

\* For any texts, cosines, threshold and capacity: the points are an LRU store,
\* a put a store and a search an access of its top point, near enough or not
\* (vector_stores.py:62-107).
THEOREM PointsAreLru == Spec => ImplementsLru
<1>1. Init => Lru!LruInit
  BY DEF Init, Lru!LruInit
<1>2. ASSUME LruInv, LruInv', NEW t \in Texts, Lookup(t), points # <<>>
      PROVE  \E k \in Texts : k = points[Top(t)].text /\ Lru!Access(k)
  <2>1. PICK k \in Texts : k = points[Top(t)].text
    BY <1>2, LookupAccesses
  <2>2. k \in ToSet(Order) /\ Order' = Append(RemoveFirst(Order, k), k)
    BY <1>2, <2>1, LookupAccesses
  <2>3. Lru!Access(k)
    BY <1>2, <2>2, SameRemoval
  <2> QED
    BY <2>1, <2>3
<1>3. ASSUME LruInv, LruInv', NEW t \in Texts, NEW r \in Responses, Put(t, r)
      PROVE  Lru!Store(t)
  BY <1>3, PutStores, SameRemoval
<1>4. LruInv /\ LruInv' /\ [Next]_vars =>
        /\ [Lru!LruNext]_[i \in DOMAIN points |-> points[i].text]
        /\ [\A t \in Texts :
              /\ (\E r \in Responses : Put(t, r)) => Lru!Store(t)
              /\ Lookup(t) /\ points # <<>> => Lru!Access(points[Top(t)].text)]_vars
  <2> SUFFICES ASSUME LruInv, LruInv', [Next]_vars
               PROVE  /\ [Lru!LruNext]_[i \in DOMAIN points |-> points[i].text]
                      /\ \A t \in Texts :
                           /\ (\E r \in Responses : Put(t, r)) => Lru!Store(t)
                           /\ Lookup(t) /\ points # <<>> => Lru!Access(points[Top(t)].text)
    OBVIOUS
  <2> DEFINE o == [i \in DOMAIN points |-> points[i].text]
             Stutters == Lru!LruNext \/ o' = o
  <2>1. ASSUME UNCHANGED points PROVE o' = o
    BY <2>1
  <2>4. ASSUME Clear PROVE Stutters
    <3>1. points' = <<>>
      BY <2>4 DEF Clear, Emptied
    <3> QED
      BY <3>1 DEF Lru!LruNext, Lru!Clear
  <2> HIDE DEF o
  <2>2. ASSUME NEW t \in Texts, Lookup(t) PROVE Stutters
    <3>1. CASE points = <<>>
      BY <2>1, <2>2, <3>1 DEF Lookup
    <3>2. CASE points # <<>>
      BY <1>2, <2>2, <3>2 DEF Lru!LruNext
    <3> QED
      BY <3>1, <3>2
  <2>3. ASSUME NEW t \in Texts, NEW r \in Responses, Put(t, r) PROVE Stutters
    BY <1>3, <2>3 DEF Lru!LruNext
  <2>5. ASSUME LookupOff \/ LookupFails \/ Toggle \/ UNCHANGED vars PROVE Stutters
    BY <2>1, <2>5 DEF LookupOff, LookupFails, Toggle, vars
  <2>6. Stutters
    BY <2>2, <2>3, <2>4, <2>5 DEF Next
  <2>7. [Lru!LruNext]_o
    BY <2>6
  <2>8. ASSUME NEW t \in Texts, Lookup(t), points # <<>>
        PROVE  Lru!Access(points[Top(t)].text)
    BY <1>2, <2>8 DEF Lru!Access
  <2>9. ASSUME NEW t \in Texts, NEW r \in Responses, Put(t, r) PROVE Lru!Store(t)
    BY <1>3, <2>9
  <2>10. \A t \in Texts :
           /\ (\E r \in Responses : Put(t, r)) => Lru!Store(t)
           /\ Lookup(t) /\ points # <<>> => Lru!Access(points[Top(t)].text)
    BY <2>8, <2>9
  <2> QED
    BY <2>7, <2>10 DEF o
<1> QED
  BY <1>1, <1>4, LruInitInv, LruStepInv, PTL DEF Spec, ImplementsLru, Lru!LruSpec
=============================================================================
