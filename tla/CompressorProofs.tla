-------------------------- MODULE CompressorProofs --------------------------
(***************************************************************************)
(* Proofs about the compressor, for payloads, engines, scores and toggles  *)
(* of every kind.  ProtectedStays needs only that a step rewrites the      *)
(* block it is at.  CompressorTyped, CacheNeverSeen and MarkersLead rest   *)
(* on IInv, which says what each block has become: the blocks behind the   *)
(* job are settled, those of the list under way hold what the engines will *)
(* be given, and those ahead what lingua left; and every result in the     *)
(* cache is the one its key stands for.  ResultsAreLru follows the keys of  *)
(* the entries: a hit is an access to one, a miss stores one.              *)
(***************************************************************************)
EXTENDS Compressor, SequenceLemmas

JobFields == {"pc", "src", "opts", "at", "sketches", "lists", "squeezed"}

\* Blocks and lists with texts in T.
BlockSet(T) == [type : Types, text : T]
ListSet(T) == [kind : {"system", "message"}, bare : BOOLEAN, blocks : Seq(BlockSet(T))]

LEMMA PayloadParts ==
  ASSUME NEW p \in Payloads
  PROVE  /\ p.lists \in Seq(ListSet(Texts)) /\ Len(p.lists) \in Nat
         /\ DOMAIN p.lists = 1..Len(p.lists)
         /\ \A l \in 1..Len(p.lists) :
              /\ p.lists[l] \in ListSet(Texts)
              /\ p.lists[l].blocks \in Seq(BlockSet(Texts))
              /\ DOMAIN p.lists[l].blocks = 1..Len(p.lists[l].blocks)
              /\ Len(p.lists[l].blocks) \in Nat /\ Len(p.lists[l].blocks) >= 1
              /\ p.lists[l].bare => Len(p.lists[l].blocks) = 1
<1> DEFINE ls == p.lists
<1>1. ls \in Seq(ListSet(Texts))
  BY CompressorAssumption DEF ListSet, BlockSet
<1>2. \A l \in DOMAIN ls : ls[l].blocks # <<>> /\ (ls[l].bare => Len(ls[l].blocks) = 1)
  BY CompressorAssumption
<1> HIDE DEF ls
<1>3. Len(ls) \in Nat /\ DOMAIN ls = 1..Len(ls)
  BY <1>1, LenProperties
<1>4. ASSUME NEW l \in 1..Len(ls)
      PROVE  /\ ls[l] \in ListSet(Texts)
             /\ ls[l].blocks \in Seq(BlockSet(Texts))
             /\ DOMAIN ls[l].blocks = 1..Len(ls[l].blocks)
             /\ Len(ls[l].blocks) \in Nat /\ Len(ls[l].blocks) >= 1
             /\ ls[l].bare => Len(ls[l].blocks) = 1
  <2>1. ls[l] \in ListSet(Texts)
    BY <1>1, <1>4, ElementOfSeq
  <2> DEFINE bs == ls[l].blocks
  <2>2. bs \in Seq(BlockSet(Texts))
    BY <2>1 DEF ListSet
  <2>3. bs # <<>> /\ (ls[l].bare => Len(bs) = 1)
    BY <1>2, <1>3, <1>4
  <2> HIDE DEF bs
  <2>4. Len(bs) \in Nat /\ DOMAIN bs = 1..Len(bs) /\ Len(bs) >= 1
    BY <2>2, <2>3, LenProperties, EmptySeq
  <2> QED
    BY <2>1, <2>2, <2>3, <2>4 DEF bs
<1> QED
  BY <1>1, <1>3, <1>4 DEF ls

\* The lists of the request have the shape of the payload's, and what the last
\* marker covers is as the client sent it.
Covered ==
  job.pc # "idle" =>
    /\ DOMAIN job = JobFields
    /\ DOMAIN job.lists = DOMAIN job.src.lists
    /\ \A l \in DOMAIN job.lists :
         /\ "blocks" \in DOMAIN job.lists[l]
         /\ DOMAIN job.lists[l].blocks = DOMAIN job.src.lists[l].blocks
         /\ \A b \in DOMAIN job.lists[l].blocks : AtOrBefore(<<l, b>>, job.src.mark) =>
              job.lists[l].blocks[b].text = Plain(job.src.lists[l].blocks[b].text)

LEMMA CoveredSuffices == Covered => ProtectedUntouched
<1> SUFFICES ASSUME Covered, job.pc # "idle",
                    NEW p \in Places, AtOrBefore(p, job.src.mark)
             PROVE  Block(p).text = Plain(job.src.lists[p[1]].blocks[p[2]].text)
  BY DEF ProtectedUntouched
<1>1. PICK l \in DOMAIN job.lists : \E b \in DOMAIN job.lists[l].blocks : p = <<l, b>>
  BY DEF Places
<1>2. PICK b \in DOMAIN job.lists[l].blocks : p = <<l, b>>
  BY <1>1
<1> QED
  BY <1>2 DEF Covered, Block

\* One text is rewritten, and no other.
LEMMA OneRewritten ==
  ASSUME NEW q, NEW t,
         \A l \in DOMAIN job.lists : "blocks" \in DOMAIN job.lists[l]
  PROVE  LET g == Rewritten(q, t)
         IN /\ DOMAIN g = DOMAIN job.lists
            /\ \A l \in DOMAIN job.lists :
                 /\ "blocks" \in DOMAIN g[l]
                 /\ DOMAIN g[l].blocks = DOMAIN job.lists[l].blocks
                 /\ \A b \in DOMAIN job.lists[l].blocks :
                      ~(l = q[1] /\ b = q[2]) => g[l].blocks[b] = job.lists[l].blocks[b]
<1> DEFINE f == job.lists
           g == Rewritten(q, t)
           new == [f[q[1]].blocks EXCEPT ![q[2]] = [@ EXCEPT !.text = t]]
<1>1. g = [f EXCEPT ![q[1]] = [@ EXCEPT !.blocks = new]]
  BY DEF Rewritten
<1> HIDE DEF g, new
<1>2. DOMAIN g = DOMAIN f /\ \A l \in DOMAIN f : l # q[1] => g[l] = f[l]
  BY <1>1
<1>3. ASSUME q[1] \in DOMAIN f
      PROVE  "blocks" \in DOMAIN g[q[1]] /\ g[q[1]].blocks = new
  BY <1>1, <1>3
<1>4. /\ DOMAIN new = DOMAIN f[q[1]].blocks
      /\ \A b \in DOMAIN f[q[1]].blocks : b # q[2] => new[b] = f[q[1]].blocks[b]
  BY DEF new
<1> HIDE DEF f
<1>5. ASSUME NEW l \in DOMAIN f
      PROVE  /\ "blocks" \in DOMAIN g[l]
             /\ DOMAIN g[l].blocks = DOMAIN f[l].blocks
             /\ \A b \in DOMAIN f[l].blocks :
                  ~(l = q[1] /\ b = q[2]) => g[l].blocks[b] = f[l].blocks[b]
  <2>1. CASE l = q[1]
    BY <1>3, <1>4, <2>1
  <2>2. CASE l # q[1]
    BY <1>2, <2>2 DEF f
  <2> QED
    BY <2>1, <2>2
<1> QED
  BY <1>2, <1>5 DEF f, g

\* What a step may do: leave the lists, or rewrite the block it is at, unless
\* that is protected.
Spares ==
  /\ DOMAIN job' = JobFields /\ job'.src = job.src
  /\ \/ job'.lists = job.lists
     \/ ~Protected(job.src.mark, job.at) /\ \E t : job'.lists = Rewritten(job.at, t)

LEMMA SparesKeeps ==
  ASSUME Covered, job.pc # "idle", Spares
  PROVE  Covered'
<1>1. CASE job'.lists = job.lists
  BY <1>1 DEF Covered, Spares
<1>2. CASE ~Protected(job.src.mark, job.at) /\ \E t : job'.lists = Rewritten(job.at, t)
  <2>1. PICK t : job'.lists = Rewritten(job.at, t)
    BY <1>2
  <2> DEFINE g == job'.lists
             f == job.lists
             src == job.src
  <2>2. /\ DOMAIN g = DOMAIN f
        /\ \A l \in DOMAIN f :
             /\ "blocks" \in DOMAIN g[l]
             /\ DOMAIN g[l].blocks = DOMAIN f[l].blocks
             /\ \A b \in DOMAIN f[l].blocks :
                  ~(l = job.at[1] /\ b = job.at[2]) => g[l].blocks[b] = f[l].blocks[b]
    BY <2>1, OneRewritten DEF Covered
  <2>3. ASSUME NEW l \in DOMAIN f, NEW b \in DOMAIN f[l].blocks,
               AtOrBefore(<<l, b>>, src.mark)
        PROVE  g[l].blocks[b].text = Plain(src.lists[l].blocks[b].text)
    <3>1. ~(l = job.at[1] /\ b = job.at[2])
      BY <1>2, <2>3 DEF Protected, AtOrBefore
    <3> QED
      BY <2>2, <2>3, <3>1 DEF Covered
  <2>4. job'.src = src /\ DOMAIN job' = JobFields
    BY DEF Spares
  <2>5. /\ DOMAIN f = DOMAIN src.lists
        /\ \A l \in DOMAIN f : DOMAIN f[l].blocks = DOMAIN src.lists[l].blocks
    BY DEF Covered
  <2> HIDE DEF g, f, src
  <2> QED
    BY <2>2, <2>3, <2>4, <2>5 DEF Covered, g
<1> QED
  BY <1>1, <1>2 DEF Spares

-----------------------------------------------------------------------------
LEMMA BeginCovers ==
  ASSUME NEW p \in Payloads, NEW o \in Options, Begin(p, o)
  PROVE  Covered'
<1> DEFINE L == [l \in DOMAIN p.lists |-> [p.lists[l] EXCEPT !.blocks = Fresh(@)]]
<1>1. DOMAIN job' = JobFields /\ job'.src = p /\ job'.lists = L
  BY DEF Begin, JobFields
<1>2. ASSUME NEW l \in DOMAIN p.lists
      PROVE  /\ "blocks" \in DOMAIN L[l]
             /\ DOMAIN L[l].blocks = DOMAIN p.lists[l].blocks
             /\ \A b \in DOMAIN L[l].blocks :
                  L[l].blocks[b].text = Plain(p.lists[l].blocks[b].text)
  <2>1. p.lists[l] \in [kind : {"system", "message"}, bare : BOOLEAN,
                        blocks : Seq([type : Types, text : Texts])]
    BY PayloadParts DEF ListSet, BlockSet
  <2>2. L[l].blocks = Fresh(p.lists[l].blocks) /\ "blocks" \in DOMAIN L[l]
    BY <2>1
  <2>3. ASSUME NEW b \in DOMAIN p.lists[l].blocks
        PROVE  Fresh(p.lists[l].blocks)[b].text = Plain(p.lists[l].blocks[b].text)
    <3>1. p.lists[l].blocks[b] \in [type : Types, text : Texts]
      <4> DEFINE bs == p.lists[l].blocks
                 R == [type : Types, text : Texts]
      <4>1. bs \in Seq(R)
        BY <2>1, Zenon
      <4>2. b \in DOMAIN bs
        BY <2>3
      <4> HIDE DEF bs, R
      <4>3. bs[b] \in R
        BY <4>1, <4>2
      <4> QED
        BY <4>3 DEF bs, R
    <3> DEFINE blk == p.lists[l].blocks[b]
    <3>2. Fresh(p.lists[l].blocks)[b] = [blk EXCEPT !.text = Plain(blk.text)]
      BY DEF Fresh
    <3> HIDE DEF blk
    <3>3. [blk EXCEPT !.text = Plain(blk.text)].text = Plain(blk.text)
      BY <3>1 DEF blk
    <3> QED
      BY <3>2, <3>3 DEF blk
  <2>4. DOMAIN Fresh(p.lists[l].blocks) = DOMAIN p.lists[l].blocks
    BY DEF Fresh
  <2> HIDE DEF L
  <2> QED
    BY <2>2, <2>3, <2>4
<1>3. DOMAIN L = DOMAIN p.lists
  OBVIOUS
<1> HIDE DEF L
<1> QED
  BY <1>1, <1>2, <1>3 DEF Covered

LEMMA SqueezeSpares ==
  ASSUME Covered, job.pc # "idle", LinguaStep
  PROVE  Spares
<1>1. DOMAIN job = JobFields
  BY DEF Covered
<1>2. CASE job' = [job EXCEPT !.at = After(job.at)]
  BY <1>1, <1>2 DEF Spares, JobFields
<1>3. CASE /\ ~Protected(job.src.mark, job.at)
           /\ \E t : job' = [job EXCEPT !.at = After(job.at), !.lists = Rewritten(job.at, t)]
  <2>1. PICK t : job' = [job EXCEPT !.at = After(job.at), !.lists = Rewritten(job.at, t)]
    BY <1>3
  <2>2. DOMAIN job' = JobFields /\ job'.src = job.src /\ job'.lists = Rewritten(job.at, t)
    BY <1>1, <2>1, Zenon DEF JobFields
  <2> QED
    BY <1>3, <2>2 DEF Spares
<1> QED
  BY <1>2, <1>3, Zenon DEF LinguaStep, Squeeze

\* Whatever Moved() is applied to, it only moves on.
LEMMA MovedOnly ==
  ASSUME NEW j, DOMAIN j = JobFields
  PROVE  DOMAIN Moved(j) = JobFields /\ Moved(j).src = j.src /\ Moved(j).lists = j.lists
BY Zenon DEF Moved, JobFields

LEMMA BlockSpares ==
  ASSUME Covered, job.pc # "idle", BlockStep
  PROVE  Spares
<1>1. DOMAIN job = JobFields
  BY DEF Covered
<1>2. CASE job' = Moved(job)
  BY <1>1, <1>2, MovedOnly DEF Spares
<1>3. CASE /\ ~Protected(job.src.mark, job.at)
           /\ \E t, s : job' = Moved([job EXCEPT !.lists = Rewritten(job.at, t), !.sketches = s])
  <2>1. PICK t, s : job' = Moved([job EXCEPT !.lists = Rewritten(job.at, t), !.sketches = s])
    BY <1>3
  <2> DEFINE j == [job EXCEPT !.lists = Rewritten(job.at, t), !.sketches = s]
  <2>2. DOMAIN j = JobFields /\ j.src = job.src /\ j.lists = Rewritten(job.at, t)
    BY <1>1, Zenon DEF JobFields
  <2> HIDE DEF j
  <2>3. DOMAIN job' = JobFields /\ job'.src = job.src /\ job'.lists = Rewritten(job.at, t)
    BY <2>1, <2>2, MovedOnly DEF j
  <2> QED
    BY <1>3, <2>3 DEF Spares
<1>4. CASE /\ ~Protected(job.src.mark, job.at)
           /\ \E t : job' = Moved([job EXCEPT !.lists = Rewritten(job.at, t)])
  <2>1. PICK t : job' = Moved([job EXCEPT !.lists = Rewritten(job.at, t)])
    BY <1>4
  <2> DEFINE j == [job EXCEPT !.lists = Rewritten(job.at, t)]
  <2>2. DOMAIN j = JobFields /\ j.src = job.src /\ j.lists = Rewritten(job.at, t)
    BY <1>1, Zenon DEF JobFields
  <2> HIDE DEF j
  <2>3. DOMAIN job' = JobFields /\ job'.src = job.src /\ job'.lists = Rewritten(job.at, t)
    BY <2>1, <2>2, MovedOnly DEF j
  <2> QED
    BY <1>4, <2>3 DEF Spares
<1>5. \/ job' = Moved(job)
      \/ ~Protected(job.src.mark, job.at) /\ DedupeText(Block(job.at).text)
  BY Zenon DEF BlockStep
<1>6. ASSUME NEW t, DedupeText(t)
      PROVE  \/ \E u, s : job' = Moved([job EXCEPT !.lists = Rewritten(job.at, u), !.sketches = s])
             \/ \E u : job' = Moved([job EXCEPT !.lists = Rewritten(job.at, u)])
  <2>1. ASSUME NEW s, CompressText(t, s)
        PROVE  \E u : job' = Moved([job EXCEPT !.lists = Rewritten(job.at, u), !.sketches = s])
    BY <2>1, Zenon DEF CompressText
  <2> QED
    BY <1>6, <2>1, Zenon DEF DedupeText
<1> QED
  BY <1>2, <1>3, <1>4, <1>5, <1>6, Zenon

\* The LSH pre-pass keeps what it may not replace.
LEMMA ListCovers ==
  ASSUME Covered, ListStep
  PROVE  Covered'
<1> DEFINE l == job.at[1]
<1>1. /\ job.pc = "list" /\ l <= Len(job.lists)
      /\ \/ job' = [job EXCEPT !.at = <<l + 1, 1>>]
         \/ job' = [job EXCEPT !.pc = "block"]
         \/ \E f \in LSHTargets(l) :
              job' = [job EXCEPT !.pc = "block", !.lists[l].blocks = Deduped(@, f)]
  BY Zenon DEF ListStep
<1>2. DOMAIN job = JobFields
  BY <1>1 DEF Covered
<1> HIDE DEF l
<1>3. CASE job' = [job EXCEPT !.at = <<l + 1, 1>>]
  <2>1. Spares
    BY <1>2, <1>3 DEF Spares, JobFields
  <2> QED
    BY <1>1, <2>1, SparesKeeps
<1>4. CASE job' = [job EXCEPT !.pc = "block"]
  <2>1. Spares
    BY <1>2, <1>4 DEF Spares, JobFields
  <2> QED
    BY <1>1, <2>1, SparesKeeps
<1>5. ASSUME NEW f \in LSHTargets(l),
             job' = [job EXCEPT !.pc = "block", !.lists[l].blocks = Deduped(@, f)]
      PROVE  Covered'
  <2> DEFINE old == job.lists[l].blocks
             new == Deduped(old, f)
             L == [job.lists EXCEPT ![l] = [@ EXCEPT !.blocks = new]]
  <2>1. job' = [job EXCEPT !.pc = "block", !.lists = L]
    BY <1>5, Zenon
  <2>2. ASSUME NEW b \in DOMAIN old, AtOrBefore(<<l, b>>, job.src.mark)
        PROVE  f[b] = 0
    <3>1. ~Replaceable(l, b)
      BY <2>2 DEF Replaceable, Protected
    <3> QED
      BY <2>2, <3>1, Zenon DEF LSHTargets
  <2>3. DOMAIN new = DOMAIN old
        /\ \A b \in DOMAIN old : AtOrBefore(<<l, b>>, job.src.mark) => new[b] = old[b]
    BY <2>2 DEF Deduped
  <2> HIDE DEF new, L
  <2>4. DOMAIN job' = JobFields /\ job'.src = job.src /\ job'.lists = L
    BY <1>2, <2>1, Zenon DEF JobFields
  <2>5. DOMAIN L = DOMAIN job.lists
        /\ \A k \in DOMAIN job.lists :
             L[k] = IF k = l THEN [job.lists[k] EXCEPT !.blocks = new] ELSE job.lists[k]
    BY DEF L
  <2> DEFINE src == job.src
  <2>6. ASSUME NEW k \in DOMAIN job.lists
        PROVE  /\ "blocks" \in DOMAIN L[k]
               /\ DOMAIN L[k].blocks = DOMAIN src.lists[k].blocks
               /\ \A b \in DOMAIN L[k].blocks : AtOrBefore(<<k, b>>, src.mark) =>
                    L[k].blocks[b].text = Plain(src.lists[k].blocks[b].text)
    <3>1. /\ "blocks" \in DOMAIN job.lists[k]
          /\ DOMAIN job.lists[k].blocks = DOMAIN src.lists[k].blocks
          /\ \A b \in DOMAIN job.lists[k].blocks : AtOrBefore(<<k, b>>, src.mark) =>
               job.lists[k].blocks[b].text = Plain(src.lists[k].blocks[b].text)
      BY <1>1 DEF Covered
    <3>2. CASE k # l
      BY <2>5, <3>1, <3>2
    <3>3. CASE k = l
      <4>1. "blocks" \in DOMAIN L[k] /\ L[k].blocks = new
        BY <2>5, <3>1, <3>3
      <4> QED
        BY <2>3, <3>1, <3>3, <4>1
    <3> QED
      BY <3>2, <3>3
  <2>7. DOMAIN job.lists = DOMAIN src.lists
    BY <1>1 DEF Covered
  <2> HIDE DEF src
  <2>8. job'.src = src
    BY <2>4 DEF src
  <2> QED
    BY <2>4, <2>5, <2>6, <2>7, <2>8 DEF Covered
<1> QED
  BY <1>1, <1>3, <1>4, <1>5

\* Lingua, the LSH pre-pass, the JL sketches, the result cache and the engines:
\* none of them, in any order of requests and toggles, changes a text at or
\* before the last marker.
THEOREM ProtectedStays == Spec => []ProtectedUntouched
<1>1. Init => Covered
  BY DEF Init, Idle, Covered
<1>2. ASSUME Covered, [Next]_vars PROVE Covered'
  <2>1. ASSUME NEW p \in Payloads, NEW o \in Options, Begin(p, o) PROVE Covered'
    BY <2>1, BeginCovers
  <2>2. CASE LinguaStep
    <3>1. job.pc # "idle"
      BY <2>2 DEF LinguaStep
    <3> QED
      BY <1>2, <2>2, <3>1, SqueezeSpares, SparesKeeps
  <2>3. CASE LinguaEnds
    <3>1. job.pc # "idle" /\ DOMAIN job = JobFields
      BY <1>2, <2>3 DEF LinguaEnds, Covered
    <3>2. Spares
      BY <2>3, <3>1, Zenon DEF LinguaEnds, Spares, JobFields
    <3> QED
      BY <1>2, <3>1, <3>2, SparesKeeps
  <2>4. CASE ListStep
    BY <1>2, <2>4, ListCovers
  <2>5. CASE BlockStep
    <3>1. job.pc # "idle"
      BY <2>5 DEF BlockStep
    <3> QED
      BY <1>2, <2>5, <3>1, BlockSpares, SparesKeeps
  <2>6. CASE Done
    <3>1. job.pc # "idle" /\ DOMAIN job = JobFields
      BY <1>2, <2>6 DEF Done, Covered
    <3>2. Spares
      BY <2>6, <3>1 DEF Done, Spares, JobFields
    <3> QED
      BY <1>2, <3>1, <3>2, SparesKeeps
  <2>7. CASE UNCHANGED vars
    BY <1>2, <2>7 DEF vars, Covered
  <2> QED
    BY <1>2, <2>1, <2>2, <2>3, <2>4, <2>5, <2>6, <2>7 DEF Next
<1> QED
  BY <1>1, <1>2, CoveredSuffices, PTL DEF Spec

-----------------------------------------------------------------------------
\* Texts by what has become of them, and results the cache may hold.
Plains == {Plain(t) : t \in Texts}
Givens == Plains \cup {LSHMark(b, t) : b \in Nat, t \in Texts}
Configs == {o.cfg : o \in Options}
Outs == {Compressed(g, c) : g \in Givens, c \in Configs}
Links == {JLMark(q, t) : q \in Nat \X Nat, t \in Texts}
Terms == Givens \cup Outs \cup Links

Entries ==
  {[key |-> CacheKey(g, c), value |-> Compressed(g, c)] : g \in Givens, c \in Configs}

Sketches == Seq([text : Long, at : Nat \X Nat])

\* Block b of list l of job j: its text, and what lingua had made of it.
Text(j, l, b) == j.lists[l].blocks[b].text
Came(j, l, b) == j.squeezed[l][b].text

IsPlace(j, l, b) == l \in 1..Len(j.src.lists) /\ b \in 1..Len(j.src.lists[l].blocks)

Earlier(k, c, l, b) == k < l \/ (k = l /\ c < b)

\* The lists have the shape of the payload's.
Shaped(j) ==
  /\ DOMAIN j = JobFields
  /\ j.pc \in {"lingua", "list", "block", "done"}
  /\ j.src \in Payloads /\ j.opts \in Options
  /\ j.lists \in Seq(ListSet(Terms)) /\ Len(j.lists) = Len(j.src.lists)
  /\ j.squeezed \in Seq(Seq(BlockSet(Plains))) /\ Len(j.squeezed) = Len(j.src.lists)
  /\ j.sketches \in Sketches
  /\ \A l \in 1..Len(j.src.lists) :
       /\ j.lists[l].kind = j.src.lists[l].kind
       /\ j.lists[l].bare = j.src.lists[l].bare
       /\ Len(j.lists[l].blocks) = Len(j.src.lists[l].blocks)
       /\ Len(j.squeezed[l]) = Len(j.src.lists[l].blocks)
       /\ \A b \in 1..Len(j.src.lists[l].blocks) :
            j.lists[l].blocks[b].type = j.src.lists[l].blocks[b].type

\* The job is at a block, or behind the last one.
Sited(j) ==
  /\ j.at \in Nat \X Nat /\ j.at[1] \in 1..(Len(j.src.lists) + 1) /\ j.at[2] >= 1
  /\ j.at[1] <= Len(j.src.lists) => IsPlace(j, j.at[1], j.at[2])
  /\ j.pc = "block" => /\ j.at[1] <= Len(j.src.lists)
                       /\ j.src.lists[j.at[1]].kind = "system" => CompressSystem
  /\ j.pc = "list" => j.at[2] = 1
  /\ j.pc = "done" => j.at[1] = Len(j.src.lists) + 1

\* What block b of list l may be when the engines come to it: what lingua left,
\* or a marker that names an earlier block of the list which is none itself.
Given(j, l, b, g) ==
  \/ g = Came(j, l, b)
  \/ \E c \in 1..(b - 1) :
       /\ g = LSHMark(c, Came(j, l, b).of)
       /\ LSHScore[<<Came(j, l, b).of, Came(j, l, c).of>>] >= LSHThreshold
       /\ Source(Text(j, l, c)).tag # "lsh"

\* A JL marker names an earlier block that was kept.
Linked(j, l, b) ==
  \E k, c \in Nat :
    /\ IsPlace(j, k, c) /\ Earlier(k, c, l, b)
    /\ Text(j, l, b) = JLMark(<<k, c>>, Came(j, l, b).of)
    /\ Kept(Text(j, k, c))
    /\ JLScore[<<Came(j, l, b).of, Came(j, k, c).of>>] >= JLThreshold

ToVisit(j, l, b) ==
  LET list == j.src.lists[l]
  IN /\ ~Protected(j.src.mark, <<l, b>>)
     /\ list.kind = "system" => CompressSystem
     /\ \/ list.blocks[b].type = "text"
        \/ list.blocks[b].type \in {"tool_result", "nested"} /\ list.kind = "message"
             /\ CompressToolResults

\* What a block is once the engines have passed it.
Settled(j, l, b) ==
  \E g : /\ Given(j, l, b, g)
         /\ IF ToVisit(j, l, b)
              THEN \/ Text(j, l, b) = Compressed(g, j.opts.cfg)
                   \/ g = Came(j, l, b) /\ Linked(j, l, b)
              ELSE Text(j, l, b) = g

Worked(j) ==
  /\ j.pc = "lingua" =>
       /\ j.sketches = <<>>
       /\ \A l, b \in Nat : IsPlace(j, l, b) => Text(j, l, b) \in Plains
  /\ j.pc # "lingua" =>
       \A l, b \in Nat : IsPlace(j, l, b) =>
         IF Earlier(l, b, j.at[1], j.at[2]) THEN Settled(j, l, b)
         ELSE IF j.pc = "block" /\ l = j.at[1] THEN Given(j, l, b, Text(j, l, b))
         ELSE Text(j, l, b) = Came(j, l, b)
  /\ \A i \in 1..Len(j.sketches) :
       LET k == j.sketches[i].at[1]  c == j.sketches[i].at[2]
       IN /\ IsPlace(j, k, c) /\ Earlier(k, c, j.at[1], j.at[2])
          /\ j.sketches[i].text = Came(j, k, c).of
          /\ Kept(Text(j, k, c))

JobInv(j) == Shaped(j) /\ Sited(j) /\ Worked(j)

\* Every result in the cache is the one its key stands for, once.
CacheInv ==
  /\ cache \in Seq(Entries) /\ Len(cache) <= CacheSize
  /\ \A i, k \in 1..Len(cache) : cache[i].key = cache[k].key => i = k

IInv ==
  /\ CacheInv
  /\ model \in {"unloaded", "loaded", "failed"} /\ loads \in Nat
  /\ job.pc = "idle" \/ JobInv(job)

-----------------------------------------------------------------------------
LEMMA SameTerms ==
  /\ Plains \subseteq Givens /\ Givens \subseteq Terms /\ Outs \subseteq Terms
  /\ Links \subseteq Terms
  /\ \A t \in Plains : t.tag = "text" /\ t.of \in Texts /\ t = Plain(t.of)
  /\ \A t \in Texts : Plain(t) \in Plains /\ Plain(t).of = t /\ Plain(t).tag = "text"
  /\ \A b \in Nat, t \in Texts : LSHMark(b, t) \in Givens
  /\ \A q \in Nat \X Nat, t \in Texts : JLMark(q, t) \in Links
<1>1. \A t \in Texts : Plain(t).of = t /\ Plain(t).tag = "text"
  BY DEF Plain
<1> QED
  BY <1>1 DEF Plains, Givens, Terms, Links

LEMMA GivenTag ==
  ASSUME NEW g \in Givens
  PROVE  g.tag \in {"text", "lsh"} /\ Source(g) = g
<1>1. g.tag \in {"text", "lsh"}
  BY DEF Givens, Plains, Plain, LSHMark
<1> QED
  BY <1>1 DEF Source

\* What the engines make of a text shows what they were given.
LEMMA CompressedParts ==
  ASSUME NEW g \in Givens, NEW c \in Configs
  PROVE  /\ Compressed(g, c) \in Outs
         /\ Source(Compressed(g, c)) = g
         /\ Compressed(g, c).tag \in {"text", "lsh", "out"}
<1>1. g.tag \in {"text", "lsh"} /\ Source(g) = g
  BY GivenTag
<1>2. CASE Compressed(g, c) = g
  BY <1>1, <1>2 DEF Outs
<1>3. CASE Compressed(g, c) # g
  <2>1. PICK cut, by : Compressed(g, c) = [tag |-> "out", of |-> g, cut |-> cut, by |-> by]
    BY <1>3 DEF Compressed
  <2> QED
    BY <2>1 DEF Outs, Source
<1> QED
  BY <1>2, <1>3

LEMMA SourceTag ==
  ASSUME NEW t \in Terms
  PROVE  Source(t).tag \in {"text", "lsh", "jl"}
<1>1. CASE t \in Givens
  BY <1>1, GivenTag
<1>2. CASE t \in Outs
  <2>1. PICK g \in Givens, c \in Configs : t = Compressed(g, c)
    BY <1>2 DEF Outs
  <2> QED
    BY <2>1, CompressedParts, GivenTag
<1>3. CASE t \in Links
  BY <1>3 DEF Links, JLMark, Source
<1> QED
  BY <1>1, <1>2, <1>3 DEF Terms

\* A block of the request, its text and what lingua had made of it.
LEMMA PlaceParts ==
  ASSUME NEW j, Shaped(j), NEW l, NEW b, IsPlace(j, l, b)
  PROVE  /\ Len(j.src.lists) \in Nat /\ Len(j.src.lists[l].blocks) \in Nat
         /\ l \in Nat /\ b \in Nat
         /\ DOMAIN j.lists = 1..Len(j.src.lists)
         /\ DOMAIN j.lists[l].blocks = 1..Len(j.src.lists[l].blocks)
         /\ j.lists[l] \in ListSet(Terms)
         /\ j.lists[l].blocks \in Seq(BlockSet(Terms))
         /\ j.lists[l].blocks[b] \in BlockSet(Terms)
         /\ Text(j, l, b) \in Terms
         /\ Came(j, l, b) \in Plains
<1>1. /\ Len(j.src.lists) \in Nat /\ l \in 1..Len(j.src.lists)
      /\ Len(j.src.lists[l].blocks) \in Nat /\ b \in 1..Len(j.src.lists[l].blocks)
  BY PayloadParts DEF Shaped, IsPlace
<1> DEFINE n == Len(j.src.lists)  m == Len(j.src.lists[l].blocks)
           ls == j.lists  sq == j.squeezed
<1>2. /\ ls \in Seq(ListSet(Terms)) /\ Len(ls) = n
      /\ sq \in Seq(Seq(BlockSet(Plains))) /\ Len(sq) = n
      /\ Len(ls[l].blocks) = m /\ Len(sq[l]) = m
  BY <1>1 DEF Shaped
<1>3. n \in Nat /\ m \in Nat /\ l \in 1..n /\ b \in 1..m
  BY <1>1
<1> HIDE DEF n, m, ls, sq
<1>4. ls[l] \in ListSet(Terms) /\ DOMAIN ls = 1..n
  BY <1>2, <1>3, ElementOfSeq, LenProperties
<1> DEFINE bs == ls[l].blocks  cs == sq[l]
<1>5. bs \in Seq(BlockSet(Terms))
  BY <1>4 DEF ListSet
<1>6. cs \in Seq(BlockSet(Plains))
  BY <1>2, <1>3, ElementOfSeq
<1>7. Len(bs) = m /\ Len(cs) = m
  BY <1>2
<1> HIDE DEF bs, cs
<1>8. DOMAIN bs = 1..m /\ bs[b] \in BlockSet(Terms) /\ cs[b] \in BlockSet(Plains)
  BY <1>3, <1>5, <1>6, <1>7, ElementOfSeq, LenProperties
<1>9. bs[b].text \in Terms /\ cs[b].text \in Plains
  BY <1>8 DEF BlockSet
<1> QED
  BY <1>1, <1>3, <1>4, <1>5, <1>8, <1>9 DEF n, m, ls, sq, bs, cs, Text, Came

\* Rewriting one text leaves the shape and the other texts.
LEMMA RewrittenParts ==
  ASSUME Shaped(job), NEW l, NEW b, IsPlace(job, l, b), NEW t \in Terms
  PROVE  LET g == Rewritten(<<l, b>>, t)
         IN /\ g \in Seq(ListSet(Terms)) /\ Len(g) = Len(job.lists)
            /\ \A k \in 1..Len(job.lists) :
                 /\ g[k].kind = job.lists[k].kind /\ g[k].bare = job.lists[k].bare
                 /\ Len(g[k].blocks) = Len(job.lists[k].blocks)
                 /\ \A c \in 1..Len(job.lists[k].blocks) :
                      /\ g[k].blocks[c].type = job.lists[k].blocks[c].type
                      /\ g[k].blocks[c].text =
                           IF k = l /\ c = b THEN t ELSE job.lists[k].blocks[c].text
<1> DEFINE f    == job.lists
           old  == f[l].blocks
           blk  == [old[b] EXCEPT !.text = t]
           new  == [old EXCEPT ![b] = blk]
           item == [f[l] EXCEPT !.blocks = new]
           g    == [f EXCEPT ![l] = item]
<1>1. Rewritten(<<l, b>>, t) = g
  BY DEF Rewritten
<1>2. /\ f \in Seq(ListSet(Terms)) /\ l \in 1..Len(f) /\ f[l] \in ListSet(Terms)
      /\ old \in Seq(BlockSet(Terms)) /\ b \in 1..Len(old) /\ old[b] \in BlockSet(Terms)
  BY PlaceParts DEF Shaped, IsPlace
<1>3. /\ blk \in BlockSet(Terms) /\ blk.type = old[b].type /\ blk.text = t
  <2> DEFINE o == old[b]
  <2>1. o \in BlockSet(Terms)
    BY <1>2
  <2> HIDE DEF o
  <2>2. [o EXCEPT !.text = t] \in BlockSet(Terms)
        /\ [o EXCEPT !.text = t].type = o.type /\ [o EXCEPT !.text = t].text = t
    BY <2>1 DEF BlockSet
  <2> QED
    BY <2>2 DEF o
<1> HIDE DEF blk
<1>4. /\ new \in Seq(BlockSet(Terms)) /\ Len(new) = Len(old)
      /\ \A c \in 1..Len(old) : new[c] = IF c = b THEN blk ELSE old[c]
  <2> HIDE DEF old
  <2> QED
    BY <1>2, <1>3, ExceptSeq
<1> HIDE DEF new
<1>5. /\ item \in ListSet(Terms) /\ item.kind = f[l].kind /\ item.bare = f[l].bare
      /\ item.blocks = new
  <2> DEFINE r == f[l]
  <2>1. r \in ListSet(Terms)
    BY <1>2
  <2> HIDE DEF r, f
  <2>2. /\ [r EXCEPT !.blocks = new] \in ListSet(Terms)
        /\ [r EXCEPT !.blocks = new].kind = r.kind
        /\ [r EXCEPT !.blocks = new].bare = r.bare
        /\ [r EXCEPT !.blocks = new].blocks = new
    BY <1>4, <2>1 DEF ListSet
  <2> QED
    BY <2>2 DEF r
<1> HIDE DEF item
<1>6. /\ g \in Seq(ListSet(Terms)) /\ Len(g) = Len(f)
      /\ \A k \in 1..Len(f) : g[k] = IF k = l THEN item ELSE f[k]
  <2> HIDE DEF f
  <2> QED
    BY <1>2, <1>5, ExceptSeq
<1> HIDE DEF g
<1>7. ASSUME NEW k \in 1..Len(f)
      PROVE  /\ g[k].kind = f[k].kind /\ g[k].bare = f[k].bare
             /\ Len(g[k].blocks) = Len(f[k].blocks)
             /\ \A c \in 1..Len(f[k].blocks) :
                  /\ g[k].blocks[c].type = f[k].blocks[c].type
                  /\ g[k].blocks[c].text =
                       IF k = l /\ c = b THEN t ELSE f[k].blocks[c].text
  <2> HIDE DEF f
  <2>1. CASE k = l
    BY <1>3, <1>4, <1>5, <1>6, <1>7, <2>1
  <2>2. CASE k # l
    BY <1>6, <1>7, <2>2
  <2> QED
    BY <2>1, <2>2
<1> QED
  BY <1>1, <1>6, <1>7 DEF f

\* The lists have changed in their texts only.
SameShape(n) ==
  /\ DOMAIN n = JobFields
  /\ n.src = job.src /\ n.opts = job.opts /\ n.squeezed = job.squeezed
  /\ n.lists \in Seq(ListSet(Terms)) /\ Len(n.lists) = Len(job.lists)
  /\ \A k \in 1..Len(job.lists) :
       /\ n.lists[k].kind = job.lists[k].kind /\ n.lists[k].bare = job.lists[k].bare
       /\ Len(n.lists[k].blocks) = Len(job.lists[k].blocks)
       /\ \A c \in 1..Len(job.lists[k].blocks) :
            n.lists[k].blocks[c].type = job.lists[k].blocks[c].type

LEMMA ShapedAgain ==
  ASSUME Shaped(job), NEW n, SameShape(n),
         n.pc \in {"lingua", "list", "block", "done"}, n.sketches \in Sketches
  PROVE  Shaped(n)
<1> DEFINE new == n.lists  old == job.lists  src == job.src  sq == job.squeezed
<1>a. /\ DOMAIN n = JobFields /\ n.src = src /\ n.opts = job.opts /\ n.squeezed = sq
      /\ new \in Seq(ListSet(Terms)) /\ Len(new) = Len(old)
      /\ \A k \in 1..Len(old) :
           /\ new[k].kind = old[k].kind /\ new[k].bare = old[k].bare
           /\ Len(new[k].blocks) = Len(old[k].blocks)
           /\ \A c \in 1..Len(old[k].blocks) : new[k].blocks[c].type = old[k].blocks[c].type
  BY DEF SameShape
<1>b. /\ src \in Payloads /\ job.opts \in Options /\ Len(old) = Len(src.lists)
      /\ sq \in Seq(Seq(BlockSet(Plains))) /\ Len(sq) = Len(src.lists)
      /\ \A k \in 1..Len(src.lists) :
           /\ old[k].kind = src.lists[k].kind /\ old[k].bare = src.lists[k].bare
           /\ Len(old[k].blocks) = Len(src.lists[k].blocks)
           /\ Len(sq[k]) = Len(src.lists[k].blocks)
           /\ \A c \in 1..Len(src.lists[k].blocks) :
                old[k].blocks[c].type = src.lists[k].blocks[c].type
  BY DEF Shaped
<1> HIDE DEF new, old, src, sq
<1>c. /\ Len(new) = Len(src.lists)
      /\ \A k \in 1..Len(src.lists) :
           /\ new[k].kind = src.lists[k].kind /\ new[k].bare = src.lists[k].bare
           /\ Len(new[k].blocks) = Len(src.lists[k].blocks)
           /\ Len(sq[k]) = Len(src.lists[k].blocks)
           /\ \A c \in 1..Len(src.lists[k].blocks) :
                new[k].blocks[c].type = src.lists[k].blocks[c].type
  <2>1. Len(old) = Len(src.lists) /\ Len(new) = Len(src.lists)
    BY <1>a, <1>b
  <2>2. ASSUME NEW k \in 1..Len(src.lists)
        PROVE  /\ new[k].kind = src.lists[k].kind /\ new[k].bare = src.lists[k].bare
               /\ Len(new[k].blocks) = Len(src.lists[k].blocks)
               /\ Len(sq[k]) = Len(src.lists[k].blocks)
               /\ \A c \in 1..Len(src.lists[k].blocks) :
                    new[k].blocks[c].type = src.lists[k].blocks[c].type
    <3> DEFINE m == 1..Len(src.lists[k].blocks)
    <3>1. /\ new[k].kind = old[k].kind /\ new[k].bare = old[k].bare
          /\ Len(new[k].blocks) = Len(old[k].blocks)
          /\ \A c \in 1..Len(old[k].blocks) : new[k].blocks[c].type = old[k].blocks[c].type
      BY <1>a, <2>1, <2>2
    <3>2. /\ old[k].kind = src.lists[k].kind /\ old[k].bare = src.lists[k].bare
          /\ Len(old[k].blocks) = Len(src.lists[k].blocks)
          /\ Len(sq[k]) = Len(src.lists[k].blocks)
          /\ \A c \in m : old[k].blocks[c].type = src.lists[k].blocks[c].type
      BY <1>b, <2>2, Zenon
    <3>3. \A c \in m : new[k].blocks[c].type = old[k].blocks[c].type
      BY <3>1, <3>2, Zenon
    <3> HIDE DEF m
    <3>4. \A c \in m : new[k].blocks[c].type = src.lists[k].blocks[c].type
      BY <3>2, <3>3, Zenon
    <3> QED
      BY <3>1, <3>2, <3>4 DEF m
  <2> QED
    BY <2>1, <2>2, Zenon
<1>d. n.lists = new
  BY DEF new
<1> QED
  <2>1. n.src \in Payloads /\ n.opts \in Options /\ n.lists \in Seq(ListSet(Terms))
    BY <1>a, <1>b, <1>d
  <2>2. n.squeezed \in Seq(Seq(BlockSet(Plains)))
    BY <1>a, <1>b
  <2>3. Len(n.squeezed) = Len(n.src.lists) /\ Len(n.lists) = Len(n.src.lists)
    BY <1>a, <1>b, <1>d
  <2>4. \A k \in 1..Len(n.src.lists) :
          /\ n.lists[k].kind = n.src.lists[k].kind /\ n.lists[k].bare = n.src.lists[k].bare
          /\ Len(n.lists[k].blocks) = Len(n.src.lists[k].blocks)
          /\ Len(n.squeezed[k]) = Len(n.src.lists[k].blocks)
          /\ \A c \in 1..Len(n.src.lists[k].blocks) :
               n.lists[k].blocks[c].type = n.src.lists[k].blocks[c].type
    BY <1>a, <1>c, <1>d, Zenon
  <2> QED
    BY <1>a, <2>1, <2>2, <2>3, <2>4, Zenon DEF Shaped

\* Text t takes the place of one text, and the lists are else as they were.
OneText(n, l, b, t) ==
  /\ DOMAIN n = JobFields
  /\ n.src = job.src /\ n.opts = job.opts /\ n.squeezed = job.squeezed
  /\ n.lists \in Seq(ListSet(Terms)) /\ Len(n.lists) = Len(job.lists)
  /\ \A k \in 1..Len(job.lists) :
       /\ n.lists[k].kind = job.lists[k].kind /\ n.lists[k].bare = job.lists[k].bare
       /\ Len(n.lists[k].blocks) = Len(job.lists[k].blocks)
       /\ \A c \in 1..Len(job.lists[k].blocks) :
            /\ n.lists[k].blocks[c].type = job.lists[k].blocks[c].type
            /\ n.lists[k].blocks[c].text =
                 IF k = l /\ c = b THEN t ELSE job.lists[k].blocks[c].text

\* What the other places see of it.
Alike(n, l, b, t) ==
  /\ n.opts = job.opts
  /\ \A k, c : IsPlace(n, k, c) <=> IsPlace(job, k, c)
  /\ \A k, c : Came(n, k, c) = Came(job, k, c)
  /\ \A k, c : ToVisit(n, k, c) <=> ToVisit(job, k, c)
  /\ \A k, c : IsPlace(job, k, c) =>
       Text(n, k, c) = IF k = l /\ c = b THEN t ELSE Text(job, k, c)

LEMMA OneTextShaped ==
  ASSUME Shaped(job), NEW n, NEW l, NEW b, NEW t, OneText(n, l, b, t),
         n.pc \in {"lingua", "list", "block", "done"}, n.sketches \in Sketches
  PROVE  Shaped(n) /\ Alike(n, l, b, t)
<1>1. Shaped(n)
  <2>1. SameShape(n)
    BY DEF OneText, SameShape
  <2> QED
    BY <2>1, ShapedAgain
<1>2. \A k, c : IsPlace(n, k, c) <=> IsPlace(job, k, c)
  BY DEF IsPlace, OneText
<1>3. \A k, c : Came(n, k, c) = Came(job, k, c)
  BY DEF Came, OneText
<1>4. \A k, c : ToVisit(n, k, c) <=> ToVisit(job, k, c)
  BY DEF ToVisit, OneText
<1>5. ASSUME NEW k, NEW c, IsPlace(job, k, c)
      PROVE  Text(n, k, c) = IF k = l /\ c = b THEN t ELSE Text(job, k, c)
  <2>1. k \in 1..Len(job.lists) /\ c \in 1..Len(job.lists[k].blocks)
    BY <1>5 DEF Shaped, IsPlace
  <2> QED
    BY <2>1 DEF OneText, Text
<1>6. n.opts = job.opts
  BY DEF OneText
<1> QED
  BY <1>1, <1>2, <1>3, <1>4, <1>5, <1>6, Zenon DEF Alike

LEMMA OneTextRewritten ==
  ASSUME Shaped(job), NEW l, NEW b, IsPlace(job, l, b), NEW t \in Terms, NEW n,
         DOMAIN n = JobFields, n.src = job.src, n.opts = job.opts,
         n.squeezed = job.squeezed, n.lists = Rewritten(<<l, b>>, t)
  PROVE  OneText(n, l, b, t)
BY RewrittenParts DEF OneText

LEMMA OneTextUnchanged ==
  ASSUME Shaped(job), NEW l, NEW b, NEW n,
         DOMAIN n = JobFields, n.src = job.src, n.opts = job.opts,
         n.squeezed = job.squeezed, n.lists = job.lists
  PROVE  OneText(n, l, b, Text(job, l, b))
BY DEF OneText, Shaped, Text

\* The place that follows the one the job is at.
LEMMA AfterParts ==
  ASSUME Shaped(job), Sited(job), job.at[1] <= Len(job.src.lists)
  PROVE  LET l == job.at[1]  b == job.at[2]  q == After(job.at)
         IN /\ IsPlace(job, l, b) /\ job.at = <<l, b>>
            /\ Len(List.blocks) = Len(job.src.lists[l].blocks)
            /\ q = IF b < Len(List.blocks) THEN <<l, b + 1>> ELSE <<l + 1, 1>>
            /\ q \in Nat \X Nat /\ q[1] \in 1..(Len(job.src.lists) + 1) /\ q[2] >= 1
            /\ q[1] <= Len(job.src.lists) => IsPlace(job, q[1], q[2])
            /\ \A k, c : IsPlace(job, k, c) =>
                 (Earlier(k, c, q[1], q[2]) <=>
                    Earlier(k, c, l, b) \/ (k = l /\ c = b))
<1> DEFINE l == job.at[1]
           b == job.at[2]
           q == After(job.at)
           N == Len(job.src.lists)
           Size(k) == Len(job.src.lists[k].blocks)
<1>1. /\ IsPlace(job, l, b) /\ job.at = <<l, b>> /\ l \in Nat /\ b \in Nat
  BY DEF Sited
<1>2. N \in Nat /\ \A k \in 1..N : Size(k) \in Nat /\ Size(k) >= 1
  BY PayloadParts DEF Shaped
<1>3. l \in 1..N /\ b \in 1..Size(l)
  BY <1>1 DEF IsPlace
<1>4. Len(List.blocks) = Size(l)
  BY <1>3 DEF List, Shaped
<1>5. q = IF b < Size(l) THEN <<l, b + 1>> ELSE <<l + 1, 1>>
  BY <1>1, <1>4 DEF After, List
<1>6. \A k, c : IsPlace(job, k, c) <=> k \in 1..N /\ c \in 1..Size(k)
  BY DEF IsPlace
<1> HIDE DEF l, b, q, N, Size
<1>7. /\ q \in Nat \X Nat /\ q[1] \in 1..(N + 1) /\ q[2] >= 1
      /\ q[1] <= N => q[1] \in 1..N /\ q[2] \in 1..Size(q[1])
  BY <1>2, <1>3, <1>5
<1>8. ASSUME NEW k \in 1..N, NEW c \in 1..Size(k)
      PROVE  Earlier(k, c, q[1], q[2]) <=> Earlier(k, c, l, b) \/ (k = l /\ c = b)
  BY <1>2, <1>3, <1>5 DEF Earlier
<1>9. q[1] <= N => IsPlace(job, q[1], q[2])
  BY <1>6, <1>7
<1>10. \A k, c : IsPlace(job, k, c) =>
         (Earlier(k, c, q[1], q[2]) <=> Earlier(k, c, l, b) \/ (k = l /\ c = b))
  BY <1>6, <1>8
<1>11. q = IF b < Len(List.blocks) THEN <<l, b + 1>> ELSE <<l + 1, 1>>
  BY <1>4, <1>5
<1> QED
  BY <1>1, <1>4, <1>7, <1>9, <1>10, <1>11 DEF l, b, q, N, Size

LEMMA GivenType ==
  ASSUME Shaped(job), NEW l, NEW b, IsPlace(job, l, b), NEW g, Given(job, l, b, g)
  PROVE  g \in Givens
<1>1. Came(job, l, b) \in Plains /\ b \in Nat
  BY PlaceParts
<1> DEFINE t == Came(job, l, b)
<1>2. \/ g = t
      \/ \E c \in 1..(b - 1) : g = LSHMark(c, t.of)
  BY DEF Given
<1> HIDE DEF t
<1>3. t \in Plains
  BY <1>1 DEF t
<1>4. t.of \in Texts /\ t \in Givens
  BY <1>3, SameTerms
<1> QED
  BY <1>1, <1>2, <1>4, SameTerms

\* A text that changes from one that is no LSH marker into another that is none
\* leaves the markers that name it as they were.
LEMMA GivenStays ==
  ASSUME NEW n, NEW l, NEW b, NEW t, Alike(n, l, b, t),
         Source(Text(job, l, b)).tag # "lsh" => Source(t).tag # "lsh",
         NEW k, NEW c, c \in Nat, IsPlace(job, k, c), NEW g, Given(job, k, c, g)
  PROVE  Given(n, k, c, g)
<1>1. CASE g = Came(job, k, c)
  BY <1>1 DEF Given, Alike
<1>2. ASSUME NEW e \in 1..(c - 1),
             /\ g = LSHMark(e, Came(job, k, c).of)
             /\ LSHScore[<<Came(job, k, c).of, Came(job, k, e).of>>] >= LSHThreshold
             /\ Source(Text(job, k, e)).tag # "lsh"
      PROVE  Given(n, k, c, g)
  <2>1. IsPlace(job, k, e)
    BY DEF IsPlace
  <2>2. Text(n, k, e) = IF k = l /\ e = b THEN t ELSE Text(job, k, e)
    BY <2>1 DEF Alike
  <2>3. Source(Text(n, k, e)).tag # "lsh"
    BY <1>2, <2>2
  <2>4. Came(n, k, c) = Came(job, k, c) /\ Came(n, k, e) = Came(job, k, e)
    BY DEF Alike
  <2> QED
    BY <1>2, <2>3, <2>4 DEF Given
<1> QED
  BY <1>1, <1>2 DEF Given

\* A JL marker at, or before, the place of the new text stays one.
LinksTo(l, b, t) ==
  \E k, c \in Nat :
    /\ IsPlace(job, k, c) /\ Earlier(k, c, l, b)
    /\ t = JLMark(<<k, c>>, Came(job, l, b).of)
    /\ Kept(Text(job, k, c))
    /\ JLScore[<<Came(job, l, b).of, Came(job, k, c).of>>] >= JLThreshold

LEMMA LinkStays ==
  ASSUME NEW n, NEW l \in Nat, NEW b \in Nat, NEW t, Alike(n, l, b, t),
         NEW k \in Nat, NEW c \in Nat, IsPlace(job, k, c),
         Earlier(k, c, l, b) \/ (k = l /\ c = b),
         LinksTo(k, c, Text(n, k, c))
  PROVE  Linked(n, k, c)
<1>1. PICK i \in Nat, e \in Nat :
        /\ IsPlace(job, i, e) /\ Earlier(i, e, k, c)
        /\ Text(n, k, c) = JLMark(<<i, e>>, Came(job, k, c).of)
        /\ Kept(Text(job, i, e))
        /\ JLScore[<<Came(job, k, c).of, Came(job, i, e).of>>] >= JLThreshold
  BY DEF LinksTo
<1>2. ~(i = l /\ e = b)
  BY <1>1 DEF Earlier
<1>3. /\ IsPlace(n, i, e) /\ Text(n, i, e) = Text(job, i, e)
      /\ Came(n, k, c) = Came(job, k, c) /\ Came(n, i, e) = Came(job, i, e)
  BY <1>1, <1>2 DEF Alike
<1>4. /\ IsPlace(n, i, e) /\ Earlier(i, e, k, c)
      /\ Text(n, k, c) = JLMark(<<i, e>>, Came(n, k, c).of)
      /\ Kept(Text(n, i, e))
      /\ JLScore[<<Came(n, k, c).of, Came(n, i, e).of>>] >= JLThreshold
  BY <1>1, <1>3
<1> QED
  BY <1>4, Zenon DEF Linked

\* What is settled depends on the texts up to there.
SameUpTo(n, k, c) ==
  /\ n.opts = job.opts
  /\ \A i, e : IsPlace(n, i, e) <=> IsPlace(job, i, e)
  /\ \A i, e : Came(n, i, e) = Came(job, i, e)
  /\ \A i, e : ToVisit(n, i, e) <=> ToVisit(job, i, e)
  /\ \A i, e \in Nat : IsPlace(job, i, e) /\ (Earlier(i, e, k, c) \/ (i = k /\ e = c)) =>
       Text(n, i, e) = Text(job, i, e)

LEMMA SettledSame ==
  ASSUME NEW n, NEW k \in Nat, NEW c \in Nat, IsPlace(job, k, c), SameUpTo(n, k, c),
         Settled(job, k, c)
  PROVE  Settled(n, k, c)
<1>1. PICK g : /\ Given(job, k, c, g)
               /\ IF ToVisit(job, k, c)
                    THEN \/ Text(job, k, c) = Compressed(g, job.opts.cfg)
                         \/ g = Came(job, k, c) /\ Linked(job, k, c)
                    ELSE Text(job, k, c) = g
  BY DEF Settled
<1>2. /\ Text(n, k, c) = Text(job, k, c) /\ Came(n, k, c) = Came(job, k, c)
      /\ ToVisit(n, k, c) <=> ToVisit(job, k, c)
      /\ n.opts = job.opts
  BY DEF SameUpTo
<1>3. Given(n, k, c, g)
  <2>1. CASE g = Came(job, k, c)
    BY <1>2, <2>1 DEF Given
  <2>2. ASSUME NEW e \in 1..(c - 1),
               /\ g = LSHMark(e, Came(job, k, c).of)
               /\ LSHScore[<<Came(job, k, c).of, Came(job, k, e).of>>] >= LSHThreshold
               /\ Source(Text(job, k, e)).tag # "lsh"
        PROVE  Given(n, k, c, g)
    <3>1. IsPlace(job, k, e) /\ e \in Nat /\ Earlier(k, e, k, c)
      BY DEF IsPlace, Earlier
    <3>2. Text(n, k, e) = Text(job, k, e) /\ Came(n, k, e) = Came(job, k, e)
      BY <3>1 DEF SameUpTo
    <3> QED
      BY <1>2, <2>2, <3>2 DEF Given
  <2> QED
    BY <1>1, <2>1, <2>2 DEF Given
<1>4. ASSUME Linked(job, k, c) PROVE Linked(n, k, c)
  <2>1. PICK i \in Nat, e \in Nat :
          /\ IsPlace(job, i, e) /\ Earlier(i, e, k, c)
          /\ Text(job, k, c) = JLMark(<<i, e>>, Came(job, k, c).of)
          /\ Kept(Text(job, i, e))
          /\ JLScore[<<Came(job, k, c).of, Came(job, i, e).of>>] >= JLThreshold
    BY <1>4 DEF Linked
  <2>2. /\ IsPlace(n, i, e) /\ Text(n, i, e) = Text(job, i, e)
        /\ Came(n, i, e) = Came(job, i, e)
    BY <2>1 DEF SameUpTo
  <2>3. /\ IsPlace(n, i, e) /\ Earlier(i, e, k, c)
        /\ Text(n, k, c) = JLMark(<<i, e>>, Came(n, k, c).of)
        /\ Kept(Text(n, i, e))
        /\ JLScore[<<Came(n, k, c).of, Came(n, i, e).of>>] >= JLThreshold
    BY <1>2, <2>1, <2>2
  <2> QED
    BY <2>3, Zenon DEF Linked
<1> QED
  BY <1>1, <1>2, <1>3, <1>4, Zenon DEF Settled

LEMMA SettledStays ==
  ASSUME NEW n, NEW l \in Nat, NEW b \in Nat, NEW t, Alike(n, l, b, t),
         NEW k \in Nat, NEW c \in Nat, IsPlace(job, k, c), Earlier(k, c, l, b),
         Settled(job, k, c)
  PROVE  Settled(n, k, c)
<1>1. ASSUME NEW i \in Nat, NEW e \in Nat, IsPlace(job, i, e),
             Earlier(i, e, k, c) \/ (i = k /\ e = c)
      PROVE  Text(n, i, e) = Text(job, i, e)
  <2>1. ~(i = l /\ e = b)
    BY <1>1 DEF Earlier
  <2> QED
    BY <1>1, <2>1 DEF Alike
<1>2. SameUpTo(n, k, c)
  BY <1>1 DEF SameUpTo, Alike
<1> QED
  BY <1>2, SettledSame

-----------------------------------------------------------------------------
\* What the engines may leave of block b of list l.
Outcome(l, b, t) ==
  IF ToVisit(job, l, b)
    THEN \/ t = Compressed(Text(job, l, b), job.opts.cfg)
         \/ Text(job, l, b) = Came(job, l, b) /\ LinksTo(l, b, t)
    ELSE t = Text(job, l, b)

\* The sketches after the step: those before it, and one of the block if it is kept.
SketchesGrow(n, t) ==
  /\ n.sketches \in Sketches
  /\ \A i \in 1..Len(n.sketches) :
       \/ i \in 1..Len(job.sketches) /\ n.sketches[i] = job.sketches[i]
       \/ /\ n.sketches[i] = [text |-> Came(job, job.at[1], job.at[2]).of, at |-> job.at]
          /\ Kept(t)

LEMMA OutcomeType ==
  ASSUME JobInv(job), NEW l, NEW b, IsPlace(job, l, b),
         Given(job, l, b, Text(job, l, b)), NEW t, Outcome(l, b, t)
  PROVE  /\ t \in Terms
         /\ Source(Text(job, l, b)).tag # "lsh" => Source(t).tag # "lsh"
         /\ Kept(Text(job, l, b)) /\ t = Text(job, l, b) => Kept(t)
<1> DEFINE g == Text(job, l, b)
<1>1. g \in Givens /\ job.opts.cfg \in Configs /\ Came(job, l, b) \in Plains
  BY GivenType, PlaceParts DEF JobInv, Shaped, Configs
<1>2. CASE t = g
  BY <1>1, <1>2, SameTerms DEF Terms
<1>3. CASE t = Compressed(g, job.opts.cfg)
  <2>1. t \in Outs /\ Source(t) = g /\ Source(g) = g
    BY <1>1, <1>3, CompressedParts, GivenTag
  <2> QED
    BY <2>1 DEF Terms
<1>4. ASSUME LinksTo(l, b, t)
      PROVE  t \in Terms /\ Source(t).tag # "lsh"
  <2>1. PICK k \in Nat, c \in Nat : t = JLMark(<<k, c>>, Came(job, l, b).of)
    BY <1>4 DEF LinksTo
  <2>2. t \in Links
    BY <1>1, <2>1, SameTerms
  <2>3. t.tag = "jl"
    BY <2>1 DEF JLMark
  <2> QED
    BY <2>2, <2>3 DEF Terms, Source
<1> HIDE DEF g
<1>5. t = g \/ t = Compressed(g, job.opts.cfg) \/ LinksTo(l, b, t)
  BY Zenon DEF Outcome, g
<1> QED
  BY <1>2, <1>3, <1>4, <1>5 DEF g

\* The engines leave a block behind and move on.
LEMMA Passed ==
  ASSUME JobInv(job), job.pc = "block", NEW n, NEW t,
         OneText(n, job.at[1], job.at[2], t), Outcome(job.at[1], job.at[2], t),
         n.at = After(job.at),
         n.pc = IF job.at[2] < Len(List.blocks) THEN "block" ELSE "list",
         SketchesGrow(n, t)
  PROVE  JobInv(n)
<1> DEFINE l == job.at[1]
           b == job.at[2]
<1>1. /\ Shaped(job) /\ Sited(job) /\ Worked(job)
      /\ IsPlace(job, l, b) /\ job.at = <<l, b>> /\ l \in Nat /\ b \in Nat
      /\ l \in 1..Len(job.src.lists) /\ Len(job.src.lists) \in Nat
  BY PlaceParts DEF JobInv, Sited, IsPlace
<1>2. /\ n.at = IF b < Len(List.blocks) THEN <<l, b + 1>> ELSE <<l + 1, 1>>
      /\ n.at \in Nat \X Nat /\ n.at[1] \in 1..(Len(job.src.lists) + 1) /\ n.at[2] >= 1
      /\ n.at[1] <= Len(job.src.lists) => IsPlace(job, n.at[1], n.at[2])
      /\ \A k, c : IsPlace(job, k, c) =>
           (Earlier(k, c, n.at[1], n.at[2]) <=> Earlier(k, c, l, b) \/ (k = l /\ c = b))
  BY <1>1, AfterParts
<1>3. Shaped(n) /\ Alike(n, l, b, t)
  BY <1>1, OneTextShaped DEF SketchesGrow
<1>4. /\ n.src = job.src /\ n.opts = job.opts
  BY DEF OneText
<1>5. Given(job, l, b, Text(job, l, b))
  <2>1. ~Earlier(l, b, l, b)
    BY <1>1 DEF Earlier
  <2> QED
    BY <1>1, <2>1 DEF Worked
<1>6. /\ t \in Terms
      /\ Source(Text(job, l, b)).tag # "lsh" => Source(t).tag # "lsh"
  BY <1>1, <1>5, OutcomeType
<1> HIDE DEF l, b
<1>7. Text(n, l, b) = t
  BY <1>1, <1>3 DEF Alike
<1>8. Sited(n)
  <2>1. /\ n.at \in Nat \X Nat /\ n.at[1] \in 1..(Len(n.src.lists) + 1) /\ n.at[2] >= 1
        /\ n.at[1] <= Len(n.src.lists) => IsPlace(n, n.at[1], n.at[2])
    BY <1>2, <1>3, <1>4 DEF Alike
  <2>2. CASE b < Len(List.blocks)
    <3>1. n.pc = "block" /\ n.at[1] = l
      BY <1>2, <2>2 DEF b
    <3>2. n.src.lists[n.at[1]].kind = "system" => CompressSystem
      BY <1>1, <1>4, <3>1 DEF Sited, l
    <3> QED
      BY <1>1, <1>4, <2>1, <3>1, <3>2 DEF Sited
  <2>3. CASE ~(b < Len(List.blocks))
    <3>1. n.pc = "list" /\ n.at[2] = 1
      BY <1>2, <2>3 DEF b
    <3> QED
      BY <2>1, <3>1 DEF Sited
  <2> QED
    BY <2>2, <2>3
<1>9. Settled(n, l, b)
  <2> DEFINE g == Text(job, l, b)
  <2>1. Given(n, l, b, g)
    BY <1>1, <1>3, <1>5, <1>6, GivenStays
  <2>2. /\ Came(n, l, b) = Came(job, l, b)
        /\ ToVisit(n, l, b) <=> ToVisit(job, l, b)
    BY <1>3 DEF Alike
  <2>3. ASSUME LinksTo(l, b, t) PROVE Linked(n, l, b)
    BY <1>1, <1>3, <1>7, <2>3, LinkStays
  <2>4. IF ToVisit(job, l, b)
          THEN \/ t = Compressed(g, job.opts.cfg)
               \/ g = Came(job, l, b) /\ LinksTo(l, b, t)
          ELSE t = g
    BY DEF Outcome, l, b
  <2> HIDE DEF g
  <2> QED
    BY <1>4, <1>7, <2>1, <2>2, <2>3, <2>4, Zenon DEF Settled
<1>10. ASSUME NEW k \in Nat, NEW c \in Nat, IsPlace(n, k, c)
       PROVE  IF Earlier(k, c, n.at[1], n.at[2]) THEN Settled(n, k, c)
              ELSE IF n.pc = "block" /\ k = n.at[1] THEN Given(n, k, c, Text(n, k, c))
              ELSE Text(n, k, c) = Came(n, k, c)
  <2>1. IsPlace(job, k, c)
    BY <1>3, <1>10 DEF Alike
  <2>2. IF Earlier(k, c, l, b) THEN Settled(job, k, c)
        ELSE IF k = l THEN Given(job, k, c, Text(job, k, c))
        ELSE Text(job, k, c) = Came(job, k, c)
    BY <1>1, <2>1 DEF Worked, l, b
  <2>3. CASE Earlier(k, c, l, b)
    <3>1. Settled(n, k, c)
      BY <1>1, <1>3, <2>1, <2>2, <2>3, SettledStays
    <3> QED
      BY <1>2, <2>1, <2>3, <3>1
  <2>4. CASE k = l /\ c = b
    BY <1>2, <1>9, <2>1, <2>4
  <2>5. CASE ~Earlier(k, c, l, b) /\ ~(k = l /\ c = b)
    <3>1. ~Earlier(k, c, n.at[1], n.at[2])
      BY <1>2, <2>1, <2>5
    <3>2. Text(n, k, c) = Text(job, k, c) /\ Came(n, k, c) = Came(job, k, c)
      BY <1>3, <2>1, <2>5 DEF Alike
    <3>3. CASE k = l
      <4>1. Given(n, k, c, Text(n, k, c))
        BY <1>3, <1>6, <2>1, <2>2, <2>5, <3>2, <3>3, GivenStays
      <4>2. n.at[1] = l
        <5>1. IsPlace(job, l, c) /\ c > b
          BY <1>1, <2>1, <2>5, <3>3 DEF Earlier
        <5>2. c \in 1..Len(job.src.lists[l].blocks) /\ Len(job.src.lists[l].blocks) \in Nat
          BY <1>1, <5>1, PlaceParts DEF IsPlace
        <5>3. Len(List.blocks) = Len(job.src.lists[l].blocks)
          BY <1>1, AfterParts DEF l
        <5> QED
          BY <1>1, <1>2, <5>1, <5>2, <5>3
      <4>3. n.pc = "block"
        BY <1>2, <1>1, <4>2 DEF b
      <4> QED
        BY <3>1, <3>3, <4>1, <4>2, <4>3
    <3>4. CASE k # l
      <4>1. Text(n, k, c) = Came(n, k, c)
        BY <2>2, <2>5, <3>2, <3>4
      <4>2. ~(n.pc = "block" /\ k = n.at[1])
        BY <1>1, <1>2, <3>4 DEF b
      <4> QED
        BY <3>1, <4>1, <4>2
    <3> QED
      BY <3>3, <3>4
  <2> QED
    BY <2>3, <2>4, <2>5
<1>11. ASSUME NEW i \in 1..Len(n.sketches)
       PROVE  LET k == n.sketches[i].at[1]  c == n.sketches[i].at[2]
              IN /\ IsPlace(n, k, c) /\ Earlier(k, c, n.at[1], n.at[2])
                 /\ n.sketches[i].text = Came(n, k, c).of
                 /\ Kept(Text(n, k, c))
  <2>1. CASE i \in 1..Len(job.sketches) /\ n.sketches[i] = job.sketches[i]
    <3> DEFINE s == job.sketches[i]
               k == s.at[1]
               c == s.at[2]
    <3>1. /\ IsPlace(job, k, c) /\ Earlier(k, c, l, b)
          /\ s.text = Came(job, k, c).of /\ Kept(Text(job, k, c))
      BY <1>1, <2>1 DEF Worked, l, b
    <3>2. n.sketches[i] = s
      BY <2>1
    <3> HIDE DEF s
    <3>3. ~(k = l /\ c = b)
      BY <1>1, <3>1 DEF Earlier
    <3>4. Text(n, k, c) = Text(job, k, c) /\ Came(n, k, c) = Came(job, k, c) /\ IsPlace(n, k, c)
      BY <1>3, <3>1, <3>3 DEF Alike
    <3>5. Earlier(k, c, n.at[1], n.at[2])
      BY <1>2, <3>1
    <3> QED
      BY <3>1, <3>2, <3>4, <3>5
  <2>2. CASE /\ n.sketches[i] = [text |-> Came(job, l, b).of, at |-> <<l, b>>]
             /\ Kept(t)
    <3>1. n.sketches[i].at = <<l, b>> /\ n.sketches[i].text = Came(job, l, b).of
      BY <2>2
    <3>2. IsPlace(n, l, b) /\ Came(n, l, b) = Came(job, l, b)
      BY <1>1, <1>3 DEF Alike
    <3>3. Earlier(l, b, n.at[1], n.at[2])
      BY <1>1, <1>2
    <3> QED
      BY <1>7, <2>2, <3>1, <3>2, <3>3
  <2> QED
    BY <1>1, <2>1, <2>2 DEF SketchesGrow, l, b
<1>12. n.pc # "lingua"
  OBVIOUS
<1> QED
  BY <1>3, <1>8, <1>10, <1>11, <1>12, Zenon DEF JobInv, Worked

-----------------------------------------------------------------------------
LEMMA MovedParts ==
  ASSUME NEW j, DOMAIN j = JobFields
  PROVE  LET n == Moved(j)
         IN /\ DOMAIN n = JobFields /\ n.src = j.src /\ n.opts = j.opts
            /\ n.lists = j.lists /\ n.squeezed = j.squeezed /\ n.sketches = j.sketches
            /\ n.at = After(j.at)
            /\ n.pc = IF j.at[2] < Len(List.blocks) THEN "block" ELSE "list"
BY Zenon DEF Moved, JobFields

\* The block the job is at, when the engines are on a list.
LEMMA Current ==
  ASSUME JobInv(job), job.pc = "block"
  PROVE  LET l == job.at[1]  b == job.at[2]  t == Block(job.at).text
         IN /\ IsPlace(job, l, b) /\ job.at = <<l, b>> /\ job.at \in Nat \X Nat
            /\ t = Text(job, l, b) /\ t \in Givens /\ Given(job, l, b, t)
            /\ t.tag = "text" => t = Came(job, l, b) /\ Kept(t)
            /\ job.opts.cfg \in Configs /\ DOMAIN job = JobFields
            /\ List = job.lists[l] /\ List.kind = job.src.lists[l].kind
            /\ Block(job.at).type = job.src.lists[l].blocks[b].type
            /\ List.kind = "system" => CompressSystem
<1> DEFINE l == job.at[1]
           b == job.at[2]
           t == Text(job, l, b)
<1>1. /\ Shaped(job) /\ Sited(job) /\ Worked(job)
      /\ IsPlace(job, l, b) /\ job.at = <<l, b>> /\ job.at \in Nat \X Nat
      /\ l \in Nat /\ b \in Nat
  BY PlaceParts DEF JobInv, Sited
<1>2. Given(job, l, b, t)
  <2>1. ~Earlier(l, b, l, b)
    BY <1>1 DEF Earlier
  <2> QED
    BY <1>1, <2>1 DEF Worked
<1>3. t \in Givens /\ job.opts.cfg \in Configs /\ DOMAIN job = JobFields
  BY <1>1, <1>2, GivenType DEF Shaped, Configs
<1>4. t.tag = "text" => t = Came(job, l, b) /\ Kept(t)
  <2>1. \A c, u : LSHMark(c, u).tag = "lsh"
    BY DEF LSHMark
  <2>2. Source(t) = t
    BY <1>3, GivenTag
  <2> QED
    BY <1>2, <2>1, <2>2 DEF Given, Kept
<1>5. /\ Block(job.at).text = t /\ List = job.lists[l]
      /\ Block(job.at).type = job.lists[l].blocks[b].type
  BY DEF Block, Text, List
<1>6. List.kind = job.src.lists[l].kind
      /\ Block(job.at).type = job.src.lists[l].blocks[b].type
  BY <1>1, <1>5 DEF Shaped, IsPlace
<1>7. List.kind = "system" => CompressSystem
  BY <1>1, <1>6 DEF Sited
<1> QED
  BY <1>1, <1>2, <1>3, <1>4, <1>5, <1>6, <1>7

\* A block that is not visited stays.
LEMMA BlockLeft ==
  ASSUME JobInv(job), job.pc = "block", ~ToVisit(job, job.at[1], job.at[2]),
         NEW n, n = Moved(job)
  PROVE  JobInv(n)
<1> DEFINE l == job.at[1]
           b == job.at[2]
           t == Text(job, l, b)
<1>1. IsPlace(job, l, b) /\ DOMAIN job = JobFields /\ Shaped(job)
  BY Current DEF JobInv
<1>2. /\ DOMAIN n = JobFields /\ n.src = job.src /\ n.opts = job.opts
      /\ n.lists = job.lists /\ n.squeezed = job.squeezed /\ n.sketches = job.sketches
      /\ n.at = After(job.at)
      /\ n.pc = IF b < Len(List.blocks) THEN "block" ELSE "list"
  BY <1>1, MovedParts
<1>3. OneText(n, l, b, t)
  BY <1>1, <1>2, OneTextUnchanged
<1>4. Outcome(l, b, t)
  BY DEF Outcome
<1>5. SketchesGrow(n, t)
  BY <1>1, <1>2 DEF SketchesGrow, Shaped
<1> HIDE DEF t
<1> QED
  BY <1>2, <1>3, <1>4, <1>5, Passed

-----------------------------------------------------------------------------
\* What the cache holds under a key is what the engines make of its text.
LEMMA EntryHolds ==
  ASSUME NEW e \in Entries, NEW g, NEW c, e.key = CacheKey(g, c)
  PROVE  e.value = Compressed(g, c)
<1>1. PICK h \in Givens, d \in Configs :
        e = [key |-> CacheKey(h, d), value |-> Compressed(h, d)]
  BY DEF Entries
<1>2. CacheKey(h, d) = CacheKey(g, c) /\ e.value = Compressed(h, d)
  BY <1>1
<1>3. CacheKey(h, d).of = h /\ CacheKey(h, d).cfg = d
      /\ CacheKey(g, c).of = g /\ CacheKey(g, c).cfg = c
  BY DEF CacheKey
<1>4. h = g /\ d = c
  BY <1>2, <1>3
<1> QED
  BY <1>2, <1>4

LEMMA TouchKeeps ==
  ASSUME CacheInv, NEW i \in 1..Len(cache), cache' = Touch(i)
  PROVE  CacheInv'
<1> DEFINE r == RemoveAt(cache, i)
           n == Len(cache)
           From(k) == IF k = n THEN i ELSE IF k < i THEN k ELSE k + 1
<1>1. n \in Nat /\ cache \in Seq(Entries) /\ i \in 1..n /\ cache[i] \in Entries
  BY LenProperties, ElementOfSeq DEF CacheInv
<1>2. r \in Seq(Entries) /\ Len(r) = n - 1
      /\ \A k \in 1..(n - 1) : r[k] = IF k < i THEN cache[k] ELSE cache[k + 1]
  BY <1>1, RemoveAtShape
<1> HIDE DEF r
<1>3. /\ cache' \in Seq(Entries) /\ Len(cache') = n
      /\ \A k \in 1..n : cache'[k] = IF k = n THEN cache[i] ELSE r[k]
  <2>1. cache' = Append(r, cache[i])
    BY DEF Touch, r
  <2>2. /\ Append(r, cache[i]) \in Seq(Entries)
        /\ Len(Append(r, cache[i])) = Len(r) + 1
        /\ \A k \in 1..Len(r) : Append(r, cache[i])[k] = r[k]
        /\ Append(r, cache[i])[Len(r) + 1] = cache[i]
    BY <1>1, <1>2, AppendProperties
  <2> QED
    BY <1>1, <1>2, <2>1, <2>2
<1> HIDE DEF n
<1>4. ASSUME NEW k \in 1..n
      PROVE  From(k) \in 1..n /\ cache'[k] = cache[From(k)]
  <2>1. CASE k = n
    BY <1>1, <1>3, <2>1
  <2>2. CASE k # n
    <3>1. k \in 1..(n - 1)
      BY <1>1, <2>2
    <3>2. cache'[k] = IF k < i THEN cache[k] ELSE cache[k + 1]
      BY <1>2, <1>3, <2>2, <3>1
    <3> QED
      BY <1>1, <2>2, <3>1, <3>2
  <2> QED
    BY <2>1, <2>2
<1>5. ASSUME NEW k \in 1..n, NEW m \in 1..n, From(k) = From(m)
      PROVE  k = m
  BY <1>1, <1>5
<1> HIDE DEF From
<1>6. ASSUME NEW k \in 1..n, NEW m \in 1..n, cache'[k].key = cache'[m].key
      PROVE  k = m
  <2>1. cache[From(k)].key = cache[From(m)].key
    BY <1>4, <1>6
  <2>2. \A j, h \in 1..n : cache[j].key = cache[h].key => j = h
    BY DEF CacheInv, n
  <2>3. From(k) = From(m)
    BY <1>4, <2>1, <2>2
  <2> QED
    BY <1>5, <2>3
<1>7. n <= CacheSize
  BY DEF CacheInv, n
<1> QED
  BY <1>3, <1>6, <1>7 DEF CacheInv

LEMMA StoreKeeps ==
  ASSUME CacheInv, NEW g \in Givens, NEW c \in Configs, Entry(CacheKey(g, c)) = {},
         cache' = Stored(CacheKey(g, c), Compressed(g, c))
  PROVE  CacheInv'
<1> DEFINE e == [key |-> CacheKey(g, c), value |-> Compressed(g, c)]
           all == Append(cache, e)
           n == Len(cache)
<1>1. /\ n \in Nat /\ cache \in Seq(Entries) /\ n <= CacheSize /\ e \in Entries
      /\ DOMAIN cache = 1..n
      /\ \A i, k \in 1..n : cache[i].key = cache[k].key => i = k
  BY LenProperties DEF CacheInv, Entries
<1>2. \A i \in 1..n : cache[i].key # e.key
  BY <1>1 DEF Entry
<1>3. cache' = IF Len(all) > CacheSize THEN Tail(all) ELSE all
  BY DEF Stored
<1> HIDE DEF e, n
<1>4. /\ all \in Seq(Entries) /\ Len(all) = n + 1 /\ all[n + 1] = e
      /\ \A k \in 1..n : all[k] = cache[k]
  BY <1>1, AppendProperties DEF n
<1> HIDE DEF all
<1>5. \A i, k \in 1..(n + 1) : all[i].key = all[k].key => i = k
  <2> SUFFICES ASSUME NEW i \in 1..(n + 1), NEW k \in 1..(n + 1), all[i].key = all[k].key
               PROVE  i = k
    OBVIOUS
  <2>1. CASE i \in 1..n /\ k \in 1..n
    BY <1>1, <1>4, <2>1
  <2>2. CASE i = n + 1 /\ k \in 1..n
    BY <1>2, <1>4, <2>2
  <2>3. CASE k = n + 1 /\ i \in 1..n
    BY <1>2, <1>4, <2>3
  <2> QED
    BY <1>1, <2>1, <2>2, <2>3
<1>6. CASE Len(all) > CacheSize
  <2>1. all # <<>>
    BY <1>1, <1>4
  <2>2. /\ Tail(all) \in Seq(Entries) /\ Len(Tail(all)) = n
        /\ \A i \in 1..n : Tail(all)[i] = all[i + 1]
    BY <1>1, <1>4, <2>1, HeadTailProperties
  <2>3. ASSUME NEW i \in 1..n, NEW k \in 1..n, Tail(all)[i].key = Tail(all)[k].key
        PROVE  i = k
    <3>1. all[i + 1].key = all[k + 1].key /\ i + 1 \in 1..(n + 1) /\ k + 1 \in 1..(n + 1)
      BY <1>1, <2>2, <2>3
    <3>2. i + 1 = k + 1
      BY <1>5, <3>1
    <3> QED
      BY <1>1, <3>2
  <2> QED
    BY <1>1, <1>3, <1>6, <2>2, <2>3 DEF CacheInv
<1>7. CASE ~(Len(all) > CacheSize)
  <2>1. n + 1 <= CacheSize
    BY <1>1, <1>4, <1>7, CompressorAssumption
  <2> QED
    BY <1>3, <1>4, <1>5, <1>7, <2>1 DEF CacheInv
<1> QED
  BY <1>6, <1>7

\* The cached or computed result takes the place of the block.
LEMMA CompressKeeps ==
  ASSUME CacheInv, JobInv(job), job.pc = "block", ToVisit(job, job.at[1], job.at[2]),
         NEW s, CompressText(Block(job.at).text, s),
         \/ s = job.sketches
         \/ /\ s = Sketched(Block(job.at).text.of) /\ Block(job.at).text.tag = "text"
            /\ Block(job.at).text.of \in Long
  PROVE  CacheInv' /\ JobInv(job)'
<1> DEFINE l == job.at[1]
           b == job.at[2]
           t == Block(job.at).text
           cfg == job.opts.cfg
           key == CacheKey(t, cfg)
           out == Compressed(t, cfg)
           j == [job EXCEPT !.lists = Rewritten(job.at, out), !.sketches = s]
<1>1. /\ IsPlace(job, l, b) /\ job.at = <<l, b>> /\ job.at \in Nat \X Nat
      /\ t = Text(job, l, b) /\ t \in Givens /\ cfg \in Configs /\ DOMAIN job = JobFields
      /\ t.tag = "text" => t = Came(job, l, b)
  BY Current
<1>2. out \in Terms /\ Source(out) = t
  BY <1>1, CompressedParts DEF Terms
<1>3. CacheInv' /\ job' = Moved(j)
  <2>1. CASE Entry(key) # {}
    <3>1. PICK i \in Entry(key) :
            cache' = Touch(i)
              /\ job' = Moved([job EXCEPT !.lists = Rewritten(job.at, cache[i].value),
                                          !.sketches = s])
      BY <2>1, Zenon DEF CompressText
    <3>2. i \in 1..Len(cache) /\ cache[i].key = key /\ cache[i] \in Entries
      BY LenProperties, ElementOfSeq DEF Entry, CacheInv
    <3>3. cache[i].value = out
      BY <3>2, EntryHolds
    <3>4. CacheInv'
      BY <3>1, <3>2, TouchKeeps
    <3> QED
      BY <3>1, <3>3, <3>4
  <2>2. CASE Entry(key) = {}
    <3>1. cache' = Stored(key, out) /\ job' = Moved(j)
      BY <2>2, Zenon DEF CompressText
    <3> QED
      BY <1>1, <2>2, <3>1, StoreKeeps
  <2> QED
    BY <2>1, <2>2
<1>4. /\ DOMAIN j = JobFields /\ j.src = job.src /\ j.opts = job.opts
      /\ j.squeezed = job.squeezed /\ j.at = job.at
      /\ j.lists = Rewritten(<<l, b>>, out) /\ j.sketches = s
  BY <1>1, Zenon DEF JobFields
<1> HIDE DEF j, out
<1>5. /\ DOMAIN job' = JobFields /\ job'.src = job.src /\ job'.opts = job.opts
      /\ job'.squeezed = job.squeezed /\ job'.lists = Rewritten(<<l, b>>, out)
      /\ job'.sketches = s /\ job'.at = After(job.at)
      /\ job'.pc = IF b < Len(List.blocks) THEN "block" ELSE "list"
  BY <1>3, <1>4, MovedParts
<1>6. OneText(job', l, b, out)
  BY <1>1, <1>2, <1>5, OneTextRewritten DEF JobInv
<1>7. Outcome(l, b, out)
  BY <1>1 DEF Outcome, out
<1> HIDE DEF l, b, t, cfg
<1>8. SketchesGrow(job', out)
  <2>1. job.sketches \in Sketches
    BY DEF JobInv, Shaped
  <2>2. CASE s = job.sketches
    BY <1>5, <2>1, <2>2 DEF SketchesGrow
  <2>3. CASE s = Append(job.sketches, [text |-> t.of, at |-> job.at])
             /\ t.tag = "text" /\ t.of \in Long
    <3> DEFINE new == [text |-> t.of, at |-> job.at]
               old == job.sketches
    <3>1. new \in [text : Long, at : Nat \X Nat]
      BY <1>1, <2>3
    <3>2. new = [text |-> Came(job, job.at[1], job.at[2]).of, at |-> job.at]
      BY <1>1, <2>3 DEF l, b
    <3>3. Kept(out)
      BY <1>2, <2>3 DEF Kept
    <3> HIDE DEF new, old
    <3>4. /\ Len(old) \in Nat /\ s \in Sketches /\ Len(s) = Len(old) + 1
          /\ s[Len(old) + 1] = new /\ \A i \in 1..Len(old) : s[i] = old[i]
      BY <2>1, <2>3, <3>1, AppendProperties, LenProperties DEF Sketches, new, old
    <3>5. ASSUME NEW i \in 1..Len(s)
          PROVE  (i \in 1..Len(old) /\ s[i] = old[i]) \/ s[i] = new
      BY <3>4
    <3> QED
      BY <1>5, <3>2, <3>3, <3>4, <3>5 DEF SketchesGrow, old
  <2> QED
    BY <2>2, <2>3 DEF Sketched, t
<1>9. JobInv(job')
  BY <1>5, <1>6, <1>7, <1>8, Passed DEF l, b
<1> QED
  BY <1>3, <1>9 DEF JobInv, Shaped, Sited, Worked

\* A JL marker takes the place of the block.
LEMMA MarkKeeps ==
  ASSUME JobInv(job), job.pc = "block", ToVisit(job, job.at[1], job.at[2]),
         Block(job.at).text.tag = "text",
         NEW i \in DOMAIN job.sketches,
         JLScore[<<Block(job.at).text.of, job.sketches[i].text>>] >= JLThreshold,
         job' = Moved([job EXCEPT
                  !.lists = Rewritten(job.at,
                              JLMark(job.sketches[i].at, Block(job.at).text.of))])
  PROVE  JobInv(job)'
<1> DEFINE l == job.at[1]
           b == job.at[2]
           t == Block(job.at).text
           q == job.sketches[i].at
           m == JLMark(q, t.of)
           j == [job EXCEPT !.lists = Rewritten(job.at, m)]
<1>1. /\ IsPlace(job, l, b) /\ job.at = <<l, b>> /\ DOMAIN job = JobFields
      /\ t = Text(job, l, b) /\ t = Came(job, l, b) /\ Came(job, l, b) \in Plains
      /\ Shaped(job)
  BY Current, PlaceParts DEF JobInv
<1>2. /\ i \in 1..Len(job.sketches)
      /\ IsPlace(job, q[1], q[2]) /\ Earlier(q[1], q[2], l, b) /\ q \in Nat \X Nat
      /\ job.sketches[i].text = Came(job, q[1], q[2]).of
      /\ Kept(Text(job, q[1], q[2]))
  <2> DEFINE s == job.sketches
  <2>1. s \in Sketches /\ i \in DOMAIN s
    BY DEF JobInv, Shaped
  <2>2. \A k \in 1..Len(s) :
          /\ IsPlace(job, s[k].at[1], s[k].at[2]) /\ Earlier(s[k].at[1], s[k].at[2], l, b)
          /\ s[k].text = Came(job, s[k].at[1], s[k].at[2]).of
          /\ Kept(Text(job, s[k].at[1], s[k].at[2]))
    BY DEF JobInv, Worked
  <2> HIDE DEF s, l, b
  <2>3. i \in 1..Len(s) /\ s[i] \in [text : Long, at : Nat \X Nat]
    <3> DEFINE R == [text : Long, at : Nat \X Nat]
    <3>1. s \in Seq(R)
      BY <2>1 DEF Sketches
    <3> HIDE DEF R
    <3>2. i \in 1..Len(s) /\ s[i] \in R
      BY <2>1, <3>1, LenProperties, ElementOfSeq
    <3> QED
      BY <3>2 DEF R
  <2>4. s[i].at \in Nat \X Nat
    BY <2>3
  <2> QED
    BY <2>2, <2>3, <2>4 DEF s
<1>3. /\ job' = Moved(j) /\ DOMAIN j = JobFields /\ j.src = job.src /\ j.opts = job.opts
      /\ j.squeezed = job.squeezed /\ j.at = job.at
      /\ j.lists = Rewritten(<<l, b>>, m) /\ j.sketches = job.sketches
  BY <1>1, Zenon DEF JobFields
<1> HIDE DEF j, m
<1>4. /\ DOMAIN job' = JobFields /\ job'.src = job.src /\ job'.opts = job.opts
      /\ job'.squeezed = job.squeezed /\ job'.lists = Rewritten(<<l, b>>, m)
      /\ job'.sketches = job.sketches /\ job'.at = After(job.at)
      /\ job'.pc = IF b < Len(List.blocks) THEN "block" ELSE "list"
  BY <1>3, MovedParts
<1>5. m \in Terms
  BY <1>1, <1>2, SameTerms DEF m
<1>6. OneText(job', l, b, m)
  BY <1>1, <1>4, <1>5, OneTextRewritten
<1>7. LinksTo(l, b, m)
  <2>1. q = <<q[1], q[2]>> /\ q[1] \in Nat /\ q[2] \in Nat
    <3>1. q \in Nat \X Nat
      BY <1>2
    <3> HIDE DEF q
    <3> QED
      BY <3>1
  <2>2. m = JLMark(<<q[1], q[2]>>, Came(job, l, b).of)
    BY <1>1, <2>1 DEF m
  <2>3. JLScore[<<Came(job, l, b).of, Came(job, q[1], q[2]).of>>] >= JLThreshold
    BY <1>1, <1>2
  <2> HIDE DEF q
  <2> QED
    BY <1>2, <2>1, <2>2, <2>3 DEF LinksTo
<1>8. Outcome(l, b, m)
  BY <1>1, <1>7 DEF Outcome
<1>9. SketchesGrow(job', m)
  BY <1>1, <1>4 DEF SketchesGrow, Shaped
<1> HIDE DEF l, b, t, q
<1>10. JobInv(job')
  BY <1>4, <1>6, <1>8, <1>9, Passed DEF l, b
<1> QED
  BY <1>10 DEF JobInv, Shaped, Sited, Worked

LEMMA BlockKeeps ==
  ASSUME CacheInv, JobInv(job), BlockStep
  PROVE  CacheInv' /\ JobInv(job)'
<1> DEFINE block == Block(job.at)
           t == block.text
           visit == /\ ~Protected(job.src.mark, job.at)
                    /\ \/ block.type = "text"
                       \/ /\ block.type \in {"tool_result", "nested"}
                          /\ CompressToolResults /\ List.kind = "message"
<1>1. /\ job.pc = "block"
      /\ IF visit THEN DedupeText(t) ELSE job' = Moved(job) /\ UNCHANGED cache
  BY Zenon DEF BlockStep
<1>2. visit <=> ToVisit(job, job.at[1], job.at[2])
  BY <1>1, Current DEF ToVisit
<1> HIDE DEF visit
<1>3. CASE ~visit
  <2>1. JobInv(job')
    BY <1>1, <1>2, <1>3, BlockLeft
  <2> QED
    BY <1>1, <1>3, <2>1 DEF CacheInv, JobInv, Shaped, Sited, Worked
<1>4. CASE visit /\ CompressText(t, job.sketches)
  BY <1>1, <1>2, <1>4, CompressKeeps
<1>5. CASE /\ visit /\ CompressText(t, Sketched(t.of))
           /\ t.tag = "text" /\ t.of \in Long
  BY <1>1, <1>2, <1>5, CompressKeeps
<1>6. ASSUME visit, t.tag = "text",
             NEW i \in Best(t.of, job.sketches),
             JLScore[<<t.of, job.sketches[i].text>>] >= JLThreshold,
             job' = Moved([job EXCEPT
                      !.lists = Rewritten(job.at, JLMark(job.sketches[i].at, t.of))]),
             UNCHANGED cache
      PROVE  CacheInv' /\ JobInv(job)'
  <2>1. i \in DOMAIN job.sketches
    BY DEF Best
  <2>2. JobInv(job)'
    BY <1>1, <1>2, <1>6, <2>1, MarkKeeps
  <2> QED
    BY <1>6, <2>2 DEF CacheInv
<1> HIDE DEF t
<1>7. CASE visit
  <2>1. DedupeText(t)
    BY <1>1, <1>7
  <2>2. CASE ~job.opts.jl \/ t.tag # "text" \/ t.of \notin Long
    BY <1>4, <1>7, <2>1, <2>2, Zenon DEF DedupeText
  <2>3. CASE ~(~job.opts.jl \/ t.tag # "text" \/ t.of \notin Long)
    <3>1. \/ CompressText(t, Sketched(t.of))
          \/ \E i \in Best(t.of, job.sketches) :
               /\ JLScore[<<t.of, job.sketches[i].text>>] >= JLThreshold
               /\ job' = Moved([job EXCEPT
                           !.lists = Rewritten(job.at, JLMark(job.sketches[i].at, t.of))])
               /\ UNCHANGED cache
      BY <2>1, <2>3, Zenon DEF DedupeText, Searched
    <3> QED
      BY <1>5, <1>6, <1>7, <2>3, <3>1
  <2> QED
    BY <2>2, <2>3
<1> QED
  BY <1>3, <1>7

-----------------------------------------------------------------------------
\* The job after a step that leaves its sketches.
JobAs(n, lists, pc, at) ==
  /\ DOMAIN n = JobFields
  /\ n.src = job.src /\ n.opts = job.opts /\ n.squeezed = job.squeezed
  /\ n.sketches = job.sketches
  /\ n.lists = lists /\ n.pc = pc /\ n.at = at

LEMMA SameLists ==
  ASSUME Shaped(job), NEW n, DOMAIN n = JobFields,
         n.src = job.src, n.opts = job.opts, n.lists = job.lists,
         n.squeezed = job.squeezed, n.sketches = job.sketches,
         n.pc \in {"lingua", "list", "block", "done"}
  PROVE  /\ Shaped(n)
         /\ \A k, c : /\ IsPlace(n, k, c) <=> IsPlace(job, k, c)
                      /\ Came(n, k, c) = Came(job, k, c)
                      /\ Text(n, k, c) = Text(job, k, c)
                      /\ SameUpTo(n, k, c)
<1>1. Shaped(n)
  <2>1. OneText(n, 0, 0, Text(job, 0, 0)) /\ job.sketches \in Sketches
    BY OneTextUnchanged DEF Shaped
  <2> QED
    BY <2>1, OneTextShaped
<1>2. \A k, c : /\ IsPlace(n, k, c) <=> IsPlace(job, k, c)
                /\ Came(n, k, c) = Came(job, k, c)
                /\ Text(n, k, c) = Text(job, k, c)
                /\ ToVisit(n, k, c) <=> ToVisit(job, k, c)
  BY DEF IsPlace, Came, Text, ToVisit
<1>3. \A k, c : SameUpTo(n, k, c)
  BY <1>2 DEF SameUpTo
<1> QED
  BY <1>1, <1>2, <1>3

\* The lists of a job against those of its payload.
LEMMA ShapeParts ==
  ASSUME NEW j, Shaped(j)
  PROVE  /\ Len(j.src.lists) \in Nat /\ Len(j.lists) = Len(j.src.lists)
         /\ \A k \in 1..Len(j.src.lists) :
              /\ Len(j.src.lists[k].blocks) \in Nat /\ Len(j.src.lists[k].blocks) >= 1
              /\ j.src.lists[k].bare => Len(j.src.lists[k].blocks) = 1
              /\ j.lists[k].kind = j.src.lists[k].kind
              /\ j.lists[k].bare = j.src.lists[k].bare
<1>1. j.src \in Payloads /\ Len(j.lists) = Len(j.src.lists)
  BY DEF Shaped
<1>2. \A k \in 1..Len(j.src.lists) : /\ j.lists[k].kind = j.src.lists[k].kind
                                   /\ j.lists[k].bare = j.src.lists[k].bare
  BY Zenon DEF Shaped
<1> QED
  BY <1>1, <1>2, PayloadParts

LEMMA FirstBlock ==
  ASSUME NEW j, Shaped(j), NEW l \in 1..Len(j.src.lists)
  PROVE  IsPlace(j, l, 1)
<1> DEFINE m == Len(j.src.lists[l].blocks)
<1>1. m \in Nat /\ m >= 1
  BY ShapeParts
<1> HIDE DEF m
<1>2. 1 \in 1..m
  BY <1>1
<1> QED
  BY <1>2 DEF IsPlace, m

\* A list is passed over: none of its blocks is one to visit.
LEMMA ListSkipped ==
  ASSUME JobInv(job), job.pc = "list", job.at[1] <= Len(job.lists),
         \/ List.kind = "system" /\ ~CompressSystem
         \/ List.bare /\ Protected(job.src.mark, <<job.at[1], 1>>),
         NEW n, JobAs(n, job.lists, "list", <<job.at[1] + 1, 1>>)
  PROVE  JobInv(n)
<1> DEFINE l == job.at[1]
           N == Len(job.src.lists)
<1>1. /\ Shaped(job) /\ Sited(job) /\ Worked(job) /\ DOMAIN job = JobFields
      /\ job.at \in Nat \X Nat /\ N \in Nat /\ l \in 1..N /\ job.at[2] = 1
  BY PayloadParts DEF JobInv, Shaped, Sited
<1>2. /\ DOMAIN n = JobFields /\ n.src = job.src /\ n.opts = job.opts
      /\ n.lists = job.lists /\ n.squeezed = job.squeezed /\ n.sketches = job.sketches
      /\ n.pc = "list" /\ n.at = <<l + 1, 1>>
  BY DEF JobAs
<1>3. /\ Shaped(n)
      /\ \A k, c : /\ IsPlace(n, k, c) <=> IsPlace(job, k, c)
                   /\ Came(n, k, c) = Came(job, k, c)
                   /\ Text(n, k, c) = Text(job, k, c)
                   /\ SameUpTo(n, k, c)
  BY <1>1, <1>2, SameLists
<1>4. \A c : IsPlace(job, l, c) => ~ToVisit(job, l, c)
  <2>1. List.kind = job.src.lists[l].kind /\ List.bare = job.src.lists[l].bare
    BY <1>1, ShapeParts DEF List
  <2>2. List.bare => \A c : IsPlace(job, l, c) => c = 1
    <3>1. List.bare => Len(job.src.lists[l].blocks) = 1
      BY <1>1, <2>1, ShapeParts
    <3> DEFINE m == Len(job.src.lists[l].blocks)
    <3>2. \A c : IsPlace(job, l, c) => c \in 1..m
      BY DEF IsPlace
    <3>3. List.bare => m = 1
      BY <3>1
    <3> HIDE DEF m
    <3>4. m = 1 => \A c \in 1..m : c = 1
      OBVIOUS
    <3> QED
      BY <3>2, <3>3, <3>4, Zenon
  <2> QED
    BY <2>1, <2>2 DEF ToVisit
<1>5. Sited(n)
  <2>1. l + 1 <= N => IsPlace(job, l + 1, 1)
    <3>1. l + 1 <= N => l + 1 \in 1..N
      BY <1>1
    <3> QED
      BY <1>1, <3>1, FirstBlock
  <2>2. n.at[1] = l + 1 /\ n.at[2] = 1 /\ n.at \in Nat \X Nat /\ l + 1 \in 1..(N + 1)
    BY <1>1, <1>2
  <2>3. Len(n.src.lists) = N /\ n.pc = "list"
    BY <1>2
  <2> HIDE DEF l, N
  <2>4. n.at[1] <= N => IsPlace(n, n.at[1], n.at[2])
    BY <1>3, <2>1, <2>2
  <2>5. n.at[1] \in 1..(Len(n.src.lists) + 1) /\ n.at[2] >= 1
    BY <2>2, <2>3
  <2> QED
    BY <2>2, <2>3, <2>4, <2>5 DEF Sited
<1> HIDE DEF l, N
<1>6. ASSUME NEW k \in Nat, NEW c \in Nat, IsPlace(n, k, c)
      PROVE  IF Earlier(k, c, l + 1, 1) THEN Settled(n, k, c)
             ELSE Text(n, k, c) = Came(n, k, c)
  <2>1. IsPlace(job, k, c) /\ c >= 1
    <3>1. IsPlace(job, k, c)
      BY <1>3, <1>6, Zenon
    <3>2. c >= 1
      BY <3>1 DEF IsPlace
    <3> QED
      BY <3>1, <3>2
  <2>2. IF Earlier(k, c, l, 1) THEN Settled(job, k, c) ELSE Text(job, k, c) = Came(job, k, c)
    BY <1>1, <2>1 DEF Worked, l
  <2>3. CASE Earlier(k, c, l, 1)
    <3>1. Settled(n, k, c)
      BY <1>3, <2>1, <2>2, <2>3, SettledSame
    <3>2. Earlier(k, c, l + 1, 1)
      BY <1>1, <2>1, <2>3 DEF Earlier
    <3> QED
      BY <3>1, <3>2
  <2>4. CASE k = l
    <3>1. Text(job, k, c) = Came(job, k, c) /\ ~ToVisit(job, k, c)
      BY <1>1, <1>4, <2>1, <2>2, <2>4 DEF Earlier
    <3>2. Settled(job, k, c)
      BY <3>1 DEF Settled, Given
    <3>3. Settled(n, k, c)
      BY <1>3, <2>1, <3>2, SettledSame
    <3>4. Earlier(k, c, l + 1, 1)
      BY <1>1, <2>4 DEF Earlier
    <3> QED
      BY <3>3, <3>4
  <2>5. CASE ~Earlier(k, c, l, 1) /\ k # l
    <3>1. ~Earlier(k, c, l + 1, 1)
      BY <1>1, <2>1, <2>5 DEF Earlier
    <3> QED
      BY <1>3, <2>2, <2>5, <3>1
  <2> QED
    BY <2>3, <2>4, <2>5
<1>7. ASSUME NEW i \in 1..Len(n.sketches)
      PROVE  LET k == n.sketches[i].at[1]  c == n.sketches[i].at[2]
             IN /\ IsPlace(n, k, c) /\ Earlier(k, c, n.at[1], n.at[2])
                /\ n.sketches[i].text = Came(n, k, c).of
                /\ Kept(Text(n, k, c))
  <2> DEFINE s == job.sketches[i]
             k == s.at[1]
             c == s.at[2]
  <2>1. /\ IsPlace(job, k, c) /\ Earlier(k, c, l, 1)
        /\ s.text = Came(job, k, c).of /\ Kept(Text(job, k, c))
    BY <1>1, <1>2 DEF Worked, l
  <2>2. n.sketches[i] = s
    BY <1>2
  <2> HIDE DEF s
  <2>3. Earlier(k, c, l + 1, 1)
    BY <1>1, <2>1, PlaceParts DEF Earlier
  <2> QED
    BY <1>2, <1>3, <2>1, <2>2, <2>3
<1> QED
  BY <1>2, <1>3, <1>5, <1>6, <1>7 DEF JobInv, Worked

\* The engines come to a list: what its blocks are given may be markers now.
ListEntered(n, l) ==
  /\ DOMAIN n = JobFields /\ n.src = job.src /\ n.opts = job.opts
  /\ n.squeezed = job.squeezed /\ n.sketches = job.sketches
  /\ n.pc = "block" /\ n.at = job.at
  /\ Shaped(n)
  /\ \A k, c : IsPlace(job, k, c) /\ k # l => Text(n, k, c) = Text(job, k, c)
  /\ \A c : IsPlace(job, l, c) => Given(n, l, c, Text(n, l, c))

LEMMA EnteredKeeps ==
  ASSUME JobInv(job), job.pc = "list", job.at[1] <= Len(job.lists),
         List.kind = "system" => CompressSystem,
         NEW n, ListEntered(n, job.at[1])
  PROVE  JobInv(n)
<1> DEFINE l == job.at[1]
           N == Len(job.src.lists)
<1>1. /\ Shaped(job) /\ Sited(job) /\ Worked(job)
      /\ job.at \in Nat \X Nat /\ N \in Nat /\ l \in 1..N /\ job.at = <<l, 1>>
  BY PayloadParts DEF JobInv, Shaped, Sited
<1>2. \A k, c : /\ IsPlace(n, k, c) <=> IsPlace(job, k, c)
                /\ Came(n, k, c) = Came(job, k, c)
                /\ ToVisit(n, k, c) <=> ToVisit(job, k, c)
  BY DEF ListEntered, IsPlace, Came, ToVisit
<1>3. Sited(n)
  <2>1. job.src.lists[l].kind = "system" => CompressSystem
    BY <1>1 DEF List, Shaped
  <2> QED
    BY <1>1, <1>2, <2>1 DEF Sited, ListEntered
<1> HIDE DEF l, N
<1>4. ASSUME NEW k \in Nat, NEW c \in Nat, IsPlace(n, k, c)
      PROVE  IF Earlier(k, c, l, 1) THEN Settled(n, k, c)
             ELSE IF k = l THEN Given(n, k, c, Text(n, k, c))
             ELSE Text(n, k, c) = Came(n, k, c)
  <2>1. IsPlace(job, k, c)
    BY <1>2, <1>4
  <2>2. IF Earlier(k, c, l, 1) THEN Settled(job, k, c) ELSE Text(job, k, c) = Came(job, k, c)
    BY <1>1, <2>1 DEF Worked, l
  <2>3. CASE Earlier(k, c, l, 1)
    <3>1. \A i, e \in Nat : IsPlace(job, i, e) /\ (Earlier(i, e, k, c) \/ (i = k /\ e = c)) =>
            i # l
      <4>1. k < l
        BY <1>1, <2>1, <2>3 DEF Earlier, IsPlace
      <4> QED
        BY <1>1, <4>1 DEF Earlier
    <3>2. SameUpTo(n, k, c)
      BY <1>2, <3>1 DEF SameUpTo, ListEntered, l
    <3> QED
      BY <2>1, <2>2, <2>3, <3>2, SettledSame
  <2>4. CASE k = l
    <3>1. ~Earlier(k, c, l, 1)
      BY <1>1, <2>1, <2>4 DEF Earlier, IsPlace
    <3> QED
      BY <2>1, <2>4, <3>1 DEF ListEntered, l
  <2>5. CASE ~Earlier(k, c, l, 1) /\ k # l
    <3>1. Text(n, k, c) = Text(job, k, c)
      BY <2>1, <2>5 DEF ListEntered, l
    <3> QED
      BY <1>2, <2>2, <2>5, <3>1
  <2> QED
    BY <2>3, <2>4, <2>5
<1>5. ASSUME NEW i \in 1..Len(n.sketches)
      PROVE  LET k == n.sketches[i].at[1]  c == n.sketches[i].at[2]
             IN /\ IsPlace(n, k, c) /\ Earlier(k, c, n.at[1], n.at[2])
                /\ n.sketches[i].text = Came(n, k, c).of
                /\ Kept(Text(n, k, c))
  <2> DEFINE s == job.sketches[i]
             k == s.at[1]
             c == s.at[2]
  <2>1. n.sketches[i] = s /\ n.at = <<l, 1>> /\ i \in 1..Len(job.sketches)
    BY <1>1 DEF ListEntered
  <2>2. /\ IsPlace(job, k, c) /\ Earlier(k, c, l, 1)
        /\ s.text = Came(job, k, c).of /\ Kept(Text(job, k, c))
    BY <1>1, <2>1 DEF Worked, l
  <2> HIDE DEF s
  <2>3. k # l
    BY <1>1, <2>2, PlaceParts DEF Earlier, IsPlace
  <2>4. Text(n, k, c) = Text(job, k, c)
    BY <2>2, <2>3 DEF ListEntered, l
  <2> QED
    BY <1>2, <2>1, <2>2, <2>4
<1>6. n.pc = "block" /\ n.at = <<l, 1>> /\ Shaped(n)
  BY <1>1 DEF ListEntered
<1> QED
  BY <1>3, <1>4, <1>5, <1>6 DEF JobInv, Worked

\* Without the pre-pass the engines are given what lingua left.
LEMMA EnteredPlain ==
  ASSUME JobInv(job), job.pc = "list", job.at[1] <= Len(job.lists),
         List.kind = "system" => CompressSystem,
         NEW n, JobAs(n, job.lists, "block", job.at)
  PROVE  JobInv(n)
<1> DEFINE l == job.at[1]
<1>1. /\ Shaped(job) /\ Worked(job) /\ DOMAIN job = JobFields
      /\ l \in Nat /\ job.at[2] = 1
  BY DEF JobInv, Shaped, Sited
<1>2. /\ DOMAIN n = JobFields /\ n.src = job.src /\ n.opts = job.opts
      /\ n.lists = job.lists /\ n.squeezed = job.squeezed /\ n.sketches = job.sketches
      /\ n.pc = "block" /\ n.at = job.at
  BY DEF JobAs
<1>3. /\ Shaped(n)
      /\ \A k, c : /\ Came(n, k, c) = Came(job, k, c)
                   /\ Text(n, k, c) = Text(job, k, c)
  BY <1>1, <1>2, SameLists
<1>4. ASSUME NEW c, IsPlace(job, l, c)
      PROVE  Given(n, l, c, Text(n, l, c))
  <2>1. c \in Nat /\ c >= 1
    BY <1>1, <1>4, PlaceParts DEF IsPlace
  <2>2. Text(job, l, c) = Came(job, l, c)
    BY <1>1, <1>4, <2>1 DEF Worked, Earlier
  <2> QED
    BY <1>3, <2>2 DEF Given
<1>5. ListEntered(n, l)
  BY <1>2, <1>3, <1>4, Zenon DEF ListEntered
<1> QED
  BY <1>5, EnteredKeeps

\* The pre-pass names earlier blocks of the list that it keeps.
LEMMA TargetParts ==
  ASSUME NEW l, NEW f \in LSHTargets(l), NEW b \in DOMAIN job.lists[l].blocks, f[b] # 0
  PROVE  /\ f[b] \in 1..(b - 1) /\ f[f[b]] = 0
         /\ LSHScore[<<job.lists[l].blocks[b].text.of, job.lists[l].blocks[f[b]].text.of>>]
              >= LSHThreshold
<1> DEFINE blocks == job.lists[l].blocks
           indexed == {c \in 1..(b - 1) : LSHText(blocks[c]) /\ f[c] = 0}
<1>1. f[b] \in LSHMatches(blocks, b, indexed)
  BY Zenon DEF LSHTargets
<1> QED
  BY <1>1 DEF LSHMatches

\* The lists after the pre-pass of list l.
DedupedLists(l, f) == [job.lists EXCEPT ![l].blocks = Deduped(@, f)]

IsDeduped(g, l, f) ==
  /\ g \in Seq(ListSet(Terms)) /\ Len(g) = Len(job.lists)
  /\ \A k \in 1..Len(job.lists) :
       /\ g[k].kind = job.lists[k].kind /\ g[k].bare = job.lists[k].bare
       /\ Len(g[k].blocks) = Len(job.lists[k].blocks)
       /\ \A c \in 1..Len(job.lists[k].blocks) :
            /\ g[k].blocks[c].type = job.lists[k].blocks[c].type
            /\ g[k].blocks[c].text =
                 IF k = l /\ f[c] # 0
                 THEN LSHMark(f[c], job.lists[k].blocks[c].text.of)
                 ELSE job.lists[k].blocks[c].text

LEMMA DedupedParts ==
  ASSUME Shaped(job), NEW l \in 1..Len(job.lists), NEW f \in LSHTargets(l),
         \A c : IsPlace(job, l, c) => Text(job, l, c) \in Plains
  PROVE  IsDeduped(DedupedLists(l, f), l, f)
<1> DEFINE g    == DedupedLists(l, f)
           h    == job.lists
           old  == h[l].blocks
           new  == Deduped(old, f)
           item == [h[l] EXCEPT !.blocks = new]
<1>1. g = [h EXCEPT ![l] = item]
  BY DEF DedupedLists
<1> HIDE DEF g
<1>2. /\ h \in Seq(ListSet(Terms)) /\ l \in 1..Len(h)
  BY DEF Shaped
<1>3. h[l] \in ListSet(Terms) /\ Len(h) \in Nat
  <2> HIDE DEF h
  <2> QED
    BY <1>2, ElementOfSeq, LenProperties
<1>4. old \in Seq(BlockSet(Terms)) /\ DOMAIN old = 1..Len(old) /\ Len(old) \in Nat
  <2>1. old \in Seq(BlockSet(Terms))
    BY <1>3 DEF ListSet
  <2> HIDE DEF old
  <2> QED
    BY <2>1, LenProperties
<1>5. ASSUME NEW c \in 1..Len(old)
      PROVE  old[c] \in BlockSet(Terms) /\ old[c].text \in Plains
  <2>1. IsPlace(job, l, c)
    BY DEF IsPlace, Shaped
  <2>2. Text(job, l, c) \in Plains
    BY <2>1
  <2> QED
    BY <2>1, <2>2, PlaceParts DEF Text
<1>6. ASSUME NEW c \in 1..Len(old)
      PROVE  /\ new[c] \in BlockSet(Terms) /\ new[c].type = old[c].type
             /\ new[c].text = IF f[c] # 0 THEN LSHMark(f[c], old[c].text.of) ELSE old[c].text
  <2> DEFINE o == old[c]
  <2>1. new[c] = IF f[c] = 0 THEN o ELSE [o EXCEPT !.text = LSHMark(f[c], @.of)]
    BY <1>4 DEF Deduped
  <2>2. o \in BlockSet(Terms) /\ o.text.of \in Texts
    BY <1>5, SameTerms
  <2>3. f[c] # 0 => f[c] \in Nat
    <3>1. c \in DOMAIN job.lists[l].blocks /\ c \in Nat
      BY <1>4
    <3>2. f[c] # 0 => f[c] \in 1..(c - 1)
      BY <3>1, TargetParts
    <3> QED
      BY <3>1, <3>2
  <2> DEFINE m == LSHMark(f[c], o.text.of)
  <2>4. f[c] # 0 => m \in Terms
    BY <2>2, <2>3, SameTerms
  <2> HIDE DEF o, m
  <2>5. f[c] # 0 => /\ [o EXCEPT !.text = m] \in BlockSet(Terms)
                    /\ [o EXCEPT !.text = m].type = o.type /\ [o EXCEPT !.text = m].text = m
    BY <2>2, <2>4 DEF BlockSet
  <2>6. new[c] = IF f[c] = 0 THEN o ELSE [o EXCEPT !.text = m]
    BY <2>1 DEF m
  <2> HIDE DEF new
  <2>7. /\ new[c] \in BlockSet(Terms) /\ new[c].type = o.type
        /\ new[c].text = IF f[c] # 0 THEN m ELSE o.text
    BY <2>2, <2>5, <2>6
  <2> QED
    BY <2>7 DEF o, m
<1>7. new \in Seq(BlockSet(Terms)) /\ Len(new) = Len(old)
  <2>1. new = [c \in 1..Len(old) |-> new[c]]
    BY <1>4 DEF Deduped
  <2> HIDE DEF new, old
  <2> QED
    BY <1>4, <1>6, <2>1, IsASeq
<1> HIDE DEF new
<1>8. /\ item \in ListSet(Terms) /\ item.kind = h[l].kind /\ item.bare = h[l].bare
      /\ item.blocks = new
  <2> DEFINE r == h[l]
  <2>1. r \in ListSet(Terms)
    BY <1>3
  <2> HIDE DEF r, h
  <2>2. /\ [r EXCEPT !.blocks = new] \in ListSet(Terms)
        /\ [r EXCEPT !.blocks = new].kind = r.kind
        /\ [r EXCEPT !.blocks = new].bare = r.bare
        /\ [r EXCEPT !.blocks = new].blocks = new
    BY <1>7, <2>1 DEF ListSet
  <2> QED
    BY <2>2 DEF r
<1> HIDE DEF item
<1>9. /\ g \in Seq(ListSet(Terms)) /\ Len(g) = Len(h)
      /\ \A k \in 1..Len(h) : g[k] = IF k = l THEN item ELSE h[k]
  <2> HIDE DEF h
  <2> DEFINE e == [h EXCEPT ![l] = item]
  <2>1. /\ e \in Seq(ListSet(Terms)) /\ Len(e) = Len(h)
        /\ \A k \in 1..Len(h) : e[k] = IF k = l THEN item ELSE h[k]
    BY <1>2, <1>8, ExceptSeq
  <2>2. g = e
    BY <1>1
  <2> HIDE DEF e
  <2> QED
    BY <2>1, <2>2
<1>10. ASSUME NEW k \in 1..Len(h)
       PROVE  /\ g[k].kind = h[k].kind /\ g[k].bare = h[k].bare
              /\ Len(g[k].blocks) = Len(h[k].blocks)
              /\ \A c \in 1..Len(h[k].blocks) :
                   /\ g[k].blocks[c].type = h[k].blocks[c].type
                   /\ g[k].blocks[c].text =
                        IF k = l /\ f[c] # 0 THEN LSHMark(f[c], h[k].blocks[c].text.of)
                        ELSE h[k].blocks[c].text
  <2>1. CASE k = l
    <3>1. g[k] = item /\ h[k] = h[l]
      BY <1>9, <2>1
    <3> HIDE DEF h
    <3>2. g[k].blocks = new /\ g[k].kind = h[k].kind /\ g[k].bare = h[k].bare
      BY <1>8, <3>1
    <3>3. h[k].blocks = old /\ Len(new) = Len(old)
      BY <1>7, <3>1
    <3> HIDE DEF old
    <3> QED
      BY <1>6, <2>1, <3>2, <3>3
  <2>2. CASE k # l
    BY <1>9, <2>2
  <2> QED
    BY <2>1, <2>2
<1> QED
  BY <1>9, <1>10 DEF IsDeduped, g

LEMMA EnteredDeduped ==
  ASSUME JobInv(job), job.pc = "list", job.at[1] <= Len(job.lists),
         List.kind = "system" => CompressSystem,
         NEW f \in LSHTargets(job.at[1]),
         NEW n, JobAs(n, DedupedLists(job.at[1], f), "block", job.at)
  PROVE  JobInv(n)
<1> DEFINE l == job.at[1]
           g == DedupedLists(l, f)
<1>1. /\ Shaped(job) /\ Worked(job) /\ DOMAIN job = JobFields
      /\ l \in Nat /\ job.at[2] = 1 /\ l \in 1..Len(job.lists)
  <2>1. Shaped(job) /\ Sited(job) /\ Worked(job) /\ DOMAIN job = JobFields
    BY DEF JobInv, Shaped
  <2>2. Len(job.src.lists) \in Nat /\ Len(job.lists) = Len(job.src.lists)
    BY <2>1, ShapeParts
  <2>3. l \in 1..(Len(job.src.lists) + 1) /\ job.at[2] = 1
    BY <2>1 DEF Sited
  <2> QED
    BY <2>1, <2>2, <2>3
<1>2. /\ DOMAIN n = JobFields /\ n.src = job.src /\ n.opts = job.opts
      /\ n.lists = g /\ n.squeezed = job.squeezed /\ n.sketches = job.sketches
      /\ n.pc = "block" /\ n.at = job.at
  BY Zenon DEF JobAs
<1>3. ASSUME NEW c, IsPlace(job, l, c)
      PROVE  Text(job, l, c) = Came(job, l, c) /\ Came(job, l, c) \in Plains
  <2>1. c \in Nat /\ c >= 1 /\ Came(job, l, c) \in Plains
    BY <1>1, <1>3, PlaceParts DEF IsPlace
  <2> QED
    BY <1>1, <1>3, <2>1 DEF Worked, Earlier
<1>4. IsDeduped(g, l, f)
  <2>1. \A c : IsPlace(job, l, c) => Text(job, l, c) \in Plains
    BY <1>3
  <2> HIDE DEF g, l
  <2>2. f \in LSHTargets(l)
    BY DEF l
  <2>3. IsDeduped(DedupedLists(l, f), l, f)
    BY <1>1, <2>1, <2>2, DedupedParts
  <2> QED
    BY <2>3 DEF g
<1> HIDE DEF l, g
<1>5. ASSUME NEW k, NEW c, IsPlace(job, k, c)
      PROVE  /\ Text(n, k, c) = IF k = l /\ f[c] # 0 THEN LSHMark(f[c], Text(job, k, c).of)
                                ELSE Text(job, k, c)
             /\ c \in DOMAIN job.lists[k].blocks
  <2>1. k \in 1..Len(job.src.lists) /\ c \in 1..Len(job.src.lists[k].blocks)
    BY <1>5 DEF IsPlace
  <2>2. /\ Len(job.src.lists[k].blocks) = Len(job.lists[k].blocks)
        /\ Len(job.src.lists) = Len(job.lists)
    BY <1>1, <2>1, Zenon DEF Shaped
  <2>3. k \in 1..Len(job.lists) /\ c \in 1..Len(job.lists[k].blocks)
    BY <2>1, <2>2
  <2>4. g[k].blocks[c].text = IF k = l /\ f[c] # 0
                              THEN LSHMark(f[c], job.lists[k].blocks[c].text.of)
                              ELSE job.lists[k].blocks[c].text
    BY <1>4, <2>3, Zenon DEF IsDeduped
  <2>5. Text(job, k, c) = job.lists[k].blocks[c].text /\ Text(n, k, c) = g[k].blocks[c].text
    BY <1>2 DEF Text
  <2>6. c \in DOMAIN job.lists[k].blocks
    BY <1>1, <1>5, <2>1, PlaceParts
  <2> QED
    BY <2>4, <2>5, <2>6
<1>6. Shaped(n)
  <2>1. SameShape(n)
    BY <1>2, <1>4 DEF SameShape, IsDeduped
  <2>2. n.pc \in {"lingua", "list", "block", "done"} /\ n.sketches \in Sketches
    BY <1>1, <1>2 DEF Shaped
  <2> QED
    BY <1>1, <2>1, <2>2, ShapedAgain
<1>7. \A k, c : Came(n, k, c) = Came(job, k, c)
  BY <1>2 DEF Came
<1>8. ASSUME NEW k, NEW c, IsPlace(job, k, c), k # l
      PROVE  Text(n, k, c) = Text(job, k, c)
  BY <1>5, <1>8
<1>9. ASSUME NEW c, IsPlace(job, l, c)
      PROVE  Given(n, l, c, Text(n, l, c))
  <2>1. /\ Text(n, l, c) = IF f[c] # 0 THEN LSHMark(f[c], Came(job, l, c).of)
                           ELSE Came(job, l, c)
        /\ c \in DOMAIN job.lists[l].blocks
    BY <1>3, <1>5, <1>9
  <2>2. CASE f[c] = 0
    BY <1>7, <2>1, <2>2 DEF Given
  <2>3. CASE f[c] # 0
    <3> DEFINE d == f[c]
    <3>1. /\ d \in 1..(c - 1) /\ f[d] = 0
          /\ LSHScore[<<Text(job, l, c).of, Text(job, l, d).of>>] >= LSHThreshold
      BY <2>1, <2>3, TargetParts DEF l, Text
    <3> HIDE DEF d
    <3>2. IsPlace(job, l, d)
      BY <1>9, <3>1 DEF IsPlace
    <3>3. /\ Text(n, l, d) = Came(job, l, d) /\ Text(job, l, d) = Came(job, l, d)
          /\ Text(job, l, c) = Came(job, l, c) /\ Came(job, l, d) \in Plains
      BY <1>3, <1>5, <1>9, <3>1, <3>2
    <3>4. Source(Text(n, l, d)).tag # "lsh"
      <4>1. Text(n, l, d) \in Plains
        BY <3>3
      <4> QED
        BY <4>1, SameTerms, GivenTag
    <3>5. /\ Text(n, l, c) = LSHMark(d, Came(n, l, c).of)
          /\ LSHScore[<<Came(n, l, c).of, Came(n, l, d).of>>] >= LSHThreshold
      BY <1>7, <2>1, <2>3, <3>1, <3>3 DEF d
    <3> QED
      BY <3>1, <3>4, <3>5 DEF Given
  <2> QED
    BY <2>2, <2>3
<1>10. ListEntered(n, l)
  BY <1>2, <1>6, <1>8, <1>9, Zenon DEF ListEntered
<1> QED
  BY <1>10, EnteredKeeps DEF l

LEMMA ListKeeps ==
  ASSUME JobInv(job), ListStep
  PROVE  JobInv(job)'
<1> DEFINE l == job.at[1]
           skip == \/ List.kind = "system" /\ ~CompressSystem
                   \/ List.bare /\ Protected(job.src.mark, <<l, 1>>)
<1>1. /\ job.pc = "list" /\ l <= Len(job.lists)
      /\ \/ skip /\ job' = [job EXCEPT !.at = <<l + 1, 1>>]
         \/ ~skip /\ job' = [job EXCEPT !.pc = "block"]
         \/ ~skip /\ \E f \in LSHTargets(l) :
              job' = [job EXCEPT !.pc = "block", !.lists[l].blocks = Deduped(@, f)]
  BY Zenon DEF ListStep
<1>0. DOMAIN job = JobFields
  BY DEF JobInv, Shaped
<1>2. CASE skip /\ job' = [job EXCEPT !.at = <<l + 1, 1>>]
  <2>1. JobAs(job', job.lists, "list", <<l + 1, 1>>)
    BY <1>0, <1>1, <1>2, Zenon DEF JobAs, JobFields
  <2> QED
    BY <1>1, <1>2, <2>1, ListSkipped
<1>3. CASE ~skip /\ job' = [job EXCEPT !.pc = "block"]
  <2>1. JobAs(job', job.lists, "block", job.at)
    BY <1>0, <1>1, <1>3, Zenon DEF JobAs, JobFields
  <2>2. List.kind = "system" => CompressSystem
    BY <1>3, CompressorAssumption
  <2> QED
    BY <1>1, <2>1, <2>2, EnteredPlain
<1>4. ASSUME ~skip, NEW f \in LSHTargets(l),
             job' = [job EXCEPT !.pc = "block", !.lists[l].blocks = Deduped(@, f)]
      PROVE  JobInv(job')
  <2>1. List.kind = "system" => CompressSystem
    BY <1>4, CompressorAssumption
  <2>2. JobAs(job', DedupedLists(l, f), "block", job.at)
    <3>1. job' = [job EXCEPT !.pc = "block", !.lists = DedupedLists(l, f)]
      BY <1>4, Zenon DEF DedupedLists
    <3> QED
      BY <1>0, <3>1, Zenon DEF JobAs, JobFields
  <2> QED
    BY <1>1, <1>4, <2>1, <2>2, EnteredDeduped
<1> HIDE DEF l, skip
<1>5. JobInv(job')
  BY <1>1, <1>2, <1>3, <1>4
<1> QED
  BY <1>5 DEF JobInv, Shaped, Sited, Worked

-----------------------------------------------------------------------------
\* The lingua pass leaves plain texts behind it.
LEMMA LinguaMoved ==
  ASSUME JobInv(job), job.pc = "lingua", job.at[1] <= Len(job.lists),
         NEW n, NEW t \in Plains, OneText(n, job.at[1], job.at[2], t),
         n.pc = "lingua", n.at = After(job.at), n.sketches = job.sketches
  PROVE  JobInv(n)
<1> DEFINE l == job.at[1]
           b == job.at[2]
<1>1. /\ Shaped(job) /\ Sited(job) /\ job.sketches = <<>> /\ job.sketches \in Sketches
      /\ \A k, c \in Nat : IsPlace(job, k, c) => Text(job, k, c) \in Plains
      /\ l <= Len(job.src.lists)
  BY DEF JobInv, Worked, Shaped
<1>2. /\ n.at \in Nat \X Nat /\ n.at[1] \in 1..(Len(job.src.lists) + 1) /\ n.at[2] >= 1
      /\ n.at[1] <= Len(job.src.lists) => IsPlace(job, n.at[1], n.at[2])
  BY <1>1, AfterParts
<1>3. Shaped(n) /\ Alike(n, l, b, t) /\ n.src = job.src
  BY <1>1, OneTextShaped, SMTT(20) DEF OneText
<1> HIDE DEF l, b
<1>4. \A k, c \in Nat : IsPlace(n, k, c) => Text(n, k, c) \in Plains
  BY <1>1, <1>3 DEF Alike
<1>5. Sited(n)
  BY <1>2, <1>3 DEF Sited, Alike
<1>6. n.sketches = <<>> /\ Len(n.sketches) = 0
  BY <1>1
<1> QED
  BY <1>3, <1>4, <1>5, <1>6 DEF JobInv, Worked

LEMMA LinguaKeeps ==
  ASSUME JobInv(job), LinguaStep
  PROVE  JobInv(job)'
<1> DEFINE l == job.at[1]
           b == job.at[2]
           t == Block(job.at).text.of
<1>1. /\ job.pc = "lingua" /\ l <= Len(job.lists)
      /\ \/ job' = [job EXCEPT !.at = After(job.at)]
         \/ \E u \in {t, Squeezed[t]} :
              job' = [job EXCEPT !.at = After(job.at), !.lists = Rewritten(job.at, Plain(u))]
  BY Zenon DEF LinguaStep, Squeeze
<1>2. /\ Shaped(job) /\ Sited(job) /\ Worked(job) /\ DOMAIN job = JobFields
      /\ IsPlace(job, l, b) /\ job.at = <<l, b>> /\ l \in Nat /\ b \in Nat
  <2>1. Shaped(job) /\ Sited(job) /\ Worked(job) /\ DOMAIN job = JobFields
    BY DEF JobInv, Shaped
  <2>2. l <= Len(job.src.lists)
    BY <1>1, <2>1, ShapeParts
  <2> QED
    BY <2>1, <2>2, AfterParts, PlaceParts
<1>3. Text(job, l, b) \in Plains
  BY <1>1, <1>2 DEF Worked
<1>4. t \in Texts /\ Squeezed[t] \in Texts
  <2>1. t = Text(job, l, b).of
    BY DEF Block, Text
  <2>2. t \in Texts
    BY <1>3, <2>1, SameTerms
  <2> QED
    BY <2>2, CompressorAssumption
<1>5. CASE job' = [job EXCEPT !.at = After(job.at)]
  <2>1. /\ DOMAIN job' = JobFields /\ job'.src = job.src /\ job'.opts = job.opts
        /\ job'.lists = job.lists /\ job'.squeezed = job.squeezed
        /\ job'.sketches = job.sketches /\ job'.pc = "lingua" /\ job'.at = After(job.at)
    BY <1>1, <1>2, <1>5, Zenon DEF JobFields
  <2>2. OneText(job', l, b, Text(job, l, b))
    BY <1>2, <2>1, OneTextUnchanged
  <2> QED
    BY <1>1, <1>3, <2>1, <2>2, LinguaMoved
<1>6. ASSUME NEW u \in {t, Squeezed[t]},
             job' = [job EXCEPT !.at = After(job.at), !.lists = Rewritten(job.at, Plain(u))]
      PROVE  JobInv(job')
  <2>1. /\ DOMAIN job' = JobFields /\ job'.src = job.src /\ job'.opts = job.opts
        /\ job'.lists = Rewritten(job.at, Plain(u)) /\ job'.squeezed = job.squeezed
        /\ job'.sketches = job.sketches /\ job'.pc = "lingua" /\ job'.at = After(job.at)
    BY <1>1, <1>2, <1>6, Zenon DEF JobFields
  <2>2. Plain(u) \in Plains /\ Plain(u) \in Terms
    BY <1>4, SameTerms
  <2>3. job'.lists = Rewritten(<<l, b>>, Plain(u))
    BY <1>2, <2>1
  <2>4. OneText(job', l, b, Plain(u))
    BY <1>2, <2>1, <2>2, <2>3, OneTextRewritten
  <2> QED
    BY <1>1, <2>1, <2>2, <2>4, LinguaMoved
<1> HIDE DEF l, b, t
<1>7. JobInv(job')
  BY <1>1, <1>5, <1>6
<1> QED
  BY <1>7 DEF JobInv, Shaped, Sited, Worked

\* Before the first block nothing is settled.
LEMMA Started ==
  ASSUME NEW n, Shaped(n), n.pc \in {"lingua", "list"}, n.at = <<1, 1>>, n.sketches = <<>>,
         \A l, b \in Nat : IsPlace(n, l, b) => Text(n, l, b) = Came(n, l, b)
  PROVE  JobInv(n)
<1>1. Sited(n)
  <2>1. 1 <= Len(n.src.lists) => IsPlace(n, 1, 1)
    <3>1. 1 <= Len(n.src.lists) => 1 \in 1..Len(n.src.lists)
      BY ShapeParts
    <3> QED
      BY <3>1, FirstBlock
  <2>2. Len(n.src.lists) \in Nat
    BY ShapeParts
  <2> QED
    BY <2>1, <2>2 DEF Sited
<1>2. ASSUME NEW l \in Nat, NEW b \in Nat, IsPlace(n, l, b)
      PROVE  ~Earlier(l, b, 1, 1)
  BY <1>2, PlaceParts DEF Earlier, IsPlace
<1>3. n.sketches = <<>> /\ Len(n.sketches) = 0
  OBVIOUS
<1>4. \A l, b \in Nat : IsPlace(n, l, b) => Text(n, l, b) \in Plains
  BY PlaceParts
<1>5. \A i \in 1..Len(n.sketches) : FALSE
  BY <1>3
<1>6. n.at[1] = 1 /\ n.at[2] = 1
  OBVIOUS
<1>7. n.pc # "lingua" =>
        \A l, b \in Nat : IsPlace(n, l, b) =>
          IF Earlier(l, b, n.at[1], n.at[2]) THEN Settled(n, l, b)
          ELSE IF n.pc = "block" /\ l = n.at[1] THEN Given(n, l, b, Text(n, l, b))
          ELSE Text(n, l, b) = Came(n, l, b)
  BY <1>2, <1>6
<1>8. Worked(n)
  BY <1>3, <1>4, <1>5, <1>7, Zenon DEF Worked
<1> QED
  BY <1>1, <1>8 DEF JobInv

LEMMA EndKeeps ==
  ASSUME JobInv(job), LinguaEnds
  PROVE  JobInv(job)'
<1> DEFINE S == [l \in DOMAIN job.lists |-> job.lists[l].blocks]
           N == Len(job.src.lists)
<1>1. /\ Shaped(job) /\ DOMAIN job = JobFields /\ job.sketches = <<>>
      /\ \A l, b \in Nat : IsPlace(job, l, b) => Text(job, l, b) \in Plains
  BY DEF JobInv, Shaped, Worked, LinguaEnds
<1>2. /\ DOMAIN job' = JobFields /\ job'.src = job.src /\ job'.opts = job.opts
      /\ job'.lists = job.lists /\ job'.squeezed = S
      /\ job'.sketches = job.sketches /\ job'.pc = "list" /\ job'.at = <<1, 1>>
  BY <1>1, Zenon DEF JobFields, LinguaEnds
<1>3. /\ N \in Nat /\ DOMAIN job.lists = 1..N
      /\ \A l \in 1..N : Len(job.src.lists[l].blocks) \in Nat
  <2>1. job.lists \in Seq(ListSet(Terms)) /\ Len(job.lists) = N
    BY <1>1 DEF Shaped
  <2> QED
    BY <1>1, <2>1, ShapeParts, LenProperties
<1>4. ASSUME NEW l \in 1..N
      PROVE  /\ job.lists[l].blocks \in Seq(BlockSet(Plains))
             /\ Len(job.lists[l].blocks) = Len(job.src.lists[l].blocks)
  <2> DEFINE bs == job.lists[l].blocks
             m == Len(job.src.lists[l].blocks)
  <2>1. Len(bs) = m /\ m \in Nat
    BY <1>1, <1>3, Zenon DEF Shaped
  <2>2. ASSUME NEW b \in 1..m
        PROVE  bs[b] \in BlockSet(Plains)
    <3>1. IsPlace(job, l, b) /\ l \in Nat /\ b \in Nat
      BY <1>3, <2>1 DEF IsPlace
    <3>2. bs[b].text \in Plains
      BY <1>1, <3>1 DEF Text
    <3>3. bs[b] \in BlockSet(Terms)
      BY <1>1, <3>1, PlaceParts
    <3> HIDE DEF bs
    <3> QED
      BY <3>2, <3>3 DEF BlockSet
  <2>3. bs \in Seq(BlockSet(Terms))
    <3>1. job.lists \in Seq(ListSet(Terms)) /\ l \in 1..Len(job.lists)
      BY <1>1 DEF Shaped
    <3> DEFINE ls == job.lists
    <3> HIDE DEF ls
    <3>2. ls[l] \in ListSet(Terms)
      BY <3>1, ElementOfSeq DEF ls
    <3> QED
      BY <3>2 DEF ListSet, ls
  <2> HIDE DEF bs, m
  <2>4. bs = [b \in 1..m |-> bs[b]]
    BY <2>1, <2>3, LenProperties
  <2>5. bs \in Seq(BlockSet(Plains))
    BY <2>1, <2>2, <2>4, IsASeq
  <2> QED
    BY <2>1, <2>5 DEF bs, m
<1>5. S \in Seq(Seq(BlockSet(Plains))) /\ Len(S) = N
      /\ \A l \in 1..N : S[l] = job.lists[l].blocks
  <2>1. S = [l \in 1..N |-> job.lists[l].blocks]
    BY <1>3
  <2> HIDE DEF S, N
  <2> QED
    BY <1>3, <1>4, <2>1, IsASeq
<1> HIDE DEF S, N
<1>6. Shaped(job')
  <2>1. /\ job'.pc \in {"lingua", "list", "block", "done"}
        /\ Len(job'.squeezed) = Len(job'.src.lists)
        /\ job'.squeezed \in Seq(Seq(BlockSet(Plains)))
    BY <1>2, <1>5 DEF N
  <2>2. \A l \in 1..N : Len(S[l]) = Len(job.src.lists[l].blocks)
    BY <1>4, <1>5
  <2> QED
    BY <1>1, <1>2, <2>1, <2>2 DEF Shaped, N
<1>7. ASSUME NEW l \in Nat, NEW b \in Nat, IsPlace(job', l, b)
      PROVE  Text(job', l, b) = Came(job', l, b)
  <2>1. l \in 1..N
    BY <1>2, <1>7 DEF IsPlace, N
  <2> QED
    BY <1>2, <1>5, <2>1 DEF Text, Came
<1>8. JobInv(job')
  BY <1>1, <1>2, <1>6, <1>7, Started
<1> QED
  BY <1>8 DEF JobInv, Shaped, Sited, Worked

LEMMA FreshParts ==
  ASSUME NEW bs \in Seq(BlockSet(Texts))
  PROVE  /\ Fresh(bs) \in Seq(BlockSet(Plains)) /\ Len(Fresh(bs)) = Len(bs)
         /\ \A b \in 1..Len(bs) : Fresh(bs)[b].type = bs[b].type
                                  /\ Fresh(bs)[b].text \in Plains
<1>1. Len(bs) \in Nat /\ DOMAIN bs = 1..Len(bs) /\ \A b \in 1..Len(bs) : bs[b] \in BlockSet(Texts)
  BY LenProperties, ElementOfSeq
<1> DEFINE New(b) == [bs[b] EXCEPT !.text = Plain(bs[b].text)]
<1>2. ASSUME NEW b \in 1..Len(bs)
      PROVE  New(b) \in BlockSet(Plains) /\ New(b).type = bs[b].type /\ New(b).text \in Plains
  <2> DEFINE o == bs[b]
             t == Plain(o.text)
  <2>1. o \in BlockSet(Texts)
    BY <1>1
  <2>2. t \in Plains
    BY <2>1, SameTerms DEF BlockSet
  <2> HIDE DEF o, t
  <2>3. /\ [o EXCEPT !.text = t] \in BlockSet(Plains)
        /\ [o EXCEPT !.text = t].type = o.type /\ [o EXCEPT !.text = t].text = t
    BY <2>1, <2>2 DEF BlockSet
  <2> QED
    BY <2>2, <2>3 DEF o, t
<1>3. Fresh(bs) = [b \in 1..Len(bs) |-> New(b)]
  BY <1>1 DEF Fresh
<1> HIDE DEF New
<1>4. Fresh(bs) \in Seq(BlockSet(Plains)) /\ DOMAIN Fresh(bs) = 1..Len(bs)
      /\ \A b \in 1..Len(bs) : Fresh(bs)[b] = New(b)
  BY <1>1, <1>2, <1>3, IsASeq
<1>5. Len(Fresh(bs)) = Len(bs)
  BY <1>1, <1>4, LenProperties
<1> QED
  BY <1>2, <1>4, <1>5

LEMMA BeginKeeps ==
  ASSUME NEW p \in Payloads, NEW o \in Options, Begin(p, o)
  PROVE  JobInv(job)'
<1> DEFINE ls == p.lists
           N == Len(ls)
           L == [l \in DOMAIN ls |-> [ls[l] EXCEPT !.blocks = Fresh(@)]]
           S == [l \in DOMAIN ls |-> Fresh(ls[l].blocks)]
<1>1. /\ DOMAIN job' = JobFields /\ job'.src = p /\ job'.opts = o /\ job'.at = <<1, 1>>
      /\ job'.sketches = <<>> /\ job'.pc \in {"lingua", "list"}
      /\ job'.lists = L /\ job'.squeezed = S
  BY DEF Begin, JobFields
<1>2. /\ N \in Nat /\ DOMAIN ls = 1..N
      /\ \A l \in 1..N : ls[l] \in ListSet(Texts) /\ ls[l].blocks \in Seq(BlockSet(Texts))
                         /\ Len(ls[l].blocks) \in Nat /\ Len(ls[l].blocks) >= 1
  BY PayloadParts
<1>3. BlockSet(Plains) \subseteq BlockSet(Terms)
  BY SameTerms DEF BlockSet
<1> DEFINE Item(l) == [ls[l] EXCEPT !.blocks = Fresh(ls[l].blocks)]
<1>4. ASSUME NEW l \in 1..N
      PROVE  /\ Item(l) \in ListSet(Terms)
             /\ Item(l).kind = ls[l].kind /\ Item(l).bare = ls[l].bare
             /\ Item(l).blocks = Fresh(ls[l].blocks)
  <2> DEFINE r == ls[l]
             fresh == Fresh(r.blocks)
  <2>1. r \in ListSet(Texts) /\ r.blocks \in Seq(BlockSet(Texts))
    BY <1>2
  <2>2. fresh \in Seq(BlockSet(Plains))
    BY <2>1, FreshParts
  <2> HIDE DEF r, fresh
  <2>3. fresh \in Seq(BlockSet(Terms))
    BY <1>3, <2>2, SeqMonotonic
  <2>4. /\ [r EXCEPT !.blocks = fresh] \in ListSet(Terms)
        /\ [r EXCEPT !.blocks = fresh].kind = r.kind
        /\ [r EXCEPT !.blocks = fresh].bare = r.bare
        /\ [r EXCEPT !.blocks = fresh].blocks = fresh
    BY <2>1, <2>3 DEF ListSet
  <2> QED
    BY <2>4 DEF r, fresh
<1>5. L = [l \in 1..N |-> Item(l)] /\ S = [l \in 1..N |-> Fresh(ls[l].blocks)]
  BY <1>2
<1>6. \A l \in 1..N : Fresh(ls[l].blocks) \in Seq(BlockSet(Plains))
  BY <1>2, FreshParts
<1> HIDE DEF L, S, N, ls, Item
<1>7. /\ L \in Seq(ListSet(Terms)) /\ Len(L) = N /\ \A l \in 1..N : L[l] = Item(l)
  <2>1. L \in Seq(ListSet(Terms)) /\ DOMAIN L = 1..N /\ \A l \in 1..N : L[l] = Item(l)
    BY <1>2, <1>4, <1>5, IsASeq
  <2> QED
    BY <1>2, <2>1, LenProperties
<1>8. /\ S \in Seq(Seq(BlockSet(Plains))) /\ Len(S) = N
      /\ \A l \in 1..N : S[l] = Fresh(ls[l].blocks)
  <2>1. /\ S \in Seq(Seq(BlockSet(Plains))) /\ DOMAIN S = 1..N
        /\ \A l \in 1..N : S[l] = Fresh(ls[l].blocks)
    BY <1>2, <1>5, <1>6, IsASeq
  <2> QED
    BY <1>2, <2>1, LenProperties
<1>9. ASSUME NEW l \in 1..N
      PROVE  /\ L[l].kind = ls[l].kind /\ L[l].bare = ls[l].bare
             /\ L[l].blocks = Fresh(ls[l].blocks) /\ S[l] = Fresh(ls[l].blocks)
             /\ Len(Fresh(ls[l].blocks)) = Len(ls[l].blocks)
             /\ \A b \in 1..Len(ls[l].blocks) :
                  Fresh(ls[l].blocks)[b].type = ls[l].blocks[b].type
                  /\ Fresh(ls[l].blocks)[b].text \in Plains
  BY <1>2, <1>4, <1>7, <1>8, FreshParts
<1>10. job'.src.lists = ls /\ Len(job'.src.lists) = N
  BY <1>1 DEF ls, N
<1>11. Shaped(job')
  <2>1. <<>> \in Sketches
    BY EmptySeq DEF Sketches
  <2>2. \A l \in 1..N : Len(L[l].blocks) = Len(ls[l].blocks) /\ Len(S[l]) = Len(ls[l].blocks)
    BY <1>9
  <2>3. \A l \in 1..N : \A b \in 1..Len(ls[l].blocks) : L[l].blocks[b].type = ls[l].blocks[b].type
    BY <1>9
  <2>4. \A l \in 1..N : L[l].kind = ls[l].kind /\ L[l].bare = ls[l].bare
    BY <1>9
  <2>5. job'.pc \in {"lingua", "list", "block", "done"}
    BY <1>1
  <2>6. job'.src \in Payloads /\ job'.opts \in Options /\ job'.sketches \in Sketches
    BY <1>1, <2>1
  <2>7. /\ job'.lists \in Seq(ListSet(Terms)) /\ Len(job'.lists) = N
        /\ job'.squeezed \in Seq(Seq(BlockSet(Plains))) /\ Len(job'.squeezed) = N
    BY <1>1, <1>7, <1>8
  <2>8. job'.lists = L /\ job'.squeezed = S
    BY <1>1
  <2> QED
    BY <1>1, <1>10, <2>2, <2>3, <2>4, <2>5, <2>6, <2>7, <2>8, ZenonT(30) DEF Shaped
<1>12. ASSUME NEW l \in Nat, NEW b \in Nat, IsPlace(job', l, b)
       PROVE  Text(job', l, b) = Came(job', l, b)
  <2>1. l \in 1..N /\ b \in 1..Len(ls[l].blocks)
    BY <1>10, <1>12 DEF IsPlace
  <2>2. job'.lists = L /\ job'.squeezed = S
    BY <1>1
  <2> QED
    BY <1>9, <2>1, <2>2 DEF Text, Came
<1>13. JobInv(job')
  BY <1>1, <1>11, <1>12, Started
<1> QED
  BY <1>13 DEF JobInv, Shaped, Sited, Worked

LEMMA DoneKeeps ==
  ASSUME JobInv(job), Done
  PROVE  JobInv(job)'
<1>1. /\ Shaped(job) /\ Sited(job) /\ Worked(job) /\ DOMAIN job = JobFields
      /\ Len(job.src.lists) \in Nat /\ job.pc = "list"
      /\ job.at[1] = Len(job.src.lists) + 1 /\ job.at[2] = 1
  <2>1. Shaped(job) /\ Sited(job) /\ Worked(job) /\ DOMAIN job = JobFields
    BY DEF JobInv, Shaped
  <2>2. Len(job.src.lists) \in Nat /\ Len(job.lists) = Len(job.src.lists)
    BY <2>1, ShapeParts
  <2>3. job.pc = "list" /\ job.at[1] > Len(job.lists)
    BY DEF Done
  <2>4. job.at[1] \in 1..(Len(job.src.lists) + 1) /\ job.at[2] = 1
    BY <2>1, <2>3 DEF Sited
  <2> QED
    BY <2>1, <2>2, <2>3, <2>4
<1>2. /\ DOMAIN job' = JobFields /\ job'.src = job.src /\ job'.opts = job.opts
      /\ job'.lists = job.lists /\ job'.squeezed = job.squeezed
      /\ job'.sketches = job.sketches /\ job'.pc = "done" /\ job'.at = job.at
  BY <1>1, Zenon DEF JobFields, Done
<1>3. /\ Shaped(job')
      /\ \A k, c : /\ IsPlace(job', k, c) <=> IsPlace(job, k, c)
                   /\ Came(job', k, c) = Came(job, k, c)
                   /\ Text(job', k, c) = Text(job, k, c)
                   /\ SameUpTo(job', k, c)
  BY <1>1, <1>2, SameLists
<1>4. Sited(job')
  BY <1>1, <1>2 DEF Sited
<1>5. ASSUME NEW l \in Nat, NEW b \in Nat, IsPlace(job', l, b)
      PROVE  IF Earlier(l, b, job'.at[1], job'.at[2]) THEN Settled(job', l, b)
             ELSE Text(job', l, b) = Came(job', l, b)
  <2>1. IsPlace(job, l, b)
    BY <1>3, <1>5
  <2>2. IF Earlier(l, b, job.at[1], job.at[2]) THEN Settled(job, l, b)
        ELSE Text(job, l, b) = Came(job, l, b)
    BY <1>1, <2>1 DEF Worked
  <2> QED
    BY <1>2, <1>3, <2>1, <2>2, SettledSame
<1>6. ASSUME NEW i \in 1..Len(job'.sketches)
      PROVE  LET k == job'.sketches[i].at[1]  c == job'.sketches[i].at[2]
             IN /\ IsPlace(job', k, c) /\ Earlier(k, c, job'.at[1], job'.at[2])
                /\ job'.sketches[i].text = Came(job', k, c).of
                /\ Kept(Text(job', k, c))
  BY <1>1, <1>2, <1>3 DEF Worked
<1>7. JobInv(job')
  BY <1>2, <1>3, <1>4, <1>5, <1>6 DEF JobInv, Worked
<1> QED
  BY <1>7 DEF JobInv, Shaped, Sited, Worked

-----------------------------------------------------------------------------
LEMMA IInvInit == Init => IInv
<1> SUFFICES ASSUME Init PROVE IInv
  OBVIOUS
<1>1. cache = <<>> /\ job.pc = "idle"
  BY DEF Init, Idle
<1>2. cache \in Seq(Entries) /\ Len(cache) = 0
  BY <1>1, EmptySeq
<1>3. \A i \in 1..Len(cache) : FALSE
  BY <1>2
<1>4. CacheInv
  BY <1>2, <1>3, CompressorAssumption DEF CacheInv
<1> QED
  BY <1>1, <1>4 DEF Init, IInv

LEMMA IInvStep == IInv /\ [Next]_vars => IInv'
<1> SUFFICES ASSUME IInv, [Next]_vars PROVE IInv'
  OBVIOUS
<1>1. ASSUME UNCHANGED cache PROVE CacheInv'
  BY <1>1 DEF IInv, CacheInv
<1>2. /\ CacheInv /\ model \in {"unloaded", "loaded", "failed"} /\ loads \in Nat
      /\ job.pc # "idle" => JobInv(job)
  BY DEF IInv
<1>3. ASSUME NEW p \in Payloads, NEW o \in Options, Begin(p, o)
      PROVE  IInv'
  <2>1. JobInv(job)'
    BY <1>3, BeginKeeps
  <2>2. UNCHANGED <<cache, model, loads>>
    BY <1>3 DEF Begin
  <2> QED
    BY <1>1, <1>2, <2>1, <2>2 DEF IInv
<1>4. CASE LinguaStep
  <2>1. JobInv(job) /\ UNCHANGED cache
    BY <1>2, <1>4 DEF LinguaStep
  <2>2. JobInv(job)'
    BY <1>4, <2>1, LinguaKeeps
  <2>3. model' \in {"unloaded", "loaded", "failed"} /\ loads' \in Nat
    <3>1. \/ UNCHANGED <<model, loads>>
          \/ model' \in {"loaded", "failed"} /\ loads' = loads + 1
      BY <1>4, Zenon DEF LinguaStep, Squeeze, EnsureModel
    <3> QED
      BY <1>2, <3>1
  <2> QED
    BY <1>1, <2>1, <2>2, <2>3 DEF IInv
<1>5. CASE LinguaEnds
  <2>1. JobInv(job) /\ UNCHANGED <<cache, model, loads>>
    BY <1>2, <1>5 DEF LinguaEnds
  <2>2. JobInv(job)'
    BY <1>5, <2>1, EndKeeps
  <2> QED
    BY <1>1, <1>2, <2>1, <2>2 DEF IInv
<1>6. CASE ListStep
  <2>1. JobInv(job) /\ UNCHANGED <<cache, model, loads>>
    BY <1>2, <1>6 DEF ListStep
  <2>2. JobInv(job)'
    BY <1>6, <2>1, ListKeeps
  <2> QED
    BY <1>1, <1>2, <2>1, <2>2 DEF IInv
<1>7. CASE BlockStep
  <2>1. JobInv(job) /\ UNCHANGED <<model, loads>>
    BY <1>2, <1>7 DEF BlockStep
  <2>2. CacheInv' /\ JobInv(job)'
    BY <1>2, <1>7, <2>1, BlockKeeps
  <2> QED
    BY <1>2, <2>1, <2>2 DEF IInv
<1>8. CASE Done
  <2>1. JobInv(job) /\ UNCHANGED <<cache, model, loads>>
    BY <1>2, <1>8 DEF Done
  <2>2. JobInv(job)'
    BY <1>8, <2>1, DoneKeeps
  <2> QED
    BY <1>1, <1>2, <2>1, <2>2 DEF IInv
<1>9. CASE UNCHANGED vars
  <2>1. UNCHANGED <<job, cache, model, loads>>
    BY <1>9 DEF vars
  <2>2. JobInv(job) => JobInv(job)'
    BY <2>1 DEF JobInv, Shaped, Sited, Worked
  <2> QED
    BY <1>1, <1>2, <2>1, <2>2 DEF IInv
<1> QED
  BY <1>3, <1>4, <1>5, <1>6, <1>7, <1>8, <1>9 DEF Next

LEMMA IInvStays == Spec => []IInv
<1>1. Init => IInv
  BY IInvInit
<1>2. IInv /\ [Next]_vars => IInv'
  BY IInvStep
<1> QED
  BY <1>1, <1>2, PTL DEF Spec

\* A place is a list and a block of it.
LEMMA PlaceNamed ==
  ASSUME JobInv(job), NEW p \in Places
  PROVE  \E l, b \in Nat : /\ p = <<l, b>> /\ IsPlace(job, l, b)
                           /\ Block(p).text = Text(job, l, b)
                           /\ Text(job, l, b) \in Terms /\ Came(job, l, b) \in Plains
<1>1. PICK l \in DOMAIN job.lists : \E b \in DOMAIN job.lists[l].blocks : p = <<l, b>>
  BY DEF Places
<1>2. PICK b \in DOMAIN job.lists[l].blocks : p = <<l, b>>
  BY <1>1
<1>3. Shaped(job)
  BY DEF JobInv
<1>4. l \in 1..Len(job.src.lists)
  <2>1. job.lists \in Seq(ListSet(Terms)) /\ Len(job.lists) = Len(job.src.lists)
    BY <1>3 DEF Shaped
  <2> QED
    BY <2>1, LenProperties
<1>5. b \in 1..Len(job.src.lists[l].blocks)
  <2>1. IsPlace(job, l, 1)
    BY <1>3, <1>4, FirstBlock
  <2> QED
    BY <1>2, <1>3, <2>1, PlaceParts
<1>6. IsPlace(job, l, b)
  BY <1>4, <1>5 DEF IsPlace
<1>7. l \in Nat /\ b \in Nat /\ Text(job, l, b) \in Terms /\ Came(job, l, b) \in Plains
  BY <1>3, <1>6, PlaceParts
<1>8. Block(p).text = Text(job, l, b)
  BY <1>2 DEF Block, Text
<1> QED
  BY <1>2, <1>6, <1>7, <1>8

\* Every request keeps its shape, and the result cache its size and one entry
\* for each key.
THEOREM CompressorTyped == Spec => []TypeOK
<1>1. ASSUME IInv PROVE TypeOK
  <2>1. /\ CacheInv /\ model \in {"unloaded", "loaded", "failed"} /\ loads \in Nat
        /\ job.pc # "idle" => JobInv(job)
    BY <1>1 DEF IInv
  <2>2. Len(cache) <= CacheSize /\ \A i, j \in DOMAIN cache : cache[i].key = cache[j].key => i = j
    <3>1. DOMAIN cache = 1..Len(cache)
      BY <2>1, LenProperties DEF CacheInv
    <3> QED
      BY <2>1, <3>1 DEF CacheInv
  <2>3. ASSUME JobInv(job)
        PROVE  /\ job.pc \in {"idle", "lingua", "list", "block", "done"}
               /\ job.src \in Payloads /\ job.opts \in Options
               /\ \A p \in Places : Source(Block(p).text).tag \in {"text", "lsh", "jl"}
               /\ \A i \in DOMAIN job.sketches : job.sketches[i].text \in Long
    <3>1. job.pc \in {"lingua", "list", "block", "done"}
          /\ job.src \in Payloads /\ job.opts \in Options
      BY <2>3 DEF JobInv, Shaped
    <3>2. \A p \in Places : Source(Block(p).text).tag \in {"text", "lsh", "jl"}
      BY <2>3, PlaceNamed, SourceTag
    <3>3. ASSUME NEW i \in DOMAIN job.sketches PROVE job.sketches[i].text \in Long
      <4> DEFINE s == job.sketches
                 R == [text : Long, at : Nat \X Nat]
      <4>1. s \in Seq(R) /\ i \in DOMAIN s
        BY <2>3 DEF JobInv, Shaped, Sketches
      <4> HIDE DEF s, R
      <4>2. s[i] \in R
        BY <4>1, LenProperties, ElementOfSeq
      <4> QED
        BY <4>2 DEF s, R
    <3> QED
      BY <3>1, <3>2, <3>3
  <2> QED
    BY <2>1, <2>2, <2>3 DEF TypeOK
<1> QED
  BY <1>1, IInvStays, PTL

\* When the engines are done every text is settled.
LEMMA AllSettled ==
  ASSUME JobInv(job), job.pc = "done", NEW l \in Nat, NEW b \in Nat, IsPlace(job, l, b)
  PROVE  Settled(job, l, b)
<1>1. job.at[1] = Len(job.src.lists) + 1 /\ Len(job.src.lists) \in Nat
      /\ l <= Len(job.src.lists)
  BY PlaceParts DEF JobInv, Sited, IsPlace
<1>2. Earlier(l, b, job.at[1], job.at[2])
  BY <1>1 DEF Earlier
<1> QED
  BY <1>2 DEF JobInv, Worked

\* The result cache outlives the requests and their toggles, and yet every text
\* comes out as the engines of its own request would make it, unless a JL
\* marker stands for it.
THEOREM CacheNeverSeen == Spec => []CacheTransparent
<1>1. ASSUME IInv, job.pc = "done", NEW p \in Places, Visited(p)
      PROVE  LET t == Block(p).text
                 given == IF Source(t).tag = "lsh" THEN Source(t)
                          ELSE job.squeezed[p[1]][p[2]].text
             IN t.tag = "jl" \/ t = Compressed(given, job.opts.cfg)
  <2>1. JobInv(job) /\ Shaped(job)
    BY <1>1 DEF IInv, JobInv
  <2>2. PICK l \in Nat, b \in Nat :
          /\ p = <<l, b>> /\ IsPlace(job, l, b)
          /\ Block(p).text = Text(job, l, b)
          /\ Came(job, l, b) \in Plains
    BY <2>1, PlaceNamed
  <2> DEFINE t == Text(job, l, b)
  <2>3. PICK g : /\ Given(job, l, b, g)
                 /\ IF ToVisit(job, l, b)
                      THEN \/ t = Compressed(g, job.opts.cfg)
                           \/ g = Came(job, l, b) /\ Linked(job, l, b)
                      ELSE t = g
    BY <1>1, <2>1, <2>2, AllSettled DEF Settled
  <2>4. ToVisit(job, l, b)
    <3>1. job.lists[l].kind = job.src.lists[l].kind
      BY <2>1, <2>2, ShapeParts DEF IsPlace
    <3>2. Block(p).type = job.src.lists[l].blocks[b].type
      BY <2>1, <2>2 DEF Block, Shaped, IsPlace
    <3> QED
      BY <1>1, <2>2, <3>1, <3>2 DEF Visited, ToVisit
  <2>5. g \in Givens /\ job.opts.cfg \in Configs
    BY <2>1, <2>2, <2>3, GivenType DEF Shaped, Configs
  <2>6. Source(Compressed(g, job.opts.cfg)) = g
    BY <2>5, CompressedParts
  <2>7. g.tag = "lsh" \/ g = Came(job, l, b)
    <3>1. \A c, u : LSHMark(c, u).tag = "lsh"
      BY DEF LSHMark
    <3> QED
      BY <2>3, <3>1 DEF Given
  <2>8. Came(job, l, b).tag = "text"
    BY <2>2, SameTerms
  <2>9. Linked(job, l, b) => t.tag = "jl"
    <3>1. \A q, u : JLMark(q, u).tag = "jl"
      BY DEF JLMark
    <3> QED
      BY <3>1 DEF Linked
  <2>10. job.squeezed[p[1]][p[2]].text = Came(job, l, b)
    BY <2>2 DEF Came
  <2> HIDE DEF t
  <2>11. CASE t = Compressed(g, job.opts.cfg)
    <3>1. Source(t) = g
      BY <2>6, <2>11
    <3>2. CASE g.tag = "lsh"
      BY <2>2, <2>11, <3>1, <3>2 DEF t
    <3>3. CASE g = Came(job, l, b) /\ g.tag # "lsh"
      BY <2>2, <2>10, <2>11, <3>1, <3>3 DEF t
    <3> QED
      BY <2>7, <3>2, <3>3
  <2> QED
    BY <2>2, <2>3, <2>4, <2>9, <2>11 DEF t
<1>2. IInv => CacheTransparent
  BY <1>1 DEF CacheTransparent
<1> QED
  BY <1>2, IInvStays, PTL

\* Every duplicate marker names an earlier block that a reader still finds, and
\* that is near enough to what the marker stands for.
LEMMA MarkResolves ==
  ASSUME JobInv(job), job.pc = "done", NEW p \in Places
  PROVE  LET m == Source(Block(p).text)
             q == IF m.tag = "jl" THEN m.at ELSE IF m.tag = "lsh" THEN <<p[1], m.at>> ELSE p
             original == job.squeezed[q[1]][q[2]].text.of
         IN m.tag # "text" =>
              /\ q # p /\ AtOrBefore(q, p)
              /\ m.tag = "jl" => /\ Kept(Block(q).text)
                                 /\ JLScore[<<m.of, original>>] >= JLThreshold
              /\ m.tag = "lsh" => /\ Kept(Block(q).text) \/ Block(q).text.tag = "jl"
                                  /\ LSHScore[<<m.of, original>>] >= LSHThreshold
<1>1. Shaped(job)
  BY DEF JobInv
<1>2. PICK l \in Nat, b \in Nat :
        /\ p = <<l, b>> /\ IsPlace(job, l, b) /\ Block(p).text = Text(job, l, b)
        /\ Came(job, l, b) \in Plains
  BY PlaceNamed
<1> DEFINE t == Text(job, l, b)
           m == Source(t)
<1>3. PICK g : /\ Given(job, l, b, g)
               /\ IF ToVisit(job, l, b)
                    THEN \/ t = Compressed(g, job.opts.cfg)
                         \/ g = Came(job, l, b) /\ Linked(job, l, b)
                    ELSE t = g
  BY <1>2, AllSettled DEF Settled
<1>4. g \in Givens /\ job.opts.cfg \in Configs
  BY <1>1, <1>2, <1>3, GivenType DEF Shaped, Configs
<1>5. Source(Compressed(g, job.opts.cfg)) = g /\ Source(g) = g
  BY <1>4, CompressedParts, GivenTag
<1> HIDE DEF t
<1>6. m = g \/ Linked(job, l, b)
  BY <1>3, <1>5
<1>7. ASSUME Linked(job, l, b)
      PROVE  LET q == m.at
                 original == job.squeezed[q[1]][q[2]].text.of
             IN /\ m.tag = "jl" /\ q # p /\ AtOrBefore(q, p)
                /\ Kept(Block(q).text) /\ JLScore[<<m.of, original>>] >= JLThreshold
  <2>1. PICK k \in Nat, c \in Nat :
          /\ IsPlace(job, k, c) /\ Earlier(k, c, l, b)
          /\ t = JLMark(<<k, c>>, Came(job, l, b).of)
          /\ Kept(Text(job, k, c))
          /\ JLScore[<<Came(job, l, b).of, Came(job, k, c).of>>] >= JLThreshold
    BY <1>7 DEF Linked, t
  <2>2. m.tag = "jl" /\ m.at = <<k, c>> /\ m.of = Came(job, l, b).of
    <3>1. t.tag = "jl" /\ t.at = <<k, c>> /\ t.of = Came(job, l, b).of
      BY <2>1 DEF JLMark
    <3>2. m = t
      BY <3>1 DEF Source
    <3> QED
      BY <3>1, <3>2
  <2>3. <<k, c>> # p /\ AtOrBefore(<<k, c>>, p)
    BY <1>2, <2>1 DEF Earlier, AtOrBefore
  <2>4. Block(<<k, c>>).text = Text(job, k, c)
        /\ job.squeezed[k][c].text.of = Came(job, k, c).of
    BY DEF Block, Text, Came
  <2>5. m.at[1] = k /\ m.at[2] = c
    BY <2>2
  <2> HIDE DEF m
  <2> QED
    BY <2>1, <2>2, <2>3, <2>4, <2>5
<1>8. CASE m = g /\ g = Came(job, l, b)
  <2>1. m.tag = "text"
    BY <1>2, <1>8, SameTerms
  <2> QED
    BY <1>2, <2>1 DEF t
<1>9. ASSUME m = g,
             NEW c \in 1..(b - 1),
             /\ g = LSHMark(c, Came(job, l, b).of)
             /\ LSHScore[<<Came(job, l, b).of, Came(job, l, c).of>>] >= LSHThreshold
             /\ Source(Text(job, l, c)).tag # "lsh"
      PROVE  /\ m.tag = "lsh" /\ m.at = c /\ m.of = Came(job, l, b).of
             /\ Kept(Text(job, l, c)) \/ Text(job, l, c).tag = "jl"
             /\ <<l, c>> # p /\ AtOrBefore(<<l, c>>, p)
  <2>1. m.tag = "lsh" /\ m.at = c /\ m.of = Came(job, l, b).of
    BY <1>9 DEF LSHMark
  <2>2. <<l, c>> # p /\ AtOrBefore(<<l, c>>, p)
    BY <1>2 DEF AtOrBefore
  <2>3. IsPlace(job, l, c)
    BY <1>2 DEF IsPlace
  <2>4. Text(job, l, c) \in Terms
    BY <1>1, <2>3, PlaceParts
  <2>5. Kept(Text(job, l, c)) \/ Text(job, l, c).tag = "jl"
    <3> DEFINE u == Text(job, l, c)
    <3>1. CASE u \in Givens
      BY <1>9, <3>1, GivenTag DEF Kept
    <3>2. CASE u \in Outs
      <4>1. PICK h \in Givens, d \in Configs : u = Compressed(h, d)
        BY <3>2 DEF Outs
      <4>2. Source(u) = h /\ h.tag \in {"text", "lsh"}
        BY <4>1, CompressedParts, GivenTag
      <4> QED
        BY <1>9, <4>2 DEF Kept
    <3>3. CASE u \in Links
      BY <3>3 DEF Links, JLMark
    <3> QED
      BY <2>4, <3>1, <3>2, <3>3 DEF Terms
  <2> QED
    BY <2>1, <2>2, <2>5
<1>10. ASSUME m = g,
              NEW c \in 1..(b - 1),
              /\ g = LSHMark(c, Came(job, l, b).of)
              /\ LSHScore[<<Came(job, l, b).of, Came(job, l, c).of>>] >= LSHThreshold
              /\ Source(Text(job, l, c)).tag # "lsh"
       PROVE  LET q == <<p[1], m.at>>
                  original == job.squeezed[q[1]][q[2]].text.of
              IN /\ m.tag = "lsh" /\ q # p /\ AtOrBefore(q, p)
                 /\ Kept(Block(q).text) \/ Block(q).text.tag = "jl"
                 /\ LSHScore[<<m.of, original>>] >= LSHThreshold
  <2>1. /\ m.tag = "lsh" /\ m.at = c /\ m.of = Came(job, l, b).of
        /\ Kept(Text(job, l, c)) \/ Text(job, l, c).tag = "jl"
        /\ <<l, c>> # p /\ AtOrBefore(<<l, c>>, p)
    BY <1>9, <1>10
  <2>2. Block(<<l, c>>).text = Text(job, l, c)
        /\ job.squeezed[l][c].text.of = Came(job, l, c).of
    BY DEF Block, Text, Came
  <2> HIDE DEF m
  <2> QED
    BY <1>2, <1>10, <2>1, <2>2
<1> HIDE DEF m
<1>11. Source(Block(p).text) = m
  BY <1>2 DEF m, t
<1>12. \/ m = g /\ g = Came(job, l, b)
       \/ Linked(job, l, b)
       \/ \E c \in 1..(b - 1) :
            /\ m = g /\ g = LSHMark(c, Came(job, l, b).of)
            /\ LSHScore[<<Came(job, l, b).of, Came(job, l, c).of>>] >= LSHThreshold
            /\ Source(Text(job, l, c)).tag # "lsh"
  BY <1>3, <1>6 DEF Given
<1> QED
  BY <1>7, <1>8, <1>10, <1>11, <1>12

\* Whatever the passes and toggles, no marker of an answer leads nowhere.
THEOREM MarkersLead == Spec => []MarkersResolve
<1>1. IInv => MarkersResolve
  <2> SUFFICES ASSUME IInv, job.pc = "done", NEW p \in Places
               PROVE  LET m == Source(Block(p).text)
                          q == IF m.tag = "jl" THEN m.at
                               ELSE IF m.tag = "lsh" THEN <<p[1], m.at>> ELSE p
                          original == job.squeezed[q[1]][q[2]].text.of
                      IN m.tag # "text" =>
                           /\ q # p /\ AtOrBefore(q, p)
                           /\ m.tag = "jl" => /\ Kept(Block(q).text)
                                              /\ JLScore[<<m.of, original>>] >= JLThreshold
                           /\ m.tag = "lsh" => /\ Kept(Block(q).text) \/ Block(q).text.tag = "jl"
                                               /\ LSHScore[<<m.of, original>>] >= LSHThreshold
    BY Zenon DEF MarkersResolve
  <2>1. JobInv(job)
    BY DEF IInv
  <2> QED
    BY <2>1, MarkResolves, Zenon
<1> QED
  BY <1>1, IInvStays, PTL

-----------------------------------------------------------------------------
(* The result cache as an LRU store. *)

KeyOf == [e \in Entries |-> e.key]

\* The keys held, coldest first.
KeysOf(s) == [i \in DOMAIN s |-> s[i].key]

Order == KeysOf(cache)

LEMMA KeysAreImages ==
  ASSUME NEW s \in Seq(Entries)
  PROVE  KeysOf(s) = Images(KeyOf, s)
<1>1. DOMAIN s = 1..Len(s) /\ \A i \in 1..Len(s) : s[i] \in Entries
  BY LenProperties, ElementOfSeq
<1>2. \A i \in DOMAIN s : KeyOf[s[i]] = s[i].key
  BY <1>1 DEF KeyOf
<1> QED
  BY <1>2 DEF KeysOf, Images

LEMMA OrderParts ==
  ASSUME CacheInv
  PROVE  /\ cache \in Seq(Entries) /\ Len(cache) \in Nat /\ DOMAIN cache = 1..Len(cache)
         /\ Order = Images(KeyOf, cache) /\ EachOnce(Order)
         /\ \A i \in 1..Len(cache) : cache[i] \in Entries /\ Order[i] = cache[i].key
         /\ DOMAIN Order = 1..Len(cache) /\ Len(Order) = Len(cache)
<1>1. /\ cache \in Seq(Entries) /\ Len(cache) \in Nat /\ DOMAIN cache = 1..Len(cache)
      /\ \A i \in 1..Len(cache) : cache[i] \in Entries
      /\ \A i, k \in 1..Len(cache) : cache[i].key = cache[k].key => i = k
  BY LenProperties, ElementOfSeq DEF CacheInv
<1>2. Order = Images(KeyOf, cache)
  BY <1>1, KeysAreImages DEF Order
<1>3. Order = [i \in 1..Len(cache) |-> cache[i].key]
  BY <1>1 DEF Order, KeysOf
<1>4. Len(Order) = Len(cache)
  BY <1>1, <1>3
<1> QED
  BY <1>1, <1>2, <1>3, <1>4 DEF EachOnce

\* A hit is an access to its key.
LEMMA HitAccesses ==
  ASSUME CacheInv, CacheInv', NEW key, NEW i \in Entry(key), cache' = Touch(i)
  PROVE  /\ key \in ToSet(Order) /\ Order' = Append(RemoveFirst(Order, key), key)
         /\ Last(cache').key = key
<1>1. i \in 1..Len(cache) /\ cache[i].key = key /\ KeyOf[cache[i]] = key
  BY OrderParts DEF Entry, KeyOf
<1>2. cache' = Append(RemoveAt(cache, i), cache[i])
  BY DEF Touch
<1>3. Order' = Images(KeyOf, cache')
  BY KeysAreImages DEF CacheInv, Order
<1>4. key \in ToSet(Order) /\ Order' = Append(RemoveFirst(Order, key), key)
  BY <1>1, <1>2, <1>3, OrderParts, HitImages
<1>5. Last(cache') = cache[i]
  <2>1. RemoveAt(cache, i) \in Seq(Entries) /\ cache[i] \in Entries
    BY <1>1, OrderParts, RemoveAtShape
  <2> DEFINE r == RemoveAt(cache, i)
  <2> HIDE DEF r
  <2>2. Len(Append(r, cache[i])) = Len(r) + 1 /\ Append(r, cache[i])[Len(r) + 1] = cache[i]
    BY <2>1, AppendProperties DEF r
  <2> QED
    BY <1>2, <2>2 DEF Last, r
<1> QED
  BY <1>1, <1>4, <1>5

\* A miss stores its key.
LEMMA MissStores ==
  ASSUME CacheInv, CacheInv', NEW g \in Givens, NEW c \in Configs,
         Entry(CacheKey(g, c)) = {}, cache' = Stored(CacheKey(g, c), Compressed(g, c))
  PROVE  LET key == CacheKey(g, c)
         IN /\ Order' = LastOf(Append(RemoveFirst(Order, key), key), CacheSize)
            /\ cache' = cache => CacheSize = 0
<1> DEFINE key == CacheKey(g, c)
           e == [key |-> key, value |-> Compressed(g, c)]
           all == Append(cache, e)
<1>1. e \in Entries /\ KeyOf[e] = key /\ e.key = key
  BY DEF Entries, KeyOf
<1>2. key \notin ToSet(Order)
  BY OrderParts DEF ToSet, Entry
<1>3. cache' = IF Len(all) > CacheSize THEN Tail(all) ELSE all
  BY DEF Stored
<1>4. Order' = Images(KeyOf, cache')
  BY KeysAreImages DEF CacheInv, Order
<1>5. Len(cache) <= CacheSize /\ CacheSize \in Nat
  BY CompressorAssumption DEF CacheInv
<1> HIDE DEF e
<1>6. Order' = LastOf(Append(RemoveFirst(Order, key), key), CacheSize)
  <2>1. KeyOf[e] \notin ToSet(Images(KeyOf, cache))
    BY <1>1, <1>2, OrderParts
  <2>2. Images(KeyOf, cache')
          = LastOf(Append(RemoveFirst(Images(KeyOf, cache), KeyOf[e]), KeyOf[e]), CacheSize)
    BY <1>1, <1>3, <1>5, <2>1, OrderParts, MissImages
  <2> QED
    BY <1>1, <1>4, <2>2, OrderParts
<1>7. ASSUME cache' = cache PROVE CacheSize = 0
  <2> DEFINE n == Len(cache)
  <2>1. /\ all \in Seq(Entries) /\ Len(all) = n + 1 /\ all[n + 1] = e /\ n \in Nat
    BY <1>1, OrderParts, AppendProperties
  <2> HIDE DEF all
  <2>2. Len(all) > CacheSize
    BY <1>3, <1>7, <2>1
  <2>3. all # <<>>
    BY <2>1, EmptySeq
  <2>4. Len(Tail(all)) = n /\ \A i \in 1..n : Tail(all)[i] = all[i + 1]
    BY <2>1, <2>3, HeadTailProperties
  <2>5. CASE n # 0
    <3>1. n \in 1..n
      BY <2>1, <2>5
    <3>2. cache[n] = e
      BY <1>3, <1>7, <2>1, <2>2, <2>4, <3>1
    <3> QED
      BY <1>1, <1>2, <3>1, <3>2, OrderParts DEF ToSet
  <2>6. CASE n = 0
    BY <1>5, <2>1, <2>2, <2>6
  <2> QED
    BY <2>5, <2>6
<1> QED
  BY <1>6, <1>7

\* The key of the block under way is one the store is about.
LEMMA KeyNamed ==
  ASSUME JobInv(job), job.pc = "block"
  PROVE  CacheKey(Block(job.at).text, job.opts.cfg) \in CacheKeys
<1> DEFINE l == job.at[1]
           b == job.at[2]
           t == Block(job.at).text
           p == job.src
<1>1. /\ IsPlace(job, l, b) /\ Given(job, l, b, t) /\ Shaped(job)
      /\ Came(job, l, b) \in Plains /\ b \in Nat
  BY Current, PlaceParts DEF JobInv
<1>2. PICK u \in Texts : Came(job, l, b) = Plain(u)
  BY <1>1 DEF Plains
<1>3. p \in Payloads /\ job.opts \in Options
  BY <1>1 DEF Shaped
<1>4. ASSUME NEW c \in 1..(b - 1) PROVE c \in BlockNumbers
  <2>1. l \in 1..Len(p.lists) /\ b \in 1..Len(p.lists[l].blocks)
    BY <1>1 DEF IsPlace
  <2>2. p.lists[l] \in ToSet(p.lists) /\ c \in DOMAIN p.lists[l].blocks
    <3>1. /\ DOMAIN p.lists = 1..Len(p.lists)
          /\ DOMAIN p.lists[l].blocks = 1..Len(p.lists[l].blocks)
          /\ Len(p.lists[l].blocks) \in Nat
      BY <1>3, <2>1, PayloadParts
    <3>2. c \in 1..Len(p.lists[l].blocks)
      BY <1>1, <2>1, <3>1
    <3> QED
      BY <2>1, <3>1, <3>2 DEF ToSet
  <2> QED
    BY <1>3, <2>2 DEF BlockNumbers
<1>5. t \in {Plain(v) : v \in Texts}
             \cup {LSHMark(c, v) : c \in BlockNumbers, v \in Texts}
  <2>1. CASE t = Came(job, l, b)
    BY <1>2, <2>1
  <2>2. ASSUME NEW c \in 1..(b - 1), t = LSHMark(c, Came(job, l, b).of)
        PROVE  t \in {LSHMark(d, v) : d \in BlockNumbers, v \in Texts}
    <3>1. Came(job, l, b).of = u
      BY <1>2 DEF Plain
    <3> QED
      BY <1>4, <2>2, <3>1
  <2> HIDE DEF t, l, b
  <2>3. t = Came(job, l, b) \/ \E c \in 1..(b - 1) : t = LSHMark(c, Came(job, l, b).of)
    BY <1>1 DEF Given
  <2>4. CASE \E c \in 1..(b - 1) : t = LSHMark(c, Came(job, l, b).of)
    BY <2>2, <2>4
  <2> QED
    BY <2>1, <2>3, <2>4
<1> HIDE DEF t
<1> QED
  BY <1>3, <1>5 DEF CacheKeys, t

\* A block that is dealt with: its key is accessed or stored, or the block is
\* not one to visit, or a JL marker takes its place.
LEMMA BlockAccesses ==
  ASSUME CacheInv, CacheInv', JobInv(job), BlockStep
  PROVE  LET key == CacheKey(Block(job.at).text, job.opts.cfg)
         IN \/ /\ Entry(key) # {} /\ key \in ToSet(Order)
               /\ Order' = Append(RemoveFirst(Order, key), key) /\ Last(cache').key = key
            \/ /\ Entry(key) = {}
               /\ Order' = LastOf(Append(RemoveFirst(Order, key), key), CacheSize)
               /\ cache' = cache => CacheSize = 0
            \/ /\ cache' = cache
               /\ \/ ~ToVisit(job, job.at[1], job.at[2])
                  \/ job'.lists[job.at[1]].blocks[job.at[2]].text.tag = "jl"
<1> DEFINE l == job.at[1]
           b == job.at[2]
           block == Block(job.at)
           t == block.text
           cfg == job.opts.cfg
           key == CacheKey(t, cfg)
           visit == /\ ~Protected(job.src.mark, job.at)
                    /\ \/ block.type = "text"
                       \/ /\ block.type \in {"tool_result", "nested"}
                          /\ CompressToolResults /\ List.kind = "message"
           Did == \/ /\ Entry(key) # {} /\ key \in ToSet(Order)
                     /\ Order' = Append(RemoveFirst(Order, key), key)
                     /\ Last(cache').key = key
                  \/ /\ Entry(key) = {}
                     /\ Order' = LastOf(Append(RemoveFirst(Order, key), key), CacheSize)
                     /\ cache' = cache => CacheSize = 0
           Marked == job'.lists[l].blocks[b].text.tag = "jl"
<1>1. /\ job.pc = "block"
      /\ IF visit THEN DedupeText(t) ELSE job' = Moved(job) /\ UNCHANGED cache
  BY Zenon DEF BlockStep
<1>2. visit <=> ToVisit(job, l, b)
  BY <1>1, Current DEF ToVisit
<1> HIDE DEF visit
<1>3. t \in Givens /\ cfg \in Configs
  BY <1>1, Current
<1>4. ASSUME NEW s, CompressText(t, s) PROVE Did
  <2>1. CASE Entry(key) # {}
    <3>1. PICK i \in Entry(key) : cache' = Touch(i)
      BY <1>4, <2>1, Zenon DEF CompressText
    <3> QED
      BY <2>1, <3>1, HitAccesses
  <2>2. CASE Entry(key) = {}
    <3>1. cache' = Stored(key, Compressed(t, cfg))
      BY <1>4, <2>2, Zenon DEF CompressText
    <3> QED
      BY <1>3, <2>2, <3>1, MissStores
  <2> QED
    BY <2>1, <2>2
<1>5. ASSUME t.tag = "text", NEW i \in DOMAIN job.sketches,
             job' = Moved([job EXCEPT
                      !.lists = Rewritten(job.at, JLMark(job.sketches[i].at, t.of))])
      PROVE  Marked
  <2> DEFINE m == JLMark(job.sketches[i].at, t.of)
             j == [job EXCEPT !.lists = Rewritten(job.at, m)]
  <2>1. /\ IsPlace(job, l, b) /\ job.at = <<l, b>> /\ DOMAIN job = JobFields
        /\ Shaped(job) /\ t = Came(job, l, b) /\ Came(job, l, b) \in Plains
    BY <1>1, <1>5, Current, PlaceParts DEF JobInv
  <2>2. m \in Terms /\ m.tag = "jl"
    <3>1. job.sketches[i].at \in Nat \X Nat
      <4> DEFINE R == [text : Long, at : Nat \X Nat]
                 s == job.sketches
      <4>1. s \in Seq(R) /\ i \in DOMAIN s
        BY <1>5, <2>1 DEF Shaped, Sketches
      <4> HIDE DEF R, s
      <4>2. s[i] \in R
        BY <4>1, LenProperties, ElementOfSeq
      <4> QED
        BY <4>2 DEF R, s
    <3> QED
      BY <2>1, <3>1, SameTerms DEF JLMark
  <2>3. DOMAIN j = JobFields /\ j.lists = Rewritten(<<l, b>>, m)
    BY <2>1, Zenon DEF JobFields
  <2> HIDE DEF j, m
  <2>4. job'.lists = Rewritten(<<l, b>>, m)
    BY <1>5, <2>3, MovedParts DEF j, m
  <2>5. l \in 1..Len(job.lists) /\ b \in 1..Len(job.lists[l].blocks)
    BY <2>1, PlaceParts DEF Shaped, IsPlace
  <2> HIDE DEF l, b
  <2>6. Rewritten(<<l, b>>, m)[l].blocks[b].text = m
    <3>1. \A k \in 1..Len(job.lists) : \A c \in 1..Len(job.lists[k].blocks) :
            Rewritten(<<l, b>>, m)[k].blocks[c].text =
              IF k = l /\ c = b THEN m ELSE job.lists[k].blocks[c].text
      BY <2>1, <2>2, RewrittenParts
    <3> QED
      BY <2>5, <3>1
  <2> QED
    BY <2>2, <2>4, <2>6
<1> HIDE DEF t
<1>6. CASE ~visit
  BY <1>1, <1>2, <1>6
<1>7. CASE visit
  <2>1. DedupeText(t)
    BY <1>1, <1>7
  <2>2. CASE ~job.opts.jl \/ t.tag # "text" \/ t.of \notin Long
    <3>1. CompressText(t, job.sketches)
      BY <2>1, <2>2, Zenon DEF DedupeText
    <3>2. Did
      BY <1>4, <3>1
    <3> QED
      BY <3>2 DEF t
  <2>3. CASE ~(~job.opts.jl \/ t.tag # "text" \/ t.of \notin Long)
    <3>1. \/ CompressText(t, Sketched(t.of))
          \/ \E i \in Best(t.of, job.sketches) :
               /\ job' = Moved([job EXCEPT
                           !.lists = Rewritten(job.at, JLMark(job.sketches[i].at, t.of))])
               /\ UNCHANGED cache
      BY <2>1, <2>3, Zenon DEF DedupeText, Searched
    <3>2. Did \/ (Marked /\ cache' = cache)
      BY <1>4, <1>5, <2>3, <3>1 DEF Best
    <3> QED
      BY <3>2 DEF t
  <2> QED
    BY <2>2, <2>3
<1> QED
  BY <1>6, <1>7

LEMMA SameRemoval ==
  ASSUME NEW k
  PROVE  /\ (k \in ToSet(Order) /\ Order' = Append(RemoveFirst(Order, k), k))
              => Lru!Access(k)
         /\ Order' = LastOf(Append(RemoveFirst(Order, k), k), CacheSize) => Lru!Store(k)
<1> DEFINE o == [i \in DOMAIN cache |-> cache[i].key]
<1>1. Order = o /\ Order' = o'
  BY DEF Order, KeysOf
<1>2. Lru!RemoveFirst(o, k) = RemoveFirst(o, k) /\ Lru!ToSet(o) = ToSet(o)
  BY DEF RemoveFirst, Lru!RemoveFirst, SelectInSeq, Lru!SelectInSeq,
         RemoveAt, Lru!RemoveAt, Min, Lru!Min, ToSet, Lru!ToSet
<1> QED
  BY <1>1, <1>2 DEF Lru!Access, Lru!Store, Lru!Suffix, LastOf

\* For any payloads, toggles and bound: the result cache is an LRU store of the
\* keys, each text that no JL marker replaces an access to its result or what
\* stores it (compression.py:189-193).
THEOREM ResultsAreLru == Spec => ImplementsLru
<1>1. Init => Lru!LruInit
  BY DEF Init, Lru!LruInit
<1> DEFINE key == CacheKey(Block(job.at).text, job.opts.cfg)
           Looked == BlockStep /\ Visited(job.at) /\ cache' # cache =>
                       IF Entry(key) # {} THEN Lru!Access(key) ELSE Lru!Store(key)
           Warm == BlockStep /\ Visited(job.at) /\ cache' = cache =>
                     \/ CacheSize = 0
                     \/ job'.lists[job.at[1]].blocks[job.at[2]].text.tag = "jl"
                     \/ Last(cache).key = key
           o == [i \in DOMAIN cache |-> cache[i].key]
<1>2. ASSUME IInv, IInv', BlockStep
      PROVE  /\ Lru!LruNext \/ o' = o
             /\ Looked /\ Warm
  <2>1. CacheInv /\ CacheInv' /\ JobInv(job) /\ job.pc = "block"
    BY <1>2 DEF IInv, BlockStep
  <2>2. key \in CacheKeys
    BY <2>1, KeyNamed
  <2>3. Visited(job.at) => ToVisit(job, job.at[1], job.at[2])
    BY <2>1, Current DEF Visited, ToVisit, List
  <2> DEFINE Left == /\ cache' = cache
                     /\ \/ ~ToVisit(job, job.at[1], job.at[2])
                        \/ job'.lists[job.at[1]].blocks[job.at[2]].text.tag = "jl"
  <2>4. \/ Entry(key) # {} /\ Lru!Access(key) /\ Last(cache').key = key
        \/ Entry(key) = {} /\ Lru!Store(key) /\ (cache' = cache => CacheSize = 0)
        \/ Left
    <3>1. \/ /\ Entry(key) # {} /\ key \in ToSet(Order)
             /\ Order' = Append(RemoveFirst(Order, key), key) /\ Last(cache').key = key
          \/ /\ Entry(key) = {}
             /\ Order' = LastOf(Append(RemoveFirst(Order, key), key), CacheSize)
             /\ cache' = cache => CacheSize = 0
          \/ Left
      BY <1>2, <2>1, BlockAccesses
    <3> HIDE DEF key, Left
    <3>2. PICK k \in CacheKeys : k = key
      BY <2>2
    <3>3. /\ (k \in ToSet(Order) /\ Order' = Append(RemoveFirst(Order, k), k))
               => Lru!Access(k)
          /\ Order' = LastOf(Append(RemoveFirst(Order, k), k), CacheSize)
               => Lru!Store(k)
      BY SameRemoval
    <3>4. CASE /\ Entry(key) # {} /\ key \in ToSet(Order)
               /\ Order' = Append(RemoveFirst(Order, key), key) /\ Last(cache').key = key
      <4>1. Lru!Access(k)
        BY <3>2, <3>3, <3>4
      <4>2. Lru!Access(key)
        BY <3>2, <4>1 DEF Lru!Access
      <4> QED
        BY <3>4, <4>2
    <3>5. CASE /\ Entry(key) = {}
               /\ Order' = LastOf(Append(RemoveFirst(Order, key), key), CacheSize)
               /\ cache' = cache => CacheSize = 0
      <4>1. Lru!Store(k)
        BY <3>2, <3>3, <3>5
      <4>2. Lru!Store(key)
        BY <3>2, <4>1 DEF Lru!Store
      <4> QED
        BY <3>5, <4>2
    <3> QED
      BY <3>1, <3>4, <3>5
  <2>5. cache' = cache => o' = o
    OBVIOUS
  <2> HIDE DEF key, o
  <2>6. Lru!LruNext \/ o' = o
    BY <2>2, <2>4, <2>5, Zenon DEF Lru!LruNext, Lru!Access, Lru!Store
  <2> QED
    BY <2>3, <2>4, <2>6
<1>3. IInv /\ IInv' /\ [Next]_vars => /\ [Lru!LruNext]_o
                                      /\ [Looked]_vars /\ [Warm]_vars
  <2> SUFFICES ASSUME IInv, IInv', [Next]_vars
               PROVE  (Lru!LruNext \/ o' = o) /\ Looked /\ Warm
    OBVIOUS
  <2>1. CASE BlockStep
    BY <1>2, <2>1
  <2>2. CASE ~BlockStep
    <3>1. UNCHANGED cache
      BY <2>2 DEF Next, Begin, LinguaStep, LinguaEnds, ListStep, Done, vars
    <3>2. o' = o
      BY <3>1
    <3> QED
      BY <2>2, <3>2
  <2> QED
    BY <2>1, <2>2
<1> QED
  BY <1>1, <1>3, IInvStays, PTL DEF Spec, ImplementsLru, Lru!LruSpec
=============================================================================
