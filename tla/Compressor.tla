----------------------------- MODULE Compressor -----------------------------
(***************************************************************************)
(* How a request body is compressed: the lingua pass over its volatile     *)
(* blocks with the lazily loaded model (volatile.py, lingua.py), then      *)
(* compress_request_payload() (compression.py): the LSH pre-pass of each   *)
(* list, the JL sketches of the request, the result cache that outlives    *)
(* it, and the chain of engines.  Everything runs on the event loop        *)
(* without giving way; a step is one text.  Texts are symbolic: what the   *)
(* engines make of one is a term that names it and the levels that changed *)
(* it.  Which blocks are protected is CacheWall's subject; here it is a    *)
(* prefix.                                                                 *)
(***************************************************************************)
EXTENDS Integers, SequencesExt

CONSTANTS
  Texts,
  Payloads,      \* [lists, mark]: lists of blocks and the last marker's place
  Options,       \* runtime toggles: [lingua, lsh, jl : BOOLEAN, cfg]
  CacheSize,     \* compression_cache_size
  CompressToolResults, CompressSystem,
  Long,          \* texts of jl_min_chars or more
  Huge,          \* texts that middle_out_text() cuts
  Skipped,       \* texts lingua finds too small or too large
  Squeezed,      \* Texts -> Texts: what the model makes of one
  Touches,       \* pairs of an engine and a text, or Marker, that it changes
  Marker,
  JLScore, JLThreshold,   \* of two texts, in percent
  LSHScore, LSHThreshold

Engines == {"json_aware", "caveman", "rtk"}

Types == {"text", "tool_result", "nested", "other"}

\* "nested" is a tool_result whose content is a list with one text; a bare
\* list is a string.  A marker sits on a block of a list that is not bare.
ASSUME CompressorAssumption ==
  /\ CacheSize \in Nat
  /\ {CompressToolResults, CompressSystem} \subseteq BOOLEAN
  /\ Squeezed \in [Texts -> Texts]
  /\ Touches \subseteq Engines \X (Texts \cup {Marker})
  /\ JLScore \in [Texts \X Texts -> 0..100] /\ LSHScore \in [Texts \X Texts -> 0..100]
  /\ {JLThreshold, LSHThreshold} \subseteq 1..100
  /\ \A p \in Payloads :
       /\ p.lists \in Seq([kind : {"system", "message"}, bare : BOOLEAN,
                           blocks : Seq([type : Types, text : Texts])])
       /\ \A l \in DOMAIN p.lists :
            /\ p.lists[l].blocks # <<>>
            /\ p.lists[l].bare => Len(p.lists[l].blocks) = 1

VARIABLES
  job,    \* the request under way, with the local variables of the driver
  cache,  \* PayloadCompressor.result_cache: [key, value], coldest first
  model,  \* LinguaCompressor: "unloaded", "loaded" or "failed"
  loads   \* history: how often loading the model was tried

vars == <<job, cache, model, loads>>

Plain(t) == [tag |-> "text", of |-> t]

\* "[duplicate of earlier block at b, ...]" and "Similar to earlier block at p".
LSHMark(b, t) == [tag |-> "lsh", of |-> t, at |-> b]
JLMark(p, t) == [tag |-> "jl", of |-> t, at |-> p]

Fresh(blocks) == [b \in DOMAIN blocks |-> [blocks[b] EXCEPT !.text = Plain(@)]]

Idle == [pc |-> "idle"]

Init == job = Idle /\ cache = <<>> /\ model = "unloaded" /\ loads = 0

\* Positions in the order in which the passes visit them.
AtOrBefore(p, q) == p[1] < q[1] \/ (p[1] = q[1] /\ p[2] <= q[2])

\* Mutant: a message list before the marker's is not protected.
ProtectedInList(mark, p) == p[1] = mark[1] /\ p[2] <= mark[2]

Protected(mark, p) == AtOrBefore(p, mark)

Block(p) == job.lists[p[1]].blocks[p[2]]
List == job.lists[job.at[1]]

\* The next position, or the next list.
After(p) == IF p[2] < Len(job.lists[p[1]].blocks) THEN <<p[1], p[2] + 1>>
            ELSE <<p[1] + 1, 1>>

\* A block has been dealt with by the engines.
Moved(j) ==
  [j EXCEPT !.at = After(@),
            !.pc = IF j.at[2] < Len(List.blocks) THEN "block" ELSE "list"]

Rewritten(p, t) == [job.lists EXCEPT ![p[1]].blocks[p[2]].text = t]

-----------------------------------------------------------------------------
\* A payload comes, with a snapshot of the toggles.
Begin(p, o) ==
  /\ job.pc \in {"idle", "done"}
  /\ job' = [pc |-> IF o.lingua THEN "lingua" ELSE "list",
             src |-> p, opts |-> o, at |-> <<1, 1>>, sketches |-> <<>>,
             lists |-> [l \in DOMAIN p.lists |->
                          [p.lists[l] EXCEPT !.blocks = Fresh(@)]],
             squeezed |-> [l \in DOMAIN p.lists |-> Fresh(p.lists[l].blocks)]]
  /\ UNCHANGED <<cache, model, loads>>

\* _ensure_model(): tried once; a failure stays.
EnsureModel ==
  \/ model # "unloaded" /\ UNCHANGED <<model, loads>>
  \/ model = "unloaded" /\ model' \in {"loaded", "failed"} /\ loads' = loads + 1

\* LinguaCompressor.compress(): t' is t when the text is skipped, when there is
\* no model, when inference fails and when it wins nothing.
Squeeze(p) ==
  LET t == Block(p).text.of
  IN IF t \in Skipped
       THEN /\ UNCHANGED <<model, loads>>
            /\ job' = [job EXCEPT !.at = After(p)]
       ELSE /\ EnsureModel
            /\ \E u \in {t, Squeezed[t]} :
                 /\ model' = "failed" => u = t
                 /\ job' = [job EXCEPT !.at = After(p), !.lists = Rewritten(p, Plain(u))]

\* compress_volatile_tail(), one block; system blocks are not visited.
LinguaStep ==
  /\ job.pc = "lingua" /\ job.at[1] <= Len(job.lists)
  /\ IF \/ List.kind = "system"
        \/ Protected(job.src.mark, job.at)
        \/ Block(job.at).type = "other"
       THEN job' = [job EXCEPT !.at = After(job.at)] /\ UNCHANGED <<model, loads>>
       ELSE Squeeze(job.at)
  /\ UNCHANGED cache

\* The pass is over; what it left is what the engines are given.
LinguaEnds ==
  /\ job.pc = "lingua" /\ job.at[1] > Len(job.lists)
  /\ job' = [job EXCEPT !.pc = "list", !.at = <<1, 1>>,
                        !.squeezed = [l \in DOMAIN job.lists |-> job.lists[l].blocks]]
  /\ UNCHANGED <<cache, model, loads>>

-----------------------------------------------------------------------------
LSHText(block) ==
  block.type \in {"text", "tool_result"}

\* Blocks dedupe_blocks() may replace.
Replaceable(l, b) ==
  /\ LSHText(job.lists[l].blocks[b])
  /\ ~Protected(job.src.mark, <<l, b>>)

\* The earlier blocks in the index that are near enough to block b.
\* indexed is the set of the blocks before b that were added.
LSHMatches(blocks, b, indexed) ==
  {c \in indexed : LSHScore[<<blocks[b].text.of, blocks[c].text.of>>] >= LSHThreshold}

\* dedupe_blocks() of list l: for each block 0 if it is kept, or the block its
\* marker names: one with the best score, whichever the set yields first.
LSHTargets(l) ==
  LET blocks == job.lists[l].blocks
      Score(b, c) == LSHScore[<<blocks[b].text.of, blocks[c].text.of>>]
  IN {f \in [DOMAIN blocks -> 0..Len(blocks)] :
        \A b \in DOMAIN blocks :
          LET indexed == {c \in 1..(b - 1) : LSHText(blocks[c]) /\ f[c] = 0}
              near    == IF Replaceable(l, b) THEN LSHMatches(blocks, b, indexed) ELSE {}
          IN IF near = {} THEN f[b] = 0
             ELSE f[b] \in near /\ \A c \in near : Score(b, c) <= Score(b, f[b])}

Deduped(blocks, f) ==
  [b \in DOMAIN blocks |->
     IF f[b] = 0 THEN blocks[b]
     ELSE [blocks[b] EXCEPT !.text = LSHMark(f[b], @.of)]]

\* The start of _compress_content_value().  A system list is passed over
\* without compress_system, a bare one before the marker as a whole.
ListStep ==
  /\ job.pc = "list" /\ job.at[1] <= Len(job.lists)
  /\ LET l == job.at[1]
         skip == \/ List.kind = "system" /\ ~CompressSystem
                 \/ List.bare /\ Protected(job.src.mark, <<l, 1>>)
     IN IF skip
          THEN job' = [job EXCEPT !.at = <<l + 1, 1>>]
          ELSE IF ~job.opts.lsh \/ List.bare
                 THEN job' = [job EXCEPT !.pc = "block"]
                 ELSE \E f \in LSHTargets(l) :
                        job' = [job EXCEPT !.pc = "block",
                                           !.lists[l].blocks = Deduped(@, f)]
  /\ UNCHANGED <<cache, model, loads>>

Done ==
  /\ job.pc = "list" /\ job.at[1] > Len(job.lists)
  /\ job' = [job EXCEPT !.pc = "done"]
  /\ UNCHANGED <<cache, model, loads>>

-----------------------------------------------------------------------------
\* Mutant: the level of json_aware is not part of the key.
KeyNoJson(t, cfg) == [of |-> t, cfg |-> [cfg EXCEPT !["json_aware"] = "any"]]

\* _build_cache_key()
CacheKey(t, cfg) == [of |-> t, cfg |-> cfg]

\* What the chain middle-out, json_aware, caveman, rtk makes of a text: itself
\* when none of them changes it.
Compressed(t, cfg) ==
  LET name == IF t.tag = "text" THEN t.of ELSE Marker
      cut  == t.tag = "text" /\ t.of \in Huge
      by   == [e \in Engines |-> IF <<e, name>> \in Touches THEN cfg[e] ELSE "off"]
  IN IF ~cut /\ \A e \in Engines : by[e] = "off" THEN t
     ELSE [tag |-> "out", of |-> t, cut |-> cut, by |-> by]

Entry(key) == {i \in DOMAIN cache : cache[i].key = key}

\* Mutant: a hit does not make the entry warm.
TouchNot(i) == cache

\* The cache after a hit on entry i.
Touch(i) == Append(RemoveAt(cache, i), cache[i])

\* Mutant: no room is made.
StoredUnbounded(key, value) == Append(cache, [key |-> key, value |-> value])

\* The cache after put() of a key it does not hold.
Stored(key, value) ==
  LET all == Append(cache, [key |-> key, value |-> value])
  IN IF Len(all) > CacheSize THEN Tail(all) ELSE all

\* The cached or computed result for text t at p; a disabled cache holds none.
CompressText(t, sketches) ==
  LET key   == CacheKey(t, job.opts.cfg)
      value == Compressed(t, job.opts.cfg)
  IN IF Entry(key) # {}
       THEN LET i == CHOOSE i \in Entry(key) : TRUE
            IN /\ cache' = Touch(i)
               /\ job' = Moved([job EXCEPT !.lists = Rewritten(job.at, cache[i].value),
                                           !.sketches = sketches])
       ELSE /\ cache' = Stored(key, value)
            /\ job' = Moved([job EXCEPT !.lists = Rewritten(job.at, value),
                                        !.sketches = sketches])

\* find_best(): the first of the sketches with the highest score.
Best(t, sketches) ==
  {i \in DOMAIN sketches :
     \A j \in DOMAIN sketches :
       \/ JLScore[<<t, sketches[i].text>>] > JLScore[<<t, sketches[j].text>>]
       \/ JLScore[<<t, sketches[i].text>>] = JLScore[<<t, sketches[j].text>>] /\ i <= j}

Sketched(t) == Append(job.sketches, [text |-> t, at |-> job.at])

\* Mutant: the text is added before it is looked up.
AddFirst(t) == Sketched(t)

\* The index find_best() searches.
Searched(t) == job.sketches

\* _compress_text_with_dedupe()
DedupeText(t) ==
  IF ~job.opts.jl \/ t.tag # "text" \/ t.of \notin Long
    THEN CompressText(t, job.sketches)
    ELSE LET index == Searched(t.of)
             near  == {i \in Best(t.of, index) : JLScore[<<t.of, index[i].text>>] >= JLThreshold}
         IN IF near = {}
              THEN CompressText(t, Sketched(t.of))
              ELSE \E i \in near :
                     /\ job' = Moved([job EXCEPT
                          !.lists = Rewritten(job.at, JLMark(index[i].at, t.of))])
                     /\ UNCHANGED cache

\* One block of _compress_content_value().
BlockStep ==
  /\ job.pc = "block"
  /\ LET block == Block(job.at)
         visit == /\ ~Protected(job.src.mark, job.at)
                  /\ \/ block.type = "text"
                     \/ /\ block.type \in {"tool_result", "nested"}
                        /\ CompressToolResults /\ List.kind = "message"
     IN IF visit THEN DedupeText(block.text)
        ELSE job' = Moved(job) /\ UNCHANGED cache
  /\ UNCHANGED <<model, loads>>

Next ==
  \/ \E p \in Payloads, o \in Options : Begin(p, o)
  \/ LinguaStep \/ LinguaEnds
  \/ ListStep \/ BlockStep
  \/ Done

Spec == Init /\ [][Next]_vars

-----------------------------------------------------------------------------
Places == UNION {{<<l, b>> : b \in DOMAIN job.lists[l].blocks} : l \in DOMAIN job.lists}

\* A text is what the client sent, a marker, or what the engines made of one.
Source(t) == IF t.tag = "out" THEN t.of ELSE t

TypeOK ==
  /\ job.pc \in {"idle", "lingua", "list", "block", "done"}
  /\ model \in {"unloaded", "loaded", "failed"} /\ loads \in Nat
  /\ Len(cache) <= CacheSize
  /\ \A i, j \in DOMAIN cache : cache[i].key = cache[j].key => i = j
  /\ job.pc # "idle" =>
       /\ job.src \in Payloads /\ job.opts \in Options
       /\ \A p \in Places : Source(Block(p).text).tag \in {"text", "lsh", "jl"}
       /\ \A i \in DOMAIN job.sketches : job.sketches[i].text \in Long

\* No step of either pass, the LSH pre-pass included, touches a block at or
\* before the last marker, though it may serve as the original of later ones.
ProtectedUntouched ==
  job.pc # "idle" =>
    \A p \in Places : AtOrBefore(p, job.src.mark) =>
      Block(p).text = Plain(job.src.lists[p[1]].blocks[p[2]].text)

Visited(p) ==
  LET list == job.lists[p[1]]
  IN /\ ~Protected(job.src.mark, p)
     /\ list.kind = "system" => CompressSystem
     /\ \/ Block(p).type = "text"
        \/ Block(p).type \in {"tool_result", "nested"} /\ list.kind = "message"
             /\ CompressToolResults

\* The result cache can not be seen in any answer: every text comes out as the
\* engines would make it under the levels of its own request
\* (compression.py:189-193, "deterministic post-JL compression output").
CacheTransparent ==
  job.pc = "done" =>
    \A p \in Places : Visited(p) =>
      LET t == Block(p).text
          given == IF Source(t).tag = "lsh" THEN Source(t)
                   ELSE job.squeezed[p[1]][p[2]].text
      IN t.tag = "jl" \/ t = Compressed(given, job.opts.cfg)

Kept(t) == Source(t).tag = "text"

\* Every duplicate marker leads the reader to a text that is still there: a JL
\* marker names an earlier kept block, an LSH marker an earlier block of its
\* list that is kept or, by a JL marker of its own, leads on to one; and each
\* is near enough to what it stands for.
MarkersResolve ==
  job.pc = "done" =>
    \A p \in Places :
      LET m == Source(Block(p).text)
          q == IF m.tag = "jl" THEN m.at ELSE IF m.tag = "lsh" THEN <<p[1], m.at>> ELSE p
          original == job.squeezed[q[1]][q[2]].text.of
      IN m.tag # "text" =>
           /\ q # p /\ AtOrBefore(q, p)
           /\ m.tag = "jl" => /\ Kept(Block(q).text)
                              /\ JLScore[<<m.of, original>>] >= JLThreshold
           /\ m.tag = "lsh" => /\ Kept(Block(q).text) \/ Block(q).text.tag = "jl"
                               /\ LSHScore[<<m.of, original>>] >= LSHThreshold

BlockNumbers ==
  UNION {DOMAIN list.blocks : list \in UNION {ToSet(p.lists) : p \in Payloads}}

CacheKeys == {CacheKey(t, o.cfg) : o \in Options,
               t \in {Plain(u) : u \in Texts}
                      \cup {LSHMark(b, u) : b \in BlockNumbers, u \in Texts}}

Lru == INSTANCE LruStore WITH
         Keys <- CacheKeys, Capacity <- CacheSize,
         order <- [i \in DOMAIN cache |-> cache[i].key]

\* The result cache is an LRU store whatever the requests and their toggles:
\* each text that is not replaced by a marker is an access to its result or
\* stores it, and the results evicted are those not asked for the longest.
ImplementsLru ==
  /\ Lru!LruSpec
  /\ [][BlockStep /\ Visited(job.at) /\ cache' # cache =>
          LET key == CacheKey(Block(job.at).text, job.opts.cfg)
          IN IF Entry(key) # {} THEN Lru!Access(key) ELSE Lru!Store(key)]_vars
  /\ [][BlockStep /\ Visited(job.at) /\ cache' = cache =>
          \/ CacheSize = 0
          \/ job'.lists[job.at[1]].blocks[job.at[2]].text.tag = "jl"
          \/ Last(cache).key = CacheKey(Block(job.at).text, job.opts.cfg)]_vars
=============================================================================
