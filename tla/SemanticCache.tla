--------------------------- MODULE SemanticCache ---------------------------
(***************************************************************************)
(* The L2 cache: L2Cache (cache/l2.py) over InMemoryVectorStore            *)
(* (cache/vector_stores.py).  Embeddings are known by the cosine of each   *)
(* two texts, in percent; a text is also the id of its point, which        *)
(* server.py:1167 derives from it as its L1 key.  Calls come from one      *)
(* event loop and do not overlap; the embedding service may fail in each.  *)
(***************************************************************************)
EXTENDS Integers, SequencesExt

CONSTANTS
  Texts,
  Responses,
  MaxEntries,   \* of the vector store
  Cosine,       \* Cosine[s][t], in percent
  Blank,        \* texts the embedder maps to the zero vector
  Threshold,    \* similarity_threshold, in percent
  None,
  MaxLookups    \* bound on the lookups between two purges

ASSUME SemanticCacheAssumption ==
  /\ MaxEntries \in Nat \ {0} /\ MaxLookups \in Nat
  /\ Cosine \in [Texts -> [Texts -> -100..100]]
  /\ \A s, t \in Texts : Cosine[s][t] = Cosine[t][s]
  /\ \A s \in Texts \ Blank : Cosine[s][s] = 100
  /\ \A s \in Texts, t \in Blank : Cosine[s][t] = 0
  /\ Threshold \in 1..100
  /\ None \notin [text : Texts, response : Responses]

VARIABLES
  points,        \* the OrderedDict: [text, response], coldest first
  enabled,       \* l2_cache.enabled
  lookups, hits,
  reply,         \* what the last call of get_similar() returned
  lastPut        \* history: text -> response last put, since the last purge

vars == <<points, enabled, lookups, hits, reply, lastPut>>

Point == [text : Texts, response : Responses]

NoReply == [asked |-> None, hit |-> None]

Init ==
  /\ points = <<>> /\ enabled \in BOOLEAN
  /\ lookups = 0 /\ hits = 0
  /\ reply = NoReply
  /\ lastPut = [t \in {} |-> None]

StoredTexts == {points[i].text : i \in DOMAIN points}

\* The points but the one with text t.
Without(t) ==
  IF t \in StoredTexts
    THEN RemoveAt(points, CHOOSE i \in DOMAIN points : points[i].text = t)
    ELSE points

\* Mutant: the lowest cosine first.
TopFarthest(t) ==
  CHOOSE i \in DOMAIN points : \A j \in DOMAIN points :
    Cosine[t][points[i].text] <= Cosine[t][points[j].text]

\* search(top_k=1): the highest cosine, and the coldest of equals, for the
\* sort is stable.
Top(t) ==
  CHOOSE i \in DOMAIN points : \A j \in DOMAIN points :
    \/ Cosine[t][points[i].text] > Cosine[t][points[j].text]
    \/ Cosine[t][points[i].text] = Cosine[t][points[j].text] /\ i <= j

\* Mutant: the top hit stays where it was.
PromoteNot(p) == UNCHANGED points

\* The top hit becomes the warmest point, whether or not it is near enough.
Promote(p) == points' = Append(Without(p.text), p)

NearEnough(t, p) == Cosine[t][p.text] >= Threshold

-----------------------------------------------------------------------------
\* get_similar() of a cache that is off or was never wired.
LookupOff ==
  /\ ~enabled
  /\ reply' = NoReply
  /\ UNCHANGED <<points, enabled, lookups, hits, lastPut>>

\* get_similar() when the embedder raises: counted, and a miss.
LookupFails ==
  /\ enabled /\ lookups < MaxLookups
  /\ lookups' = lookups + 1
  /\ reply' = NoReply
  /\ UNCHANGED <<points, enabled, hits, lastPut>>

\* get_similar() with its search.
Lookup(t) ==
  /\ enabled /\ lookups < MaxLookups
  /\ lookups' = lookups + 1
  /\ IF points = <<>>
       THEN /\ reply' = [asked |-> t, hit |-> None]
            /\ UNCHANGED <<points, hits>>
       ELSE LET p == points[Top(t)]
            IN /\ Promote(p)
               /\ IF NearEnough(t, p)
                    THEN hits' = hits + 1 /\ reply' = [asked |-> t, hit |-> p]
                    ELSE UNCHANGED hits /\ reply' = [asked |-> t, hit |-> None]
  /\ UNCHANGED <<enabled, lastPut>>

\* Mutant: an id that is there keeps its payload.
UpsertKeep(t, r) ==
  points' = IF t \in StoredTexts THEN points
            ELSE LET all == Append(points, [text |-> t, response |-> r])
                 IN IF Len(all) > MaxEntries THEN Tail(all) ELSE all

\* upsert(): replace or add, warmest, and drop the coldest over the bound.
Upsert(t, r) ==
  points' = LET all == Append(Without(t), [text |-> t, response |-> r])
            IN IF Len(all) > MaxEntries THEN Tail(all) ELSE all

\* put_similar(); off, or when the embedder raises, it changes nothing.
Put(t, r) ==
  /\ enabled
  /\ Upsert(t, r)
  /\ lastPut' = [u \in DOMAIN lastPut \cup {t} |-> IF u = t THEN r ELSE lastPut[u]]
  /\ UNCHANGED <<enabled, lookups, hits, reply>>

Emptied == points' = <<>> /\ lookups' = 0 /\ hits' = 0

\* clear(), from POST /cache/purge.
Clear ==
  /\ Emptied
  /\ lastPut' = [t \in {} |-> None]
  /\ UNCHANGED <<enabled, reply>>

\* The runtime toggle (server.py:492).
Toggle == enabled' = ~enabled /\ UNCHANGED <<points, lookups, hits, reply, lastPut>>

Next ==
  \/ \E t \in Texts :
       \/ Lookup(t)
       \/ \E r \in Responses : Put(t, r)
  \/ LookupOff
  \/ LookupFails
  \/ Clear
  \/ Toggle

Spec == Init /\ [][Next]_vars

-----------------------------------------------------------------------------
TypeOK ==
  /\ points \in Seq(Point) /\ Len(points) <= MaxEntries
  /\ IsInjective([i \in DOMAIN points |-> points[i].text])
  /\ enabled \in BOOLEAN
  /\ hits \in 0..lookups /\ lookups \in 0..MaxLookups
  /\ reply \in [asked : Texts \cup {None}, hit : Point \cup {None}]
  /\ lastPut \in [DOMAIN lastPut -> Responses] /\ DOMAIN lastPut \subseteq Texts

\* A point holds the answer last stored for its text, never an older one of
\* the same id and never one from before a purge.
NewestOnly ==
  \A i \in DOMAIN points :
    points[i].text \in DOMAIN lastPut /\ points[i].response = lastPut[points[i].text]

\* Whatever is served is near enough to the question, is still stored, and no
\* stored text is nearer (l2.py:107-160); and only when none is near enough is
\* the question missed.  One that is itself stored is therefore never missed,
\* however many near misses have moved the points about.
ServesNearest ==
  [][\A t \in Texts : Lookup(t) =>
       LET p == reply'.hit
       IN IF p = None
            THEN \A s \in StoredTexts : Cosine[t][s] < Threshold
            ELSE /\ Cosine[t][p.text] >= Threshold
                 /\ p \in ToSet(points) \cap ToSet(points')
                 /\ \A s \in StoredTexts : Cosine[t][s] <= Cosine[t][p.text]]_vars

Lru == INSTANCE LruStore WITH
         Keys <- Texts, Capacity <- MaxEntries,
         order <- [i \in DOMAIN points |-> points[i].text]

\* The store is an LRU store: a put is a store, and a search an access of its
\* top point, even when that is too far away to be served
\* (vector_stores.py:102-107).
ImplementsLru ==
  /\ Lru!LruSpec
  /\ [][\A t \in Texts :
          /\ (\E r \in Responses : Put(t, r)) => Lru!Store(t)
          /\ Lookup(t) /\ points # <<>> => Lru!Access(points[Top(t)].text)]_vars
=============================================================================
