------------------------------ MODULE CacheWall ------------------------------
(***************************************************************************)
(* What the proxy may rewrite of a request (cache_wall.py, volatile.py and *)
(* the legacy oracle of compression.py).  Upstream caches prompts by the   *)
(* bytes up to the last cache_control marker, in the order system, tools,  *)
(* messages.  The lingua pass consults the wall, the compression engines   *)
(* the legacy oracle, which is computed anew from the payload the first    *)
(* pass leaves.  Block texts are abstracted to whether they were changed.  *)
(***************************************************************************)
EXTENDS Integers, FiniteSets

CONSTANTS
  MaxBlocks,         \* bound: blocks in one list
  MaxMessages,       \* bound: messages
  None,
  AutoInsert,        \* auto_insert_wall
  Lingua,            \* whether the lingua pass, and with it the wall, is on
  PreserveCache,     \* preserve_anthropic_cache
  CompressSystem     \* compress_system

VARIABLES
  size,      \* blocks of the system prompt, the tools and each message
  plain,     \* lists that are a bare string, not a list of blocks
  marks,     \* positions that carry a cache_control marker
  theirs,    \* history: the markers the client set
  wall,      \* CacheWall.marker
  changed,   \* positions whose text is no longer what the client sent
  stage      \* "wall", "lingua", "engines" or "done"

vars == <<size, plain, marks, theirs, wall, changed, stage>>

\* The lists of a payload: a kind and, for a message, its index.
System == <<0, 0>>
Tools == <<1, 0>>
Message(m) == <<2, m>>

Lists == {System, Tools} \cup {Message(m) : m \in 1..MaxMessages}

\* A position is a list and an index into it; <<l, b>> is block b of list l.
Positions == Lists \X (1..MaxBlocks)

ASSUME WallAssumption ==
  /\ MaxBlocks \in Nat /\ MaxMessages \in Nat
  /\ None \notin Positions
  /\ {AutoInsert, Lingua, PreserveCache, CompressSystem} \subseteq BOOLEAN

Kind(p) == p[1][1]
Msg(p) == p[1][2]
Block(p) == p[2]

\* Canonical processing order (WallMarker._order_key).
AtOrBefore(p, q) ==
  \/ Kind(p) < Kind(q)
  \/ Kind(p) = Kind(q) /\ Msg(p) < Msg(q)
  \/ Kind(p) = Kind(q) /\ Msg(p) = Msg(q) /\ Block(p) <= Block(q)

Blocks == {p \in Positions : p[2] <= size[p[1]]}

\* m is the last of some markers, None if there are none.
IsLast(m, markers) ==
  IF markers = {} THEN m = None
  ELSE m \in markers /\ \A q \in markers : AtOrBefore(q, m)

-----------------------------------------------------------------------------
\* CacheWall.is_protected(), with the wall at m.
IsProtected(m, p) ==
  /\ m # None
  /\ \/ Kind(p) < Kind(m)
     \/ /\ Kind(p) = Kind(m)
        /\ \/ Kind(p) < 2 /\ Block(p) <= Block(m)
           \/ Kind(p) = 2 /\ Msg(p) < Msg(m)
           \/ Kind(p) = 2 /\ Msg(p) = Msg(m) /\ Block(p) <= Block(m)

\* The markers _payload_cache_protection() looks at: those on tools are not.
LegacyMarks == {q \in marks : Kind(q) # 1}

\* Mutant: the block that carries the marker is left out.
LegacyStrictlyBefore(m, p) ==
  /\ m # None
  /\ \/ Kind(p) = 0 /\ (Kind(m) = 0 => Block(p) < Block(m))
     \/ /\ Kind(p) # 0 /\ Kind(m) # 0
        /\ \/ Msg(p) < Msg(m)
           \/ Msg(p) = Msg(m) /\ Block(p) < Block(m)

\* _is_block_protected(), with the descriptor of marker m.
LegacyProtected(m, p) ==
  /\ m # None
  /\ \/ Kind(p) = 0 /\ (Kind(m) = 0 => Block(p) <= Block(m))
     \/ /\ Kind(p) # 0 /\ Kind(m) # 0
        /\ \/ Msg(p) < Msg(m)
           \/ Msg(p) = Msg(m) /\ Block(p) <= Block(m)

\* A payload as it arrives: a bare string is one block that has no marker.
Init ==
  /\ size \in [Lists -> 0..MaxBlocks]
  /\ plain \in SUBSET {l \in Lists \ {Tools} : size[l] = 1}
  /\ marks \in SUBSET {p \in Blocks : p[1] \notin plain}
  /\ theirs = marks
  /\ wall = None
  /\ changed = {}
  /\ stage = IF Lingua THEN "wall" ELSE "engines"

\* compute_wall() finds a marker, or may not or cannot insert one.
FindWall ==
  /\ stage = "wall"
  /\ marks # {} \/ ~AutoInsert \/ (size[Tools] = 0 /\ size[System] = 0)
  /\ wall' \in marks \cup {None}
  /\ IsLast(wall', marks)
  /\ stage' = "lingua"
  /\ UNCHANGED <<size, plain, marks, theirs, changed>>

\* Mutant: the breakpoint goes after the system prompt even if there are tools.
AfterSystem ==
  IF size[System] > 0 THEN <<System, size[System]>> ELSE <<Tools, size[Tools]>>

\* Where _auto_insert_breakpoint() puts its marker.
Breakpoint ==
  IF size[Tools] > 0 THEN <<Tools, size[Tools]>> ELSE <<System, size[System]>>

\* compute_wall() inserts a marker; a bare system string becomes a list.
InsertWall ==
  /\ stage = "wall"
  /\ marks = {} /\ AutoInsert
  /\ size[Tools] > 0 \/ size[System] > 0
  /\ wall' = Breakpoint
  /\ marks' = {Breakpoint}
  /\ plain' = plain \ {Breakpoint[1]}
  /\ stage' = "lingua"
  /\ UNCHANGED <<size, theirs, changed>>

\* compress_volatile_tail(): any of the blocks iter_volatile_blocks() yields.
Volatile == {p \in Blocks : Kind(p) = 2 /\ ~IsProtected(wall, p)}

LinguaPass ==
  /\ stage = "lingua"
  /\ \E s \in SUBSET Volatile : changed' = changed \cup s
  /\ stage' = "engines"
  /\ UNCHANGED <<size, plain, marks, theirs, wall>>

\* The blocks the engines and the LSH pre-pass may rewrite under descriptor m.
\* A bare system string is let alone whenever there is a descriptor.
Compressible(m) ==
  {p \in Blocks :
     \/ Kind(p) = 2 /\ ~LegacyProtected(m, p)
     \/ /\ Kind(p) = 0 /\ CompressSystem
        /\ IF System \in plain THEN m = None ELSE ~LegacyProtected(m, p)}

\* compress_request_payload().
EnginePass ==
  /\ stage = "engines"
  /\ \E m \in LegacyMarks \cup {None} :
       /\ IF PreserveCache THEN IsLast(m, LegacyMarks) ELSE m = None
       /\ \E s \in SUBSET Compressible(m) : changed' = changed \cup s
  /\ stage' = "done"
  /\ UNCHANGED <<size, plain, marks, theirs, wall>>

Next == FindWall \/ InsertWall \/ LinguaPass \/ EnginePass

Spec == Init /\ [][Next]_vars

-----------------------------------------------------------------------------
\* Type invariant.
TypeOK ==
  /\ size \in [Lists -> 0..MaxBlocks]
  /\ plain \subseteq Lists
  /\ marks \subseteq Positions /\ theirs \subseteq Positions
  /\ wall \in Positions \cup {None}
  /\ changed \subseteq Positions
  /\ stage \in {"wall", "lingua", "engines", "done"}

\* "Every byte at or before the wall is sacred" (cache_wall.py:17): neither
\* pass changes a block that a marker of the client covers.
SacredPrefix ==
  \A p \in changed, m \in theirs : ~AtOrBefore(p, m)

\* The wall found before the lingua pass is still the wall of the payload when
\* the engines come to it, and inserting one leaves nothing to insert: the next
\* proxy in line, or a retry, would find the same wall.
WallSettled ==
  stage \in {"lingua", "engines", "done"} /\ Lingua =>
    /\ IsLast(wall, marks)
    /\ (wall = None /\ AutoInsert) => size[System] + size[Tools] = 0
    /\ marks # theirs =>
         theirs = {} /\ \A p \in Blocks : Kind(p) < 2 => AtOrBefore(p, wall)

\* "Both must agree on every input" (cache_wall.py:39) holds of this much: the
\* two oracles, written apart and found anew before each pass, agree on every
\* message block, and on system blocks too while no tool carries a marker.
Parity ==
  \A w \in marks \cup {None}, m \in LegacyMarks \cup {None} :
    IsLast(w, marks) /\ IsLast(m, LegacyMarks) =>
      \A p \in Blocks :
        Kind(p) = 2 \/ (Kind(p) = 0 /\ marks = LegacyMarks) =>
          (IsProtected(w, p) <=> LegacyProtected(m, p))
=============================================================================
