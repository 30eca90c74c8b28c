--------------------------- MODULE CacheWallProofs ---------------------------
(***************************************************************************)
(* Why neither pass can touch the cached prefix, for payloads of any size. *)
(* Both oracles are shown to decide the same thing, "at or before the      *)
(* marker" in processing order, which is what makes the prefix safe even   *)
(* though the second pass cannot see markers on tools.                     *)
(***************************************************************************)
EXTENDS CacheWall, TLAPS

\* The parts of a position.
LEMMA PositionParts ==
  ASSUME NEW p \in Positions
  PROVE  /\ Kind(p) \in {0, 1, 2}
         /\ Msg(p) \in Nat
         /\ Block(p) \in 1..MaxBlocks
         /\ Kind(p) # 2 => Msg(p) = 0
<1>1. p[1] \in Lists /\ p[2] \in 1..MaxBlocks
  BY DEF Positions
<1>2. CASE p[1] \in {System, Tools}
  BY <1>1, <1>2 DEF System, Tools, Kind, Msg, Block
<1>3. ASSUME NEW m \in 1..MaxMessages, p[1] = Message(m)
      PROVE  Kind(p) = 2 /\ Msg(p) = m
  BY <1>3 DEF Message, Kind, Msg
<1> QED
  BY <1>1, <1>2, <1>3, WallAssumption DEF Lists, Block

\* Processing order is transitive.
LEMMA OrderTransitive ==
  ASSUME NEW p \in Positions, NEW q \in Positions, NEW r \in Positions,
         AtOrBefore(p, q), AtOrBefore(q, r)
  PROVE  AtOrBefore(p, r)
<1>1. \A x \in {p, q, r} : Kind(x) \in Int /\ Msg(x) \in Int /\ Block(x) \in Int
  BY PositionParts, WallAssumption
<1> QED
  BY <1>1 DEF AtOrBefore

\* CacheWall.is_protected() protects exactly what lies at or before the wall.
LEMMA WallIsPrefix ==
  ASSUME NEW m \in Positions, NEW p \in Positions
  PROVE  IsProtected(m, p) <=> AtOrBefore(p, m)
<1>1. m # None
  BY WallAssumption
<1>2. \A x \in {p, m} :
        /\ Kind(x) \in {0, 1, 2} /\ Msg(x) \in Int /\ Block(x) \in Int
        /\ Kind(x) # 2 => Msg(x) = 0
  BY PositionParts, WallAssumption
<1> QED
  BY <1>1, <1>2 DEF IsProtected, AtOrBefore

\* So does _is_block_protected(), of system and message blocks.
LEMMA LegacyIsPrefix ==
  ASSUME NEW m \in Positions, NEW p \in Positions, Kind(m) # 1, Kind(p) # 1
  PROVE  LegacyProtected(m, p) <=> AtOrBefore(p, m)
<1>1. m # None
  BY WallAssumption
<1>2. \A x \in {p, m} :
        /\ Kind(x) \in {0, 2} /\ Msg(x) \in Int /\ Block(x) \in Int
        /\ Kind(x) # 2 => Msg(x) = 0
  BY PositionParts, WallAssumption
<1> QED
  BY <1>1, <1>2 DEF LegacyProtected, AtOrBefore

-----------------------------------------------------------------------------
\* The inductive invariant: the client's markers stay, and the wall the lingua
\* pass goes by is the last marker of the payload.
IInv ==
  /\ TypeOK
  /\ theirs \subseteq marks
  /\ stage = "lingua" => IsLast(wall, marks)
  /\ SacredPrefix

\* The breakpoint the proxy inserts is a place in the payload.
LEMMA BreakpointPlaced ==
  ASSUME TypeOK, size[Tools] > 0 \/ size[System] > 0
  PROVE  Breakpoint \in Positions
<1>1. size[Tools] \in 0..MaxBlocks /\ size[System] \in 0..MaxBlocks
  BY DEF TypeOK, Lists
<1>2. CASE size[Tools] > 0
  BY <1>1, <1>2, WallAssumption DEF Breakpoint, Positions, Lists
<1>3. CASE ~(size[Tools] > 0)
  <2>1. size[System] \in 1..MaxBlocks
    BY <1>1, <1>3, WallAssumption
  <2> QED
    BY <1>3, <2>1 DEF Breakpoint, Positions, Lists
<1> QED
  BY <1>2, <1>3

LEMMA InitInv == Init => IInv
<1> SUFFICES ASSUME Init PROVE IInv
  OBVIOUS
<1>1. stage \in {"wall", "engines"} /\ changed = {} /\ theirs = marks /\ wall = None
  BY DEF Init
<1>2. marks \subseteq Positions /\ plain \subseteq Lists
  BY DEF Init, Blocks
<1>3. size \in [Lists -> 0..MaxBlocks]
  BY DEF Init
<1> QED
  BY <1>1, <1>2, <1>3 DEF IInv, TypeOK, SacredPrefix

\* No pass leaves the positions of the payload.
LEMMA StepType == TypeOK /\ [Next]_vars => TypeOK'
<1> SUFFICES ASSUME TypeOK, [Next]_vars PROVE TypeOK'
  OBVIOUS
<1>1. CASE UNCHANGED vars
  BY <1>1 DEF vars, TypeOK
<1>2. CASE FindWall
  BY <1>2 DEF FindWall, TypeOK
<1>3. CASE InsertWall
  <2>1. /\ wall' = Breakpoint /\ marks' = {Breakpoint} /\ stage' = "lingua"
        /\ plain' \subseteq plain
        /\ UNCHANGED <<size, theirs, changed>>
    BY <1>3 DEF InsertWall
  <2>2. Breakpoint \in Positions
    BY <1>3, BreakpointPlaced DEF InsertWall
  <2> QED
    BY <2>1, <2>2 DEF TypeOK
<1>4. CASE LinguaPass
  <2>1. Volatile \subseteq Positions
    BY DEF Volatile, Blocks
  <2> QED
    BY <1>4, <2>1 DEF LinguaPass, TypeOK
<1>5. CASE EnginePass
  <2>1. PICK d \in LegacyMarks \cup {None} : changed' \subseteq changed \cup Compressible(d)
    BY <1>5 DEF EnginePass
  <2>2. Compressible(d) \subseteq Positions
    BY DEF Compressible, Blocks
  <2>3. stage' = "done" /\ UNCHANGED <<size, plain, marks, theirs, wall>>
    BY <1>5 DEF EnginePass
  <2> QED
    BY <2>1, <2>2, <2>3 DEF TypeOK
<1> QED
  BY <1>1, <1>2, <1>3, <1>4, <1>5 DEF Next

LEMMA StepInv ==
  ASSUME ~CompressSystem, PreserveCache
  PROVE  IInv /\ [Next]_vars => IInv'
<1> SUFFICES ASSUME IInv, [Next]_vars PROVE IInv'
  OBVIOUS
<1>0. TypeOK /\ TypeOK' /\ theirs \subseteq marks /\ SacredPrefix
  BY StepType DEF IInv
<1>1. CASE UNCHANGED vars
  BY <1>0, <1>1 DEF vars, IInv, SacredPrefix, IsLast, AtOrBefore
<1>2. CASE FindWall
  <2>1. /\ IsLast(wall', marks) /\ stage' = "lingua"
        /\ UNCHANGED <<size, plain, marks, theirs, changed>>
    BY <1>2 DEF FindWall
  <2>2. SacredPrefix'
    BY <1>0, <2>1 DEF SacredPrefix
  <2> QED
    BY <1>0, <2>1, <2>2 DEF IInv, IsLast
<1>3. CASE InsertWall
  <2>1. /\ wall' = Breakpoint /\ marks' = {Breakpoint} /\ stage' = "lingua" /\ marks = {}
        /\ UNCHANGED <<size, theirs, changed>>
    BY <1>3 DEF InsertWall
  <2>2. theirs' = {} /\ SacredPrefix'
    BY <1>0, <2>1 DEF SacredPrefix
  <2>3. AtOrBefore(Breakpoint, Breakpoint)
    <3>1. Breakpoint \in Positions
      BY <1>0, <1>3, BreakpointPlaced DEF InsertWall
    <3> QED
      BY <3>1, PositionParts, WallAssumption DEF AtOrBefore
  <2>4. IsLast(wall', marks')
    BY <2>1, <2>3 DEF IsLast
  <2> QED
    BY <1>0, <2>2, <2>4 DEF IInv, IsLast
<1>4. CASE LinguaPass
  <2>1. /\ stage = "lingua" /\ stage' = "engines"
        /\ UNCHANGED <<size, plain, marks, theirs, wall>>
        /\ \A p \in changed' : p \in changed \/ p \in Volatile
    BY <1>4 DEF LinguaPass
  <2>2. IsLast(wall, marks)
    BY <2>1 DEF IInv
  <2>3. ASSUME NEW p \in Volatile, NEW m \in theirs, AtOrBefore(p, m)
        PROVE  FALSE
    <3>1. p \in Positions /\ ~IsProtected(wall, p)
      BY <2>3 DEF Volatile, Blocks
    <3>2. m \in marks /\ m \in Positions /\ wall \in Positions /\ AtOrBefore(m, wall)
      BY <1>0, <2>2 DEF IsLast, TypeOK
    <3>3. AtOrBefore(p, wall)
      BY <2>3, <3>1, <3>2, OrderTransitive
    <3> QED
      BY <3>1, <3>2, <3>3, WallIsPrefix
  <2>4. SacredPrefix'
    BY <1>0, <2>1, <2>3 DEF SacredPrefix
  <2> QED
    BY <1>0, <2>1, <2>4 DEF IInv
<1>5. CASE EnginePass
  <2>1. PICK d \in LegacyMarks \cup {None} :
          /\ IsLast(d, LegacyMarks)
          /\ \A p \in changed' : p \in changed \/ p \in Compressible(d)
    BY <1>5 DEF EnginePass
  <2>2. stage' = "done" /\ UNCHANGED <<size, plain, marks, theirs, wall>>
    BY <1>5 DEF EnginePass
  <2>3. ASSUME NEW p \in Compressible(d), NEW m \in theirs, AtOrBefore(p, m)
        PROVE  FALSE
    <3>1. p \in Positions /\ Kind(p) = 2 /\ ~LegacyProtected(d, p)
      BY <2>3 DEF Compressible, Blocks
    <3>2. m \in marks /\ m \in Positions
      BY <1>0 DEF TypeOK
    <3>3. Kind(m) \in {0, 1, 2}
      BY <3>2, PositionParts
    <3>4. Kind(m) = 2
      BY <2>3, <3>1, <3>3 DEF AtOrBefore
    <3>5. m \in LegacyMarks
      BY <3>2, <3>4 DEF LegacyMarks
    <3>6. d \in Positions /\ Kind(d) # 1 /\ AtOrBefore(m, d)
      BY <1>0, <2>1, <3>5 DEF IsLast, LegacyMarks, TypeOK
    <3>7. AtOrBefore(p, d)
      BY <2>3, <3>1, <3>2, <3>6, OrderTransitive
    <3> QED
      BY <3>1, <3>6, <3>7, LegacyIsPrefix
  <2>4. SacredPrefix'
    BY <1>0, <2>1, <2>2, <2>3 DEF SacredPrefix
  <2> QED
    BY <1>0, <2>2, <2>4 DEF IInv
<1> QED
  BY <1>1, <1>2, <1>3, <1>4, <1>5 DEF Next

\* With the system prompt left alone, no block at or before a marker of the
\* client is ever changed, whatever the payload and wherever its markers are.
THEOREM SacredPrefixHolds ==
  ASSUME ~CompressSystem, PreserveCache
  PROVE  Spec => []SacredPrefix
<1>1. Init => IInv
  BY InitInv
<1>2. IInv /\ [Next]_vars => IInv'
  BY StepInv
<1>3. IInv => SacredPrefix
  BY DEF IInv
<1> QED
  BY <1>1, <1>2, <1>3, PTL DEF Spec

\* Two last markers of the same set protect the same blocks.
LEMMA SameLast ==
  ASSUME NEW w \in Positions, NEW m \in Positions, NEW p \in Positions,
         Kind(m) # 1, Kind(p) # 1, AtOrBefore(w, m), AtOrBefore(m, w)
  PROVE  IsProtected(w, p) <=> LegacyProtected(m, p)
<1>1. AtOrBefore(p, w) <=> AtOrBefore(p, m)
  BY OrderTransitive
<1> QED
  BY <1>1, WallIsPrefix, LegacyIsPrefix

\* The oracles agree as far as the engines' one can see.
LEMMA ParityOfTyped ==
  ASSUME TypeOK
  PROVE  Parity
<1> SUFFICES ASSUME NEW w \in marks \cup {None}, NEW m \in LegacyMarks \cup {None},
                    IsLast(w, marks), IsLast(m, LegacyMarks),
                    NEW p \in Blocks,
                    Kind(p) = 2 \/ (Kind(p) = 0 /\ marks = LegacyMarks)
             PROVE  IsProtected(w, p) <=> LegacyProtected(m, p)
  BY DEF Parity
<1>1. p \in Positions /\ Kind(p) # 1 /\ marks \subseteq Positions
  BY DEF Blocks, TypeOK
<1>2. CASE marks = {}
  BY <1>2 DEF IsLast, LegacyMarks, IsProtected, LegacyProtected
<1>3. CASE marks # {} /\ Kind(w) # 1
  <2>1. w \in marks /\ w \in LegacyMarks
    BY <1>3 DEF IsLast, LegacyMarks
  <2>2. m \in marks /\ Kind(m) # 1 /\ AtOrBefore(w, m) /\ AtOrBefore(m, w)
    BY <1>3, <2>1 DEF IsLast, LegacyMarks
  <2> QED
    BY <1>1, <2>1, <2>2, SameLast
<1>4. CASE marks # {} /\ Kind(w) = 1
  <2>1. w \in marks /\ w \notin LegacyMarks
    BY <1>4 DEF IsLast, LegacyMarks
  <2>2. Kind(p) = 2
    BY <2>1
  <2>3. ~AtOrBefore(p, w)
    BY <1>4, <2>2 DEF AtOrBefore
  <2>4. ~IsProtected(w, p)
    BY <1>1, <2>1, <2>3, WallIsPrefix
  <2>5. CASE m = None
    BY <2>4, <2>5 DEF LegacyProtected
  <2>6. CASE m \in LegacyMarks
    <3>1. m \in marks /\ Kind(m) # 1 /\ AtOrBefore(m, w)
      BY <1>4, <2>6 DEF IsLast, LegacyMarks
    <3>2. Kind(m) \in {0, 1, 2}
      BY <1>1, <3>1, PositionParts
    <3>3. Kind(m) = 0
      BY <1>4, <3>1, <3>2 DEF AtOrBefore
    <3>4. ~AtOrBefore(p, m)
      BY <2>2, <3>3 DEF AtOrBefore
    <3> QED
      BY <1>1, <2>4, <3>1, <3>4, LegacyIsPrefix
  <2> QED
    BY <2>5, <2>6
<1> QED
  BY <1>2, <1>3, <1>4

\* At every stage, the oracles of the two passes agree on every message block,
\* and on system blocks while no tool carries a marker.
THEOREM OraclesAgree == Spec => []Parity
<1>1. Init => TypeOK
  BY InitInv DEF IInv
<1>2. TypeOK /\ [Next]_vars => TypeOK'
  BY StepType
<1>3. TypeOK => Parity
  BY ParityOfTyped
<1> QED
  BY <1>1, <1>2, <1>3, PTL DEF Spec

-----------------------------------------------------------------------------
\* Every block of the system prompt or the tools is at or before the breakpoint.
LEMMA BreakpointCovers ==
  ASSUME TypeOK, size[Tools] > 0 \/ size[System] > 0,
         NEW p \in Blocks, Kind(p) < 2
  PROVE  AtOrBefore(p, Breakpoint)
<1>1. /\ p \in Positions /\ p[2] <= size[p[1]] /\ p[1] \in Lists
      /\ p[2] \in 1..MaxBlocks
  BY DEF Blocks, Positions
<1>2. p[1] \in {System, Tools}
  BY <1>1 DEF Lists, Message, Kind
<1>3. size[Tools] \in Nat /\ size[System] \in Nat
  BY WallAssumption DEF TypeOK, Lists
<1>4. CASE size[Tools] > 0
  BY <1>1, <1>2, <1>3, <1>4, WallAssumption
  DEF Breakpoint, AtOrBefore, Kind, Msg, Block, System, Tools
<1>5. CASE ~(size[Tools] > 0)
  <2>1. p[1] = System
    BY <1>1, <1>2, <1>3, <1>5, WallAssumption
  <2> QED
    BY <1>1, <1>3, <1>5, <2>1, WallAssumption
    DEF Breakpoint, AtOrBefore, Kind, Msg, Block, System
<1> QED
  BY <1>4, <1>5

\* Until compute_wall() runs, the markers are the client's.
WallInv == TypeOK /\ WallSettled /\ (stage = "wall" => theirs = marks)

LEMMA StepWall == WallInv /\ [Next]_vars => WallInv'
<1> SUFFICES ASSUME WallInv, [Next]_vars PROVE WallInv'
  OBVIOUS
<1>0. TypeOK /\ TypeOK' /\ WallSettled
  BY StepType DEF WallInv
<1>1. CASE UNCHANGED vars
  BY <1>1 DEF vars, WallInv, WallSettled, TypeOK, IsLast, AtOrBefore, Blocks
<1>2. CASE FindWall
  <2>1. /\ IsLast(wall', marks) /\ stage' = "lingua" /\ marks = theirs
        /\ wall' = None /\ AutoInsert => size[Tools] = 0 /\ size[System] = 0
        /\ UNCHANGED <<size, plain, marks, theirs, changed>>
    <3>1. wall' = None => marks = {}
      BY <1>0, <1>2, WallAssumption DEF FindWall, IsLast, TypeOK
    <3> QED
      BY <1>2, <3>1 DEF FindWall, WallInv
  <2>2. IsLast(wall, marks)'
    BY <2>1 DEF IsLast, AtOrBefore
  <2> QED
    BY <1>0, <2>1, <2>2 DEF WallInv, WallSettled
<1>3. CASE InsertWall
  <2>1. /\ wall' = Breakpoint /\ marks' = {Breakpoint} /\ stage' = "lingua"
        /\ theirs' = {} /\ size' = size /\ (size[Tools] > 0 \/ size[System] > 0)
    BY <1>3 DEF InsertWall, WallInv
  <2>2. Breakpoint \in Positions
    BY <1>0, <2>1, BreakpointPlaced
  <2>3. AtOrBefore(wall', wall')
    BY <2>1, <2>2, PositionParts, WallAssumption DEF AtOrBefore
  <2>4. IsLast(wall, marks)'
    BY <2>1, <2>3 DEF IsLast
  <2>5. wall' # None
    BY <2>1, <2>2, WallAssumption
  <2>6. \A p \in Blocks' : Kind(p) < 2 => AtOrBefore(p, wall')
    BY <1>0, <2>1, BreakpointCovers DEF Blocks
  <2> QED
    BY <1>0, <2>1, <2>4, <2>5, <2>6 DEF WallInv, WallSettled
<1>4. CASE LinguaPass
  <2>1. /\ stage = "lingua" /\ stage' = "engines"
        /\ UNCHANGED <<size, plain, marks, theirs, wall>>
    BY <1>4 DEF LinguaPass
  <2> QED
    BY <1>0, <2>1 DEF WallInv, WallSettled, IsLast, AtOrBefore, Blocks
<1>5. CASE EnginePass
  <2>1. /\ stage = "engines" /\ stage' = "done"
        /\ UNCHANGED <<size, plain, marks, theirs, wall>>
    BY <1>5 DEF EnginePass
  <2> QED
    BY <1>0, <2>1 DEF WallInv, WallSettled, IsLast, AtOrBefore, Blocks
<1> QED
  BY <1>1, <1>2, <1>3, <1>4, <1>5 DEF Next

\* For payloads of every size, the wall the first pass found or inserted is
\* still the last marker when the engines come to it, and where one could be
\* inserted none is missing.
THEOREM WallStays == Spec => []WallSettled
<1>1. Init => WallInv
  <2> SUFFICES ASSUME Init PROVE WallInv
    OBVIOUS
  <2>1. TypeOK /\ theirs = marks
    BY InitInv DEF IInv, Init
  <2>2. ~(stage \in {"lingua", "engines", "done"} /\ Lingua)
    BY DEF Init
  <2> QED
    BY <2>1, <2>2 DEF WallInv, WallSettled
<1>2. WallInv /\ [Next]_vars => WallInv'
  BY StepWall
<1>3. WallInv => WallSettled
  BY DEF WallInv
<1> QED
  BY <1>1, <1>2, <1>3, PTL DEF Spec
=============================================================================
