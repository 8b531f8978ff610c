--------------------------- MODULE PlacementProofs ---------------------------
(***************************************************************************)
(* Safety of placing for every chip, circuit, netlist and set of macros.   *)
(* Legality: from the moment check_place has passed the initial placement, *)
(* no move, however it ends, puts two blocks on one site, separates a      *)
(* macro, or lets the grid and the locations drift apart.  Checks: the     *)
(* usage counts, which try_swap updates from the flags of the blocks it    *)
(* moved, stay those of the grid, and the check that ends try_place finds  *)
(* no error; with the counts come the types, and that the placer           *)
(* implements the exchange of blocks.  Costs: those that are only ever     *)
(* changed by differences are those of the placement.                      *)
(***************************************************************************)
EXTENDS PlacementCost, Induction, FunctionTheorems, FiniteSetTheorems, TLAPS

(* The inductive invariant.                                                *)

\* While the initial placement runs, a macro is placed as a whole or not at
\* all, and the grid shows what block_locs says.
InitialInv ==
  phase = "initial" =>
    /\ moved = <<>> /\ mover = NoMove
    /\ \A m \in DOMAIN Macros : \A i \in DOMAIN Members(m) :
         Placed(Members(m)[i]) <=> Placed(Members(m)[1])
    /\ \A b \in Blocks, s \in Sites : grid_blocks[s] = b <=> block_locs[b] = s

Resting == phase \in {"anneal", "done"}
Moving  == phase \in {"moving", "assess", "abort"}

\* Before the move: every block on a legal site of its own, macros whole.
StartLegal ==
  /\ \A b \in Blocks : Undone[b] \in LegalPos(BlockType[b])
  /\ \A a, b \in Blocks : Undone[a] = Undone[b] => a = b
  /\ \A m \in DOMAIN Macros : \A i \in DOMAIN Members(m) :
       Undone[Members(m)[i]] = Plus(Undone[Members(m)[1]], Offset(m, i))

\* Which blocks have moved, where a block of the unit goes, who is in its way.
Gone      == {mover.unit[k] : k \in 1..mover.next-1}
Goal(b)   == Plus(Undone[b], mover.offset)
InWay(c)  == \E u \in Gone : Undone[c] = Goal(u)
InUnit(b) == \E k \in DOMAIN mover.unit : mover.unit[k] = b

UnitInv ==
  /\ \E b \in Blocks : /\ mover.unit = UnitOf(b)
                      /\ Goal(b) \in LegalPos(BlockType[b]) /\ Goal(b) # Undone[b]
  /\ mover.next \in 1..Len(mover.unit) + 1
  /\ phase = "moving" => mover.next <= Len(mover.unit)
  /\ phase = "assess" => mover.next = Len(mover.unit) + 1

\* A block of the unit that has moved went to a legal site, which was empty or
\* held a block that is in no macro and not in the unit.
GoalsLegal ==
  \A u \in Gone : /\ Goal(u) \in LegalPos(BlockType[u])
                  /\ \A c \in Blocks : Undone[c] = Goal(u) => ~InMacro(c) /\ ~InUnit(c)

\* Where every block is now.
Located ==
  /\ \A u \in Gone : block_locs[u] = Goal(u)
  /\ \A u \in Gone, c \in Blocks : Undone[c] = Goal(u) => block_locs[c] = Undone[u]
  /\ \A b \in Blocks : b \notin Gone /\ ~InWay(b) => block_locs[b] = Undone[b]

\* The list of moved blocks: each block that is elsewhere, once.
Displaced == {c \in Blocks : InWay(c)}
GoalFree  == {b \in Blocks : \A c \in Blocks : Undone[c] # Goal(b)}
Records(mv, locs, gone, displaced, free) ==
  /\ \A i, j \in DOMAIN mv : mv[i].blk = mv[j].blk => i = j
  /\ \A i \in DOMAIN mv : /\ mv[i].new = locs[mv[i].blk]
                          /\ mv[i].blk \in gone \cup displaced
                          /\ mv[i].vacant <=> mv[i].blk \in gone /\ mv[i].blk \in free
  /\ \A b \in gone \cup displaced : \E i \in DOMAIN mv : mv[i].blk = b
Recorded == Records(moved, block_locs, Gone, Displaced, GoalFree)

IInv ==
  /\ Types
  /\ OnLegalSites
  /\ InitialInv
  /\ Annealing => StartLegal /\ GridAgrees
  /\ Resting => moved = <<>>
  /\ Moving => UnitInv /\ GoalsLegal /\ Located /\ Recorded


-----------------------------------------------------------------------------
(* Sites and offsets.                                                      *)

LEMMA SiteCoordinates ==
  ASSUME NEW s \in Sites
  PROVE  /\ s \in Vectors /\ s # NoSite
         /\ Tile(s) \in Tiles
         /\ s[3] \in 0..Capacity[TileType[Tile(s)]]-1
<1>1. PICK t \in Tiles : \E z \in 0..Capacity[TileType[t]]-1 : s = <<t[1], t[2], z>>
  BY DEF Sites
<1>2. PICK z \in 0..Capacity[TileType[t]]-1 : s = <<t[1], t[2], z>>
  BY <1>1
<1>3. t = <<t[1], t[2]>> /\ t[1] \in 0..Width-1 /\ t[2] \in 0..Height-1
  BY DEF Tiles
<1>4. Tile(s) = t
  BY <1>2, <1>3 DEF Tile
<1>5. Capacity[TileType[t]] \in Nat /\ Width \in Nat /\ Height \in Nat
  BY GridAssumption
<1>6. z \in Int /\ z >= 0 /\ t[1] \in Int /\ t[1] >= 0 /\ t[2] \in Int
  BY <1>3, <1>5
<1>7. s # NoSite
  BY <1>2, <1>6 DEF NoSite
<1> QED
  BY <1>2, <1>4, <1>6, <1>7 DEF Vectors

LEMMA SiteOfTile ==
  ASSUME NEW s \in Vectors, Tile(s) \in Tiles, s[3] \in 0..Capacity[TileType[Tile(s)]]-1
  PROVE  s \in Sites
<1>1. s = <<Tile(s)[1], Tile(s)[2], s[3]>>
  BY DEF Vectors, Tile
<1> QED
  BY <1>1 DEF Sites

LEMMA LegalSites ==
  ASSUME NEW type, NEW s
  PROVE  s \in LegalPos(type) <=> s \in Sites /\ TileType[Tile(s)] = type
  BY DEF LegalPos

LEMMA PlusType ==
  ASSUME NEW s \in Vectors, NEW d \in Vectors
  PROVE  Plus(s, d) \in Vectors /\ Minus(s, d) \in Vectors
  BY DEF Vectors, Plus, Minus

LEMMA PlusCancel ==
  ASSUME NEW s \in Vectors, NEW t \in Vectors, NEW d \in Vectors, Plus(s, d) = Plus(t, d)
  PROVE  s = t
<1>1. s = <<s[1], s[2], s[3]>> /\ t = <<t[1], t[2], t[3]>>
  BY DEF Vectors
<1>2. s[1] = t[1] /\ s[2] = t[2] /\ s[3] = t[3]
  BY DEF Plus, Vectors
<1> QED
  BY <1>1, <1>2

LEMMA PlusMinus ==
  ASSUME NEW s \in Vectors, NEW t \in Vectors
  PROVE  Plus(s, Minus(t, s)) = t
<1>1. t = <<t[1], t[2], t[3]>>
  BY DEF Vectors
<1> QED
  BY <1>1 DEF Plus, Minus, Vectors

LEMMA PlusNothing ==
  ASSUME NEW s \in Vectors, NEW t \in Vectors, NEW d \in Vectors, Plus(s, d) = s
  PROVE  Plus(t, d) = t
<1>1. d[1] = 0 /\ d[2] = 0 /\ d[3] = 0
  BY DEF Plus, Vectors
<1>2. t = <<t[1], t[2], t[3]>>
  BY DEF Vectors
<1> QED
  BY <1>1, <1>2 DEF Plus, Vectors

LEMMA PlusSwap ==
  ASSUME NEW s \in Vectors, NEW d \in Vectors, NEW e \in Vectors
  PROVE  Plus(Plus(s, d), e) = Plus(Plus(s, e), d)
  BY DEF Plus, Vectors

-----------------------------------------------------------------------------
(* Macros and units.                                                       *)

LEMMA MacroTypes ==
  ASSUME NEW m \in DOMAIN Macros
  PROVE  /\ Members(m) \in Seq(Blocks) /\ Members(m) # <<>>
         /\ Macros[m].direct \in Vectors
<1> DEFINE R == [members : Seq(Blocks), direct : Int \X Int \X Int]
<1>1. Macros \in Seq(R) /\ Members(m) # <<>>
  BY MacroAssumption
<1>2. Macros[m] \in R
  <2> HIDE DEF R
  <2> QED
    BY <1>1
<1> QED
  BY <1>1, <1>2 DEF Members, Vectors

LEMMA UnitFacts ==
  ASSUME NEW b \in Blocks
  PROVE  /\ UnitOf(b) \in Seq(Blocks) /\ Len(UnitOf(b)) >= 1
         /\ \E k \in DOMAIN UnitOf(b) : UnitOf(b)[k] = b
         /\ \A j, k \in DOMAIN UnitOf(b) : UnitOf(b)[j] = UnitOf(b)[k] => j = k
         /\ ~InMacro(b) => UnitOf(b) = <<b>>
         /\ InMacro(b) => \E m \in DOMAIN Macros : UnitOf(b) = Members(m)
         /\ InMacro(b) => \A k \in DOMAIN UnitOf(b) : InMacro(UnitOf(b)[k])
<1>1. CASE ~InMacro(b)
  BY <1>1 DEF UnitOf
<1>2. CASE InMacro(b)
  <2> DEFINE Has(n) == \E i \in DOMAIN Members(n) : Members(n)[i] = b
  <2>1. PICK m \in DOMAIN Macros : UnitOf(b) = Members(m) /\ Has(m)
    <3>1. \E n \in DOMAIN Macros : Has(n)
      BY <1>2 DEF InMacro
    <3>2. UnitOf(b) = Members(CHOOSE n \in DOMAIN Macros : Has(n))
      BY <1>2 DEF UnitOf
    <3> HIDE DEF Has
    <3> QED
      BY <3>1, <3>2
  <2>2. Members(m) \in Seq(Blocks) /\ Members(m) # <<>>
    BY MacroTypes
  <2>3. \A j, k \in DOMAIN Members(m) : Members(m)[j] = Members(m)[k] => j = k
    BY MacroAssumption
  <2>4. \A k \in DOMAIN Members(m) : InMacro(Members(m)[k])
    BY DEF InMacro
  <2> QED
    BY <1>2, <2>1, <2>2, <2>3, <2>4
<1> QED
  BY <1>1, <1>2

\* Two members that belong to one macro are in the same place in it.
LEMMA MembersApart ==
  ASSUME NEW m \in DOMAIN Macros, NEW n \in DOMAIN Macros,
         NEW i \in DOMAIN Members(m), NEW j \in DOMAIN Members(n),
         Members(m)[i] = Members(n)[j]
  PROVE  m = n /\ i = j
  BY MacroAssumption

LEMMA MemberTypes ==
  ASSUME NEW m \in DOMAIN Macros
  PROVE  /\ Members(m) \in Seq(Blocks) /\ 1 \in DOMAIN Members(m)
         /\ \A i \in DOMAIN Members(m) :
              Members(m)[i] \in Blocks /\ BlockType[Members(m)[i]] = BlockType[Members(m)[1]]
         /\ \A i \in DOMAIN Members(m) : Offset(m, i) \in Vectors /\ Offset(m, i)[3] = Offset(m, 1)[3]
<1>1. Members(m) \in Seq(Blocks) /\ Members(m) # <<>>
  BY MacroTypes
<1>2. Macros[m].direct \in Vectors
  BY MacroTypes
<1>3. \A i \in DOMAIN Members(m) : i \in Int
  BY <1>1
<1>4. ASSUME NEW i \in DOMAIN Members(m)
      PROVE  Offset(m, i) \in Vectors /\ Offset(m, i)[3] = Macros[m].direct[3]
  <2>1. (i - 1) * Macros[m].direct[1] \in Int /\ (i - 1) * Macros[m].direct[2] \in Int
    BY <1>2, <1>3 DEF Vectors
  <2> QED
    BY <1>2, <2>1 DEF Offset, Vectors
<1>5. 1 \in DOMAIN Members(m)
  BY <1>1
<1>6. \A i \in DOMAIN Members(m) : Members(m)[i] \in Blocks
  BY <1>1
<1>7. \A i \in DOMAIN Members(m) : BlockType[Members(m)[i]] = BlockType[Members(m)[1]]
  BY MacroAssumption
<1>8. \A i \in DOMAIN Members(m) : Offset(m, i) \in Vectors /\ Offset(m, i)[3] = Offset(m, 1)[3]
  BY <1>4, <1>5
<1> QED
  BY <1>1, <1>5, <1>6, <1>7, <1>8

-----------------------------------------------------------------------------
(* Undoing a list of moved blocks.                                         *)

Restored(locs, mv) == [b \in Blocks |->
  LET I == {i \in DOMAIN mv : mv[i].blk = b}
  IN  IF I = {} THEN locs[b] ELSE mv[Last(I)].old]

Once(mv) == \A i, j \in DOMAIN mv : mv[i].blk = mv[j].blk => i = j

LEMMA UndoneRestored == Undone = Restored(block_locs, moved)
  BY DEF Undone, Restored

LEMMA RestoredOnce ==
  ASSUME NEW locs, NEW mv \in Seq(Moves), Once(mv)
  PROVE  /\ \A b \in Blocks : (\A i \in DOMAIN mv : mv[i].blk # b) => Restored(locs, mv)[b] = locs[b]
         /\ \A i \in DOMAIN mv : Restored(locs, mv)[mv[i].blk] = mv[i].old
<1>1. ASSUME NEW b \in Blocks, \A i \in DOMAIN mv : mv[i].blk # b
      PROVE  Restored(locs, mv)[b] = locs[b]
  BY <1>1 DEF Restored
<1>2. ASSUME NEW i \in DOMAIN mv
      PROVE  Restored(locs, mv)[mv[i].blk] = mv[i].old
  <2> DEFINE I == {j \in DOMAIN mv : mv[j].blk = mv[i].blk}
  <2>1. I = {i}
    BY DEF Once
  <2>2. Last({i}) = i
    BY DEF Last
  <2>3. mv[i].blk \in Blocks
    <3>1. mv[i] \in Moves
      OBVIOUS
    <3> QED
      BY <3>1 DEF Moves
  <2>4. Restored(locs, mv)[mv[i].blk] = IF I = {} THEN locs[mv[i].blk] ELSE mv[Last(I)].old
    BY <2>3 DEF Restored
  <2> QED
    BY <2>1, <2>2, <2>4
<1> QED
  BY <1>1, <1>2

\* mw is mv with one more record, of a block that had none.
Extends(mw, mv, r) ==
  /\ mw \in Seq(Moves) /\ Len(mv) \in Nat
  /\ DOMAIN mv = 1..Len(mv) /\ DOMAIN mw = 1..Len(mv)+1
  /\ \A i \in DOMAIN mv : mw[i] = mv[i]
  /\ mw[Len(mv)+1] = r

LEMMA AppendExtends ==
  ASSUME NEW mv \in Seq(Moves), NEW r \in Moves
  PROVE  Extends(Append(mv, r), mv, r)
<1> DEFINE M == Moves
<1>1. mv \in Seq(M) /\ r \in M
  OBVIOUS
<1> HIDE DEF M
<1>2. Append(mv, r) \in Seq(M)
  BY <1>1
<1> USE DEF M
<1>3. Append(mv, r) \in Seq(Moves)
  BY <1>2
<1> QED
  BY <1>3 DEF Extends

\* Moving one more block, which had not moved, and recording it changes nothing
\* in what undoing restores.
LEMMA RestoredExtend ==
  ASSUME NEW mv \in Seq(Moves), Once(mv), NEW r \in Moves, NEW mw, Extends(mw, mv, r),
         \A i \in DOMAIN mv : mv[i].blk # r.blk,
         NEW locs, r.old = locs[r.blk],
         NEW new, \A c \in Blocks : c # r.blk => new[c] = locs[c]
  PROVE  Once(mw) /\ Restored(new, mw) = Restored(locs, mv)
<1>1. \A i \in DOMAIN mw : (i \in DOMAIN mv /\ mw[i] = mv[i]) \/ (i = Len(mv)+1 /\ mw[i] = r)
  BY DEF Extends
<1>2. Once(mw)
  BY <1>1 DEF Once
<1>3. \E i \in DOMAIN mw : mw[i] = r
  BY DEF Extends
<1>4. ASSUME NEW c \in Blocks PROVE Restored(new, mw)[c] = Restored(locs, mv)[c]
  <2>1. /\ (\A i \in DOMAIN mv : mv[i].blk # c) => Restored(locs, mv)[c] = locs[c]
        /\ \A i \in DOMAIN mv : mv[i].blk = c => Restored(locs, mv)[c] = mv[i].old
    BY RestoredOnce
  <2>2. /\ (\A i \in DOMAIN mw : mw[i].blk # c) => Restored(new, mw)[c] = new[c]
        /\ \A i \in DOMAIN mw : mw[i].blk = c => Restored(new, mw)[c] = mw[i].old
    BY <1>2, RestoredOnce DEF Extends
  <2>3. CASE c = r.blk
    BY <2>1, <2>2, <2>3, <1>3
  <2>4. CASE c # r.blk
    <3>1. CASE \A i \in DOMAIN mv : mv[i].blk # c
      BY <3>1, <2>1, <2>2, <2>4, <1>1
    <3>2. ASSUME NEW i \in DOMAIN mv, mv[i].blk = c PROVE Restored(new, mw)[c] = Restored(locs, mv)[c]
      <4>1. i \in DOMAIN mw /\ mw[i] = mv[i]
        BY DEF Extends
      <4> QED
        BY <3>2, <4>1, <2>1, <2>2
    <3> QED
      BY <3>1, <3>2
  <2> QED
    BY <2>3, <2>4
<1>5. Restored(new, mw) = Restored(locs, mv)
  BY <1>4 DEF Restored
<1> QED
  BY <1>2, <1>5

LEMMA RestoredNone ==
  ASSUME NEW locs \in [Blocks -> Sites \cup {NoSite}]
  PROVE  Restored(locs, <<>>) = locs
  BY DEF Restored

LEMMA BlockNumbers == EMPTY \notin Blocks
  BY GridAssumption DEF EMPTY, Blocks

-----------------------------------------------------------------------------
(* The initial placement keeps the invariant.                              *)

LEMMA InitInv == Init => IInv
<1> SUFFICES ASSUME Init PROVE IInv
  OBVIOUS
<1>1. Types
  BY DEF Init, Types, NoMove, Vectors, Phases
<1>2. OnLegalSites /\ \A b \in Blocks : ~Placed(b)
  BY DEF Init, OnLegalSites, Placed
<1>3. InitialInv
  BY <1>2, BlockNumbers, MemberTypes, SiteCoordinates DEF Init, InitialInv
<1> QED
  BY <1>1, <1>2, <1>3 DEF Init, IInv, Annealing, Resting, Moving

LEMMA NoFactor ==
  ASSUME NEW a \in Int, NEW b \in Int, NEW d \in Int, d # 0, a * d = b * d
  PROVE  a = b
  OBVIOUS

LEMMA NoSummand ==
  ASSUME NEW a \in Int, NEW x \in Int, NEW y \in Int, a + x = a + y
  PROVE  x = y
  OBVIOUS

\* The members of a macro are on different sites.
LEMMA MembersSpread ==
  ASSUME NEW m \in DOMAIN Macros, NEW head \in Vectors,
         NEW i \in DOMAIN Members(m), NEW j \in DOMAIN Members(m),
         SiteOf(m, head, i) = SiteOf(m, head, j)
  PROVE  i = j
<1> DEFINE d == Macros[m].direct
<1>1. /\ d[1] \in Int /\ d[2] \in Int /\ i \in Int /\ j \in Int
      /\ d[1] # 0 \/ d[2] # 0
  <2>1. d[1] # 0 \/ d[2] # 0
    BY MacroAssumption
  <2> QED
    BY <2>1, MacroTypes DEF Vectors
<1>2. head[1] \in Int /\ head[2] \in Int
  BY DEF Vectors
<1>3. head[1] + (i - 1) * d[1] = head[1] + (j - 1) * d[1]
  BY DEF SiteOf, Plus, Offset
<1>4. head[2] + (i - 1) * d[2] = head[2] + (j - 1) * d[2]
  BY DEF SiteOf, Plus, Offset
<1>5. (i - 1) \in Int /\ (j - 1) \in Int
  BY <1>1
<1>6. (i - 1) * d[1] \in Int /\ (j - 1) * d[1] \in Int /\ (i - 1) * d[2] \in Int /\ (j - 1) * d[2] \in Int
  BY <1>1, <1>5
<1> HIDE DEF d
<1>7. (i - 1) * d[1] = (j - 1) * d[1] /\ (i - 1) * d[2] = (j - 1) * d[2]
  BY <1>2, <1>3, <1>4, <1>6, NoSummand
<1>8. i - 1 = j - 1
  BY <1>1, <1>5, <1>7, NoFactor
<1> QED
  BY <1>1, <1>8

LEMMA PlaceMacroInv ==
  ASSUME IInv, NEW m \in DOMAIN Macros, NEW head \in HeadSites(m), PlaceMacro(m, head)
  PROVE  IInv'
<1> DEFINE at(i) == SiteOf(m, head, i)
<1>0. phase = "initial" /\ phase' = "initial"
  BY DEF PlaceMacro, IsNextMacro
<1>1. ASSUME NEW i \in DOMAIN Members(m)
      PROVE  at(i) \in Sites /\ at(i) \in LegalPos(BlockType[Members(m)[i]])
             /\ grid_blocks[at(i)] = EMPTY
  BY MemberTypes, LegalSites DEF PlaceMacro, Fits, Vacant, TileSuits
<1>2. \A i \in DOMAIN Members(m) : Members(m)[i] \in Blocks
  BY MemberTypes
<1>3. \A i, j \in DOMAIN Members(m) : Members(m)[i] = Members(m)[j] => i = j
  BY MembersApart
<1>4. ASSUME NEW i \in DOMAIN Members(m)
      PROVE  block_locs'[Members(m)[i]] = at(i)
  <2>1. Members(m)[i] = Members(m)[CHOOSE j \in DOMAIN Members(m) : Members(m)[j] = Members(m)[i]]
    OBVIOUS
  <2>2. i = CHOOSE j \in DOMAIN Members(m) : Members(m)[j] = Members(m)[i]
    BY <1>3
  <2> QED
    BY <1>2, <2>2 DEF PlaceMacro
<1>5. ASSUME NEW b \in Blocks, \A i \in DOMAIN Members(m) : Members(m)[i] # b
      PROVE  block_locs'[b] = block_locs[b]
  BY <1>5 DEF PlaceMacro
<1>6. block_locs' \in [Blocks -> Sites \cup {NoSite}]
  <2>1. DOMAIN block_locs' = Blocks /\ block_locs' = [b \in Blocks |-> block_locs'[b]]
    BY DEF PlaceMacro
  <2>2. ASSUME NEW b \in Blocks PROVE block_locs'[b] \in Sites \cup {NoSite}
    BY <1>1, <1>4, <1>5 DEF IInv, Types
  <2> QED
    BY <2>1, <2>2
<1>7. ASSUME NEW s \in Sites
      PROVE  \/ \E i \in DOMAIN Members(m) : at(i) = s /\ grid_blocks'[s] = Members(m)[i]
             \/ (\A i \in DOMAIN Members(m) : at(i) # s) /\ grid_blocks'[s] = grid_blocks[s]
  <2> DEFINE On == {i \in DOMAIN Members(m) : at(i) = s}
  <2>1. grid_blocks'[s] = IF On = {} THEN grid_blocks[s]
                          ELSE Members(m)[CHOOSE i \in On : \A k \in On : k <= i]
    BY DEF PlaceMacro
  <2>2. CASE On = {}
    BY <2>1, <2>2
  <2>3. CASE On # {}
    <3>1. PICK i \in On : \A k \in On : k = i
      BY <2>3, MembersSpread, SiteCoordinates, LegalSites DEF HeadSites
    <3>2. i <= i
      BY MemberTypes
    <3> QED
      BY <2>1, <2>3, <3>1, <3>2
  <2> QED
    BY <2>2, <2>3
<1> HIDE DEF at
<1>8. Types'
  BY <1>2, <1>6, <1>7 DEF PlaceMacro, IInv, Types
<1>9. OnLegalSites'
  BY <1>1, <1>4, <1>5 DEF IInv, OnLegalSites, Placed
<1>10. InitialInv'
  <2>1. \A i \in DOMAIN Members(m) : ~Placed(Members(m)[i])
    BY <1>0 DEF PlaceMacro, IsNextMacro, IInv, InitialInv
  <2>2. ASSUME NEW n \in DOMAIN Macros, NEW i \in DOMAIN Members(n)
        PROVE  Placed(Members(n)[i])' <=> Placed(Members(n)[1])'
    <3>1. CASE n = m
      BY <3>1, <1>1, <1>4, SiteCoordinates, MemberTypes DEF Placed
    <3>2. CASE n # m
      <4>1. \A j \in DOMAIN Members(n), k \in DOMAIN Members(m) : Members(m)[k] # Members(n)[j]
        BY <3>2, MembersApart
      <4>2. 1 \in DOMAIN Members(n) /\ Members(n)[i] \in Blocks /\ Members(n)[1] \in Blocks
        BY MemberTypes
      <4> QED
        BY <1>0, <1>5, <4>1, <4>2 DEF Placed, IInv, InitialInv
    <3> QED
      BY <3>1, <3>2
  <2>3. ASSUME NEW b \in Blocks, NEW s \in Sites
        PROVE  grid_blocks'[s] = b <=> block_locs'[b] = s
    <3>1. \A c \in Blocks : grid_blocks[s] = c <=> block_locs[c] = s
      BY <1>0 DEF IInv, InitialInv
    <3>2. CASE \E i \in DOMAIN Members(m) : at(i) = s
      <4>1. PICK i \in DOMAIN Members(m) : at(i) = s /\ grid_blocks'[s] = Members(m)[i]
        BY <1>7, <3>2
      <4>2. ~ \E c \in Blocks : block_locs[c] = s
        BY <1>1, <3>1, <4>1, BlockNumbers
      <4>3. ASSUME block_locs'[b] = s
            PROVE  b = Members(m)[i]
        <5>1. PICK j \in DOMAIN Members(m) : Members(m)[j] = b
          BY <1>5, <4>2, <4>3
        <5>2. at(j) = at(i)
          BY <1>4, <4>1, <4>3, <5>1
        <5>3. j = i
          BY <5>2, MembersSpread, SiteCoordinates, LegalSites DEF at, HeadSites
        <5> QED
          BY <5>1, <5>3
      <4> QED
        BY <1>4, <4>1, <4>3
    <3>3. CASE \A i \in DOMAIN Members(m) : at(i) # s
      <4>1. grid_blocks'[s] = grid_blocks[s]
        BY <1>7, <3>3
      <4>2. CASE \E i \in DOMAIN Members(m) : Members(m)[i] = b
        <5>1. block_locs'[b] # s
          BY <1>4, <3>3, <4>2
        <5>2. block_locs[b] # s
          BY <2>1, <4>2, SiteCoordinates DEF Placed
        <5> QED
          BY <3>1, <4>1, <5>1, <5>2
      <4>3. CASE \A i \in DOMAIN Members(m) : Members(m)[i] # b
        BY <1>5, <3>1, <4>1, <4>3
      <4> QED
        BY <4>2, <4>3
    <3> QED
      BY <3>2, <3>3
  <2> QED
    BY <2>2, <2>3, <1>0 DEF InitialInv, PlaceMacro, IInv
<1> QED
  BY <1>0, <1>8, <1>9, <1>10 DEF IInv, Annealing, Resting, Moving

LEMMA PlaceBlockInv ==
  ASSUME IInv, NEW b \in Blocks, NEW s \in LegalPos(BlockType[b]), PlaceBlock(b, s)
  PROVE  IInv'
<1>0. phase = "initial" /\ phase' = "initial" /\ s \in Sites
  BY LegalSites DEF PlaceBlock, IsNextBlock
<1>1. Types'
  BY <1>0 DEF PlaceBlock, IInv, Types
<1>2. block_locs'[b] = s /\ \A c \in Blocks : c # b => block_locs'[c] = block_locs[c]
  BY DEF PlaceBlock, IInv, Types
<1>3. OnLegalSites'
  BY <1>2 DEF IInv, OnLegalSites, Placed
<1>4. ASSUME NEW m \in DOMAIN Macros, NEW i \in DOMAIN Members(m)
      PROVE  Members(m)[i] # b
  BY <1>0, MemberTypes DEF PlaceBlock, IsNextBlock, MacrosPlaced, IInv, InitialInv
<1>5. ASSUME NEW m \in DOMAIN Macros, NEW i \in DOMAIN Members(m)
      PROVE  Placed(Members(m)[i])' <=> Placed(Members(m)[1])'
  BY <1>0, <1>2, <1>4, MemberTypes DEF Placed, IInv, InitialInv
<1>6. ASSUME NEW c \in Blocks, NEW t \in Sites
      PROVE  grid_blocks'[t] = c <=> block_locs'[c] = t
  <2>1. ~Placed(b) /\ grid_blocks[s] = EMPTY
    BY DEF PlaceBlock, IsNextBlock
  <2>2. grid_blocks'[t] = IF t = s THEN b ELSE grid_blocks[t]
    BY <1>0 DEF PlaceBlock, IInv, Types
  <2>3. \A d \in Blocks : grid_blocks[t] = d <=> block_locs[d] = t
    BY <1>0 DEF IInv, InitialInv
  <2>4. block_locs[b] # t /\ (t = s => block_locs[c] # t)
    BY <2>1, <2>3, SiteCoordinates, BlockNumbers DEF Placed
  <2> QED
    BY <1>2, <2>2, <2>3, <2>4
<1>7. InitialInv'
  BY <1>0, <1>5, <1>6 DEF InitialInv, PlaceBlock, IInv
<1> QED
  BY <1>0, <1>1, <1>3, <1>7 DEF IInv, Annealing, Resting, Moving

\* Giving up keeps the invariant: it says little of a program that has ended.
LEMMA EndedInv ==
  ASSUME IInv, Stop("error") \/ Stop("undefined")
  PROVE  IInv'
<1>1. phase' \in {"error", "undefined"}
      /\ UNCHANGED <<block_locs, is_fixed, grid_blocks, moved, mover>>
  BY DEF Stop
<1> QED
  BY <1>1 DEF IInv, Types, Phases, OnLegalSites, Placed, InitialInv, Annealing, Resting, Moving

\* What check_place has passed is a legal placement, and the grid shows it.
LEMMA StartAnnealingInv ==
  ASSUME IInv, StartAnnealing
  PROVE  IInv'
<1>0. phase = "initial" /\ \A b \in Blocks : Placed(b)
  BY DEF StartAnnealing
<1>1. CASE ~CheckPlace
  BY <1>1, EndedInv DEF StartAnnealing
<1>2. CASE CheckPlace
  <2>1. phase' = "anneal" /\ UNCHANGED <<block_locs, is_fixed, grid_blocks, moved, mover>>
    BY <1>2 DEF StartAnnealing, Stop
  <2>2. moved = <<>> /\ block_locs \in [Blocks -> Sites \cup {NoSite}]
    BY <1>0 DEF IInv, InitialInv, Types
  <2>3. Undone = block_locs /\ Undone' = block_locs
    BY <2>1, <2>2, RestoredNone, UndoneRestored DEF Undone, Restored
  <2>5. \A b \in Blocks, s \in Sites : grid_blocks[s] = b <=> block_locs[b] = s
    BY <1>0 DEF IInv, InitialInv
  <2>6. GridAgrees'
    BY <2>1, <2>3, <2>5 DEF GridAgrees
  <2>7. StartLegal'
    <3>1. \A b \in Blocks : block_locs[b] \in LegalPos(BlockType[b])
      BY <1>0 DEF IInv, OnLegalSites
    <3>2. ASSUME NEW a \in Blocks, NEW b \in Blocks, block_locs[a] = block_locs[b] PROVE a = b
      BY <2>5, <3>1, <3>2, LegalSites
    <3>3. \A m \in DOMAIN Macros : \A i \in DOMAIN Members(m) :
            block_locs[Members(m)[i]] = Plus(block_locs[Members(m)[1]], Offset(m, i))
      BY <1>2 DEF CheckPlace, AtOffsets
    <3> QED
      BY <2>3, <3>1, <3>2, <3>3 DEF StartLegal
  <2> QED
    BY <2>1, <2>2, <2>6, <2>7
       DEF IInv, Types, Phases, OnLegalSites, Placed, InitialInv, Annealing, Resting, Moving
<1> QED
  BY <1>1, <1>2


-----------------------------------------------------------------------------
(* Moves keep the invariant.                                               *)

LEMMA FinishAnnealingInv ==
  ASSUME IInv, FinishAnnealing
  PROVE  IInv'
<1>1. CASE ~CheckPlace
  BY <1>1, EndedInv DEF FinishAnnealing
<1>2. CASE CheckPlace
  <2>1. phase = "anneal" /\ phase' = "done"
        /\ UNCHANGED <<block_locs, is_fixed, grid_blocks, moved, mover>>
    BY <1>2 DEF FinishAnnealing, Stop
  <2>2. Undone' = Undone
    BY <2>1 DEF Undone
  <2> QED
    BY <2>1, <2>2 DEF IInv, Types, Phases, OnLegalSites, Placed, InitialInv, Annealing,
                      Resting, Moving, StartLegal, GridAgrees
<1> QED
  BY <1>1, <1>2

LEMMA AtRest ==
  ASSUME IInv, Resting
  PROVE  moved = <<>> /\ Undone = block_locs /\ \A b \in Blocks : block_locs[b] \in Sites
<1>1. moved = <<>> /\ block_locs \in [Blocks -> Sites \cup {NoSite}] /\ Annealing
  BY DEF IInv, Types, Resting, Annealing
<1>2. Undone = block_locs
  BY <1>1, RestoredNone, UndoneRestored
<1> QED
  BY <1>1, <1>2, LegalSites DEF IInv, StartLegal

LEMMA ProposeInv ==
  ASSUME IInv, NEW b \in Blocks, NEW to \in LegalPos(BlockType[b]), Propose(b, to)
  PROVE  IInv'
<1>1. phase = "anneal" /\ phase' = "moving"
      /\ UNCHANGED <<block_locs, is_fixed, grid_blocks, moved>>
  BY DEF Propose
<1>2. moved = <<>> /\ Undone = block_locs /\ \A c \in Blocks : block_locs[c] \in Sites
  BY <1>1, AtRest DEF Resting
<1>3. Undone' = block_locs
  BY <1>1, <1>2 DEF Undone
<1>4. mover' = [unit |-> UnitOf(b), next |-> 1, offset |-> Minus(to, block_locs[b])]
  BY DEF Propose
<1>5. to \in Vectors /\ block_locs[b] \in Vectors
  BY <1>2, SiteCoordinates, LegalSites
<1>6. mover' \in [unit : Seq(Blocks), next : Nat, offset : Vectors]
  BY <1>4, <1>5, UnitFacts, PlusType
<1>7. Types'
  BY <1>1, <1>6 DEF IInv, Types, Phases
<1>8. Gone' = {}
  BY <1>4 DEF Gone
<1>9. UnitInv'
  <2>1. mover.next' = 1 /\ mover.unit' = UnitOf(b) /\ Len(UnitOf(b)) \in Nat /\ Len(UnitOf(b)) >= 1
    BY <1>4, UnitFacts
  <2>2. Goal(b)' = Plus(block_locs[b], Minus(to, block_locs[b]))
    BY <1>3, <1>4 DEF Goal
  <2>3. Goal(b)' = to
    BY <1>5, <2>2, PlusMinus
  <2>4. to # block_locs[b]
    BY DEF Propose
  <2> QED
    BY <1>1, <1>3, <2>1, <2>3, <2>4 DEF UnitInv
<1>10. GoalsLegal' /\ Located' /\ Recorded'
  BY <1>1, <1>2, <1>3, <1>8 DEF GoalsLegal, Located, Recorded, Records, Displaced, InWay
<1>11. StartLegal' /\ GridAgrees'
  BY <1>1, <1>2, <1>3 DEF IInv, StartLegal, GridAgrees, Annealing
<1> QED
  BY <1>1, <1>7, <1>9, <1>10, <1>11
     DEF IInv, OnLegalSites, Placed, InitialInv, Annealing, Resting, Moving

\* A move that cannot go on leaves everything for Abort to undo.
LEMMA StuckInv ==
  ASSUME IInv, phase = "moving", Stop("abort")
  PROVE  IInv'
<1>1. phase' = "abort" /\ UNCHANGED <<block_locs, is_fixed, grid_blocks, moved, mover>>
  BY DEF Stop
<1>2. Undone' = Undone /\ Gone' = Gone /\ \A b : (InUnit(b)' <=> InUnit(b))
  BY <1>1 DEF Undone, Gone, InUnit
<1>3. (\A b : Goal(b)' = Goal(b)) /\ (\A b : InWay(b)' <=> InWay(b))
  BY <1>1, <1>2 DEF Goal, InWay
<1>4. UnitInv'
  BY <1>1, <1>2, <1>3 DEF IInv, Moving, UnitInv
<1>5. GoalsLegal' /\ Located' /\ Recorded'
  BY <1>1, <1>2, <1>3 DEF IInv, Moving, GoalsLegal, Located, Recorded, Displaced, GoalFree
<1> QED
  BY <1>1, <1>2, <1>4, <1>5
     DEF IInv, Types, Phases, OnLegalSites, Placed, InitialInv, Annealing, Resting, Moving,
         StartLegal, GridAgrees


\* What find_affected_blocks knows of the next member, and does not check: the
\* tile it goes to has a place at that height, since the block that was picked
\* goes to a legal site and all members of a macro are at the same height.
LEMMA TargetFacts ==
  ASSUME IInv, phase = "moving", Allowed, ~HitsMacro(grid_blocks[Target])
  PROVE  /\ Member \in Blocks /\ InUnit(Member)
         /\ Member \notin Gone /\ ~InWay(Member)
         /\ block_locs[Member] = Undone[Member] /\ Undone[Member] \in Sites
         /\ Target = Goal(Member) /\ Target \in LegalPos(BlockType[Member])
         /\ \A c \in Blocks : Undone[c] = Target =>
              /\ ~InMacro(c) /\ ~InUnit(c) /\ c \notin Gone /\ ~InWay(c)
              /\ block_locs[c] = Target /\ grid_blocks[Target] = c
<1> DEFINE b == Member
<1>0. Types /\ Annealing /\ StartLegal /\ GridAgrees /\ UnitInv /\ GoalsLegal /\ Located
  BY DEF IInv, Annealing, Moving
<1>1. PICK p \in Blocks : mover.unit = UnitOf(p) /\ Goal(p) \in LegalPos(BlockType[p])
                          /\ Goal(p) # Undone[p]
  BY <1>0 DEF UnitInv
<1>2. mover.next \in DOMAIN mover.unit /\ mover.unit \in Seq(Blocks)
  <2>1. mover.unit \in Seq(Blocks)
    BY <1>1, UnitFacts
  <2>2. mover.next \in 1..Len(mover.unit) + 1 /\ mover.next <= Len(mover.unit)
    BY <1>0 DEF UnitInv
  <2> QED
    BY <2>1, <2>2
<1>3. b \in Blocks /\ InUnit(b)
  BY <1>2 DEF Member, InUnit
<1>4. \A j, k \in DOMAIN mover.unit : mover.unit[j] = mover.unit[k] => j = k
  BY <1>1, UnitFacts
<1>5. \A u \in Gone : u \in Blocks /\ InUnit(u) /\ u # b
  BY <1>2, <1>4 DEF Gone, InUnit, Member
<1>6. b \notin Gone /\ ~InWay(b)
  BY <1>0, <1>3, <1>5 DEF GoalsLegal, InWay
<1>7. block_locs[b] = Undone[b]
  BY <1>0, <1>3, <1>6 DEF Located
<1>8. \A c \in Blocks : Undone[c] \in Sites /\ Undone[c] \in Vectors
  BY <1>0, LegalSites, SiteCoordinates DEF StartLegal
<1>9. mover.offset \in Vectors
  BY <1>0 DEF Types
<1>10. Target = Goal(b)
  BY <1>7 DEF Target, Goal
<1>11. \A u \in Blocks : Goal(u) \in Vectors
  BY <1>8, <1>9, PlusType DEF Goal
<1>12. Target \in LegalPos(BlockType[b])
  <2>1. CASE ~InMacro(p)
    BY <2>1, <1>1, <1>3, <1>10, UnitFacts DEF InUnit
  <2>2. CASE InMacro(p)
    <3>1. PICK m \in DOMAIN Macros : mover.unit = Members(m)
      BY <1>1, <2>2, UnitFacts
    <3>2. InMacro(b) /\ OnChip(b, Target)
      BY <1>1, <1>2, <2>2, UnitFacts DEF Member, Allowed
    <3>3. PICK i \in DOMAIN Members(m) : Members(m)[i] = b
      BY <1>3, <3>1 DEF InUnit
    <3>4. PICK j \in DOMAIN Members(m) : Members(m)[j] = p
      BY <1>1, <3>1, UnitFacts
    <3>5. Undone[b][3] = Undone[p][3]
      <4>1. /\ Undone[b] = Plus(Undone[Members(m)[1]], Offset(m, i))
            /\ Undone[p] = Plus(Undone[Members(m)[1]], Offset(m, j))
        BY <1>0, <3>3, <3>4 DEF StartLegal
      <4>2. Offset(m, i)[3] = Offset(m, j)[3]
        BY MemberTypes
      <4> QED
        BY <4>1, <4>2 DEF Plus
    <3>6. Goal(b)[3] = Goal(p)[3]
      BY <3>5 DEF Goal, Plus
    <3>7. BlockType[b] = BlockType[p]
      BY <3>3, <3>4, MemberTypes
    <3>8. TileType[Tile(Target)] = BlockType[b] /\ Target[3] >= 0
      BY <3>2 DEF OnChip
    <3>9. TileType[Tile(Goal(p))] = BlockType[b] /\ Goal(p)[3] \in 0..Capacity[BlockType[b]]-1
      BY <1>1, <3>7, LegalSites, SiteCoordinates
    <3>10. Tile(Target) \in Tiles
      <4>1. Target[1] \in Int /\ Target[2] \in Int
        BY <1>3, <1>10, <1>11 DEF Vectors
      <4>2. Width \in Nat /\ Height \in Nat
        BY GridAssumption
      <4> QED
        BY <3>2, <4>1, <4>2 DEF OnChip, Tile, Tiles
    <3>11. Target \in Sites
      BY <1>3, <1>10, <1>11, <3>6, <3>8, <3>9, <3>10, SiteOfTile
    <3> QED
      BY <3>8, <3>11, LegalSites
  <2> QED
    BY <2>1, <2>2
<1>13. ASSUME NEW c \in Blocks, Undone[c] = Target
       PROVE  /\ ~InMacro(c) /\ ~InUnit(c) /\ c \notin Gone /\ ~InWay(c)
              /\ block_locs[c] = Target /\ grid_blocks[Target] = c
  <2>1. grid_blocks[Target] = c
    BY <1>0, <1>12, <1>13, LegalSites DEF GridAgrees
  <2>2. ~InMacro(c)
    BY <2>1, BlockNumbers DEF HitsMacro
  <2>3. ~InUnit(c)
    <3>1. CASE InMacro(p)
      BY <3>1, <2>2, <1>1, UnitFacts DEF InUnit
    <3>2. CASE ~InMacro(p)
      <4>1. mover.unit = <<p>> /\ b = p
        BY <3>2, <1>1, <1>3, UnitFacts DEF InUnit
      <4> QED
        BY <4>1, <1>1, <1>10, <1>13 DEF InUnit
    <3> QED
      BY <3>1, <3>2
  <2>4. c \notin Gone
    BY <1>5, <2>3
  <2>5. ~InWay(c)
    <3>1. SUFFICES ASSUME NEW u \in Gone, Undone[c] = Goal(u) PROVE FALSE
      BY DEF InWay
    <3>2. u \in Blocks /\ u # b
      BY <1>5
    <3>3. Plus(Undone[u], mover.offset) = Plus(Undone[b], mover.offset)
      BY <1>10, <1>13, <3>1 DEF Goal
    <3>4. Undone[u] = Undone[b]
      BY <1>3, <1>8, <1>9, <3>2, <3>3, PlusCancel
    <3> QED
      BY <1>0, <1>3, <3>2, <3>4 DEF StartLegal
  <2> QED
    BY <1>0, <1>13, <2>1, <2>2, <2>3, <2>4, <2>5 DEF Located
<1> QED
  BY <1>3, <1>6, <1>7, <1>8, <1>10, <1>12, <1>13


\* One member goes to its target and whoever stands there takes its place:
\* everything but the record of it.
LEMMA Advance ==
  ASSUME IInv, phase = "moving", Allowed, ~HitsMacro(grid_blocks[Target]),
         NextMember, Types', Undone' = Undone,
         block_locs'[Member] = Target,
         \A c \in Blocks : Undone[c] = Target => block_locs'[c] = Undone[Member],
         \A c \in Blocks : c # Member /\ Undone[c] # Target => block_locs'[c] = block_locs[c]
  PROVE  /\ Gone' = Gone \cup {Member}
         /\ \A c \in Blocks : Goal(c)' = Goal(c) /\ (InWay(c)' <=> InWay(c) \/ Undone[c] = Target)
         /\ OnLegalSites' /\ InitialInv' /\ StartLegal' /\ GridAgrees'
         /\ UnitInv' /\ GoalsLegal' /\ Located' /\ Moving'
<1> DEFINE b == Member
<1>0. Types /\ Annealing /\ StartLegal /\ GridAgrees /\ UnitInv /\ GoalsLegal /\ Located
  BY DEF IInv, Annealing, Moving
<1>1. /\ b \in Blocks /\ InUnit(b) /\ b \notin Gone /\ ~InWay(b)
      /\ block_locs[b] = Undone[b] /\ Undone[b] \in Sites
      /\ Target = Goal(b) /\ Target \in LegalPos(BlockType[b])
      /\ \A c \in Blocks : Undone[c] = Target =>
           ~InMacro(c) /\ ~InUnit(c) /\ c \notin Gone /\ ~InWay(c)
  BY TargetFacts
<1>2. mover.next \in Nat /\ mover.next >= 1 /\ mover.next <= Len(mover.unit) /\ mover.unit \in Seq(Blocks)
  BY <1>0 DEF UnitInv, Types
<1>2a. \A u \in Gone : u \in Blocks
  <2>1. \A k \in 1..mover.next - 1 : mover.unit[k] \in Blocks
    BY <1>2
  <2> QED
    BY <2>1 DEF Gone
<1>3. /\ mover'.next = mover.next + 1 /\ mover'.unit = mover.unit /\ mover'.offset = mover.offset
      /\ phase' = IF mover.next = Len(mover.unit) THEN "assess" ELSE "moving"
      /\ grid_blocks' = grid_blocks
  BY <1>0 DEF NextMember, Types
<1>4. Gone' = Gone \cup {b}
  <2>1. (mover.next + 1) - 1 = mover.next
    BY <1>2
  <2>2. Gone' = {mover.unit[k] : k \in 1..mover.next}
    BY <1>3, <2>1 DEF Gone
  <2>3. 1..mover.next = (1..mover.next - 1) \cup {mover.next}
    BY <1>2
  <2>4. Gone = {mover.unit[k] : k \in 1..mover.next - 1}
    BY DEF Gone
  <2>5. b = mover.unit[mover.next]
    BY DEF Member
  <2> HIDE DEF b
  <2> QED
    BY <2>2, <2>3, <2>4, <2>5
<1>5. \A c : (InUnit(c)' <=> InUnit(c)) /\ Goal(c)' = Goal(c)
  BY <1>3 DEF InUnit, Goal
<1>6. \A c \in Blocks : InWay(c)' <=> InWay(c) \/ Undone[c] = Target
  BY <1>1, <1>4, <1>5 DEF InWay
<1>7. Moving' /\ Annealing' /\ phase' # "initial"
  BY <1>3 DEF Moving, Annealing
<1>8. UnitInv'
  <2>1. mover.next' \in 1..Len(mover.unit) + 1
        /\ (phase' = "moving" => mover.next' <= Len(mover.unit))
        /\ (phase' = "assess" => mover.next' = Len(mover.unit) + 1)
    <3>1. Len(mover.unit) \in Nat
      BY <1>2
    <3> QED
      BY <1>2, <1>3, <3>1
  <2> QED
    BY <1>0, <1>3, <1>5, <2>1 DEF UnitInv
<1>9. GoalsLegal'
  BY <1>0, <1>1, <1>4, <1>5 DEF GoalsLegal
<1>10. Located'
  <2>1. ASSUME NEW u \in Gone' PROVE block_locs'[u] = Goal(u)
    <3>1. CASE u = b
      BY <3>1, <1>1
    <3>2. CASE u # b
      <4>1. u \in Gone /\ u \in Blocks
        BY <3>2, <1>2a, <1>4
      <4>2. Undone[u] # Target
        BY <4>1, <1>1
      <4> QED
        BY <3>2, <4>1, <4>2, <1>0 DEF Located
    <3> QED
      BY <3>1, <3>2
  <2>2. ASSUME NEW u \in Gone', NEW c \in Blocks, Undone[c] = Goal(u)
        PROVE  block_locs'[c] = Undone[u]
    <3>1. CASE u = b
      BY <2>2, <3>1, <1>1
    <3>2. CASE u # b
      <4>1. u \in Gone /\ InWay(c)
        BY <2>2, <3>2, <1>4 DEF InWay
      <4>2. c # b /\ Undone[c] # Target
        BY <4>1, <1>1
      <4> QED
        BY <2>2, <4>1, <4>2, <1>0 DEF Located
    <3> QED
      BY <3>1, <3>2
  <2>3. ASSUME NEW c \in Blocks, c \notin Gone', ~InWay(c)'
        PROVE  block_locs'[c] = Undone[c]
    <3>1. c \notin Gone /\ c # b /\ ~InWay(c) /\ Undone[c] # Target
      BY <2>3, <1>4, <1>6
    <3> QED
      BY <3>1, <1>0 DEF Located
  <2> QED
    BY <2>1, <2>2, <2>3, <1>5 DEF Located
<1>11. OnLegalSites'
  <2>1. ASSUME NEW c \in Blocks PROVE block_locs'[c] \in LegalPos(BlockType[c])
    <3>1. CASE c = b
      BY <3>1, <1>1
    <3>2. CASE c # b /\ Undone[c] = Target
      <4>1. TileType[Tile(Target)] = BlockType[c]
        BY <3>2, <1>0, LegalSites DEF StartLegal
      <4>2. TileType[Tile(Target)] = BlockType[b] /\ TileType[Tile(Undone[b])] = BlockType[b]
        BY <1>0, <1>1, LegalSites DEF StartLegal
      <4> QED
        BY <3>2, <4>1, <4>2, <1>1, LegalSites
    <3>3. CASE c # b /\ Undone[c] # Target
      <4>1. block_locs[c] \in Sites
        <5>1. Undone[c] \in Sites /\ \A u \in Gone : u \in Blocks /\ Undone[u] \in Sites /\ Goal(u) \in Sites
          BY <1>0, <1>2a, LegalSites DEF StartLegal, GoalsLegal
        <5>2. CASE c \in Gone
          BY <5>1, <5>2, <1>0 DEF Located
        <5>3. CASE InWay(c)
          BY <5>1, <5>3, <1>0 DEF Located, InWay
        <5>4. CASE c \notin Gone /\ ~InWay(c)
          BY <5>1, <5>4, <1>0 DEF Located
        <5> QED
          BY <5>2, <5>3, <5>4
      <4> QED
        BY <3>3, <4>1, SiteCoordinates DEF IInv, OnLegalSites, Placed
    <3> QED
      BY <3>1, <3>2, <3>3
  <2> QED
    BY <2>1 DEF OnLegalSites
<1>12. InitialInv' /\ StartLegal' /\ GridAgrees'
  BY <1>0, <1>3, <1>7 DEF InitialInv, StartLegal, GridAgrees
<1> QED
  BY <1>4, <1>5, <1>6, <1>7, <1>8, <1>9, <1>10, <1>11, <1>12


\* One more block is recorded, which was not before.
LEMMA RecordsExtend ==
  ASSUME NEW mv \in Seq(Moves), NEW locs, NEW gone, NEW displaced, NEW free,
         Records(mv, locs, gone, displaced, free),
         NEW r \in Moves, r.blk \notin gone \cup displaced,
         NEW locs2, locs2[r.blk] = r.new,
         \A i \in DOMAIN mv : mv[i].blk # r.blk => locs2[mv[i].blk] = locs[mv[i].blk],
         NEW gone2, NEW displaced2, gone2 \cup displaced2 = (gone \cup displaced) \cup {r.blk},
         \A x \in gone \cup displaced : x \in gone2 <=> x \in gone,
         r.vacant <=> r.blk \in gone2 /\ r.blk \in free,
         NEW mw, Extends(mw, mv, r)
  PROVE  Records(mw, locs2, gone2, displaced2, free)
<1>1. /\ \A i \in DOMAIN mv : i \in DOMAIN mw /\ mw[i] = mv[i]
      /\ \E i \in DOMAIN mw : mw[i] = r
  BY DEF Extends
<1>2. \A i \in DOMAIN mw : (i \in DOMAIN mv /\ mw[i] = mv[i]) \/ (i = Len(mv)+1 /\ mw[i] = r)
  BY DEF Extends
<1>3. \A i \in DOMAIN mv : mv[i].blk \in gone \cup displaced /\ mv[i].blk # r.blk
  BY DEF Records
<1>4. \A i, j \in DOMAIN mw : mw[i].blk = mw[j].blk => i = j
  BY <1>2, <1>3 DEF Records
<1>5. ASSUME NEW i \in DOMAIN mw
      PROVE  /\ mw[i].new = locs2[mw[i].blk]
             /\ mw[i].blk \in gone2 \cup displaced2
             /\ mw[i].vacant <=> mw[i].blk \in gone2 /\ mw[i].blk \in free
  <2>1. CASE i \in DOMAIN mv /\ mw[i] = mv[i]
    BY <2>1, <1>3 DEF Records
  <2>2. CASE mw[i] = r
    BY <2>2
  <2> QED
    BY <2>1, <2>2, <1>2
<1>6. ASSUME NEW b \in gone2 \cup displaced2 PROVE \E i \in DOMAIN mw : mw[i].blk = b
  <2>1. CASE b = r.blk
    BY <2>1, <1>1
  <2>2. CASE b \in gone \cup displaced
    <3>1. PICK i \in DOMAIN mv : mv[i].blk = b
      BY <2>2 DEF Records
    <3> QED
      BY <3>1, <1>1
  <2> QED
    BY <2>1, <2>2
<1> QED
  BY <1>4, <1>5, <1>6 DEF Records

LEMMA MoveTypes ==
  ASSUME NEW mv \in Seq(Moves)
  PROVE  \A i \in DOMAIN mv : mv[i] \in Moves /\ mv[i].blk \in Blocks
<1>1. \A i \in DOMAIN mv : mv[i] \in Moves
  OBVIOUS
<1> QED
  BY <1>1 DEF Moves

LEMMA NextMemberTypes ==
  ASSUME Types, NextMember, moved' \in Seq(Moves),
         block_locs' \in [Blocks -> Sites \cup {NoSite}]
  PROVE  Types'
<1>1. mover' \in [unit : Seq(Blocks), next : Nat, offset : Vectors]
  BY DEF Types, NextMember
<1>2. phase' \in Phases
  BY DEF NextMember, Phases
<1> QED
  BY <1>1, <1>2 DEF Types, NextMember

LEMMA MoveToEmptyInv ==
  ASSUME IInv, MoveToEmpty
  PROVE  IInv' /\ Undone' = Undone
<1> DEFINE r == Move(Member, block_locs[Member], Target, TRUE)
<1>1. /\ Types /\ Annealing /\ StartLegal /\ GridAgrees /\ Recorded
      /\ phase = "moving" /\ Allowed /\ ~HitsMacro(grid_blocks[Target]) /\ NextMember
      /\ grid_blocks[Target] = EMPTY
  BY DEF MoveToEmpty, HitsMacro, IInv, Annealing, Moving
<1>2. /\ Member \in Blocks /\ Member \notin Gone /\ ~InWay(Member)
      /\ block_locs[Member] = Undone[Member] /\ Undone[Member] \in Sites
      /\ Target = Goal(Member) /\ Target \in Sites
  BY <1>1, TargetFacts, LegalSites
<1>3. \A c \in Blocks : Undone[c] # Target
  BY <1>1, <1>2, BlockNumbers DEF GridAgrees
<1>4. moved' = Append(moved, r) /\ block_locs' = [block_locs EXCEPT ![Member] = Target]
  BY DEF MoveToEmpty
<1>5. /\ r \in Moves /\ r.blk = Member /\ r.old = block_locs[Member]
      /\ r.new = Target /\ r.vacant = TRUE
  BY <1>2 DEF Move, Moves
<1> HIDE DEF r
<1>6. moved \in Seq(Moves) /\ block_locs \in [Blocks -> Sites \cup {NoSite}]
  BY <1>1 DEF Types
<1>7. Extends(moved', moved, r)
  BY <1>4, <1>5, <1>6, AppendExtends
<1>8. /\ block_locs'[Member] = Target /\ block_locs' \in [Blocks -> Sites \cup {NoSite}]
      /\ \A c \in Blocks : c # Member => block_locs'[c] = block_locs[c]
  BY <1>2, <1>4, <1>6
<1>9. Once(moved) /\ \A i \in DOMAIN moved : moved[i].blk # Member
  BY <1>1, <1>2 DEF Once, Recorded, Records, Displaced
<1>10. Undone' = Undone
  <2>1. Restored(block_locs', moved') = Restored(block_locs, moved)
    BY <1>5, <1>6, <1>7, <1>8, <1>9, RestoredExtend
  <2>2. Undone' = Restored(block_locs', moved')
    BY DEF Undone, Restored
  <2> QED
    BY <2>1, <2>2, UndoneRestored
<1>11. Types'
  BY <1>1, <1>7, <1>8, NextMemberTypes DEF Extends
<1>12. /\ Gone' = Gone \cup {Member}
       /\ \A c \in Blocks : Goal(c)' = Goal(c) /\ (InWay(c)' <=> InWay(c) \/ Undone[c] = Target)
       /\ OnLegalSites' /\ InitialInv' /\ StartLegal' /\ GridAgrees'
       /\ UnitInv' /\ GoalsLegal' /\ Located' /\ Moving'
  BY <1>1, <1>3, <1>8, <1>10, <1>11, Advance
<1>13. Displaced' = Displaced /\ GoalFree' = GoalFree /\ Member \in GoalFree
  BY <1>2, <1>3, <1>10, <1>12 DEF Displaced, GoalFree
<1>14. Recorded'
  <2>1. Records(moved, block_locs, Gone, Displaced, GoalFree)
    BY <1>1 DEF Recorded
  <2>2. Member \notin Gone \cup Displaced
    BY <1>2 DEF Displaced
  <2>3. \A i \in DOMAIN moved : moved[i].blk # Member => block_locs'[moved[i].blk] = block_locs[moved[i].blk]
    BY <1>6, <1>8, MoveTypes
  <2>4. Records(moved', block_locs', Gone', Displaced', GoalFree')
    BY <2>1, <2>2, <2>3, <1>5, <1>6, <1>7, <1>8, <1>12, <1>13, RecordsExtend
  <2> QED
    BY <2>4 DEF Recorded
<1> QED
  BY <1>10, <1>11, <1>12, <1>14 DEF IInv, Moving, Resting

LEMMA AppendTwo ==
  ASSUME NEW mv \in Seq(Moves), NEW r1 \in Moves, NEW r2 \in Moves
  PROVE  mv \o <<r1, r2>> = Append(Append(mv, r1), r2)
<1> DEFINE M == Moves
<1>1. mv \in Seq(M) /\ r1 \in M /\ r2 \in M
  OBVIOUS
<1> HIDE DEF M
<1> QED
  BY <1>1

LEMMA SwapWithInv ==
  ASSUME IInv, NEW c \in Blocks, SwapWith(c)
  PROVE  IInv' /\ Undone' = Undone
<1> DEFINE r1 == Move(Member, block_locs[Member], Target, FALSE)
           r2 == Move(c, Target, block_locs[Member], FALSE)
           mid  == Append(moved, r1)
           half == [block_locs EXCEPT ![Member] = Target]
<1>1. /\ Types /\ Annealing /\ StartLegal /\ GridAgrees /\ Recorded
      /\ phase = "moving" /\ Allowed /\ ~HitsMacro(grid_blocks[Target]) /\ NextMember
      /\ grid_blocks[Target] = c
  BY DEF SwapWith, IInv, Annealing, Moving
<1>2. /\ Member \in Blocks /\ InUnit(Member) /\ Member \notin Gone /\ ~InWay(Member)
      /\ block_locs[Member] = Undone[Member] /\ Undone[Member] \in Sites
      /\ Target = Goal(Member) /\ Target \in Sites
  BY <1>1, TargetFacts, LegalSites
<1>3. Undone[c] = Target /\ \A x \in Blocks : Undone[x] = Target => x = c
  BY <1>1, <1>2 DEF GridAgrees
<1>4. ~InUnit(c) /\ c \notin Gone /\ ~InWay(c) /\ block_locs[c] = Target /\ c # Member
  BY <1>1, <1>2, <1>3, TargetFacts
<1>5. moved \in Seq(Moves) /\ block_locs \in [Blocks -> Sites \cup {NoSite}]
  BY <1>1 DEF Types
<1>6. /\ r1 \in Moves /\ r1.blk = Member /\ r1.old = block_locs[Member]
      /\ r1.new = Target /\ r1.vacant = FALSE
  BY <1>2 DEF Move, Moves
<1>7. r2 \in Moves /\ r2.blk = c /\ r2.old = Target /\ r2.new = Undone[Member] /\ r2.vacant = FALSE
  BY <1>2 DEF Move, Moves
<1>8. /\ moved' = moved \o <<r1, r2>>
      /\ block_locs' = [block_locs EXCEPT ![c] = block_locs[Member], ![Member] = Target]
  BY DEF SwapWith
<1> HIDE DEF r1, r2
<1>9. moved' = Append(mid, r2)
  BY <1>5, <1>6, <1>7, <1>8, AppendTwo
<1>10. /\ half[Member] = Target /\ \A x \in Blocks : x # Member => half[x] = block_locs[x]
  BY <1>2, <1>5
<1>11. /\ block_locs' \in [Blocks -> Sites \cup {NoSite}]
       /\ block_locs'[Member] = Target /\ block_locs'[c] = Undone[Member]
       /\ \A x \in Blocks : x # Member /\ x # c => block_locs'[x] = block_locs[x]
  BY <1>2, <1>4, <1>5, <1>8
<1>12. Extends(mid, moved, r1) /\ mid \in Seq(Moves)
  BY <1>5, <1>6, AppendExtends DEF Extends
<1> HIDE DEF mid, half
<1>13. Extends(moved', mid, r2)
  BY <1>7, <1>9, <1>12, AppendExtends
<1>14. Once(moved) /\ \A i \in DOMAIN moved : moved[i].blk # Member /\ moved[i].blk # c
  BY <1>1, <1>2, <1>4 DEF Once, Recorded, Records, Displaced
<1>15. Once(mid) /\ Restored(half, mid) = Restored(block_locs, moved)
  BY <1>5, <1>6, <1>10, <1>12, <1>14, RestoredExtend
<1>16. \A i \in DOMAIN mid : mid[i].blk # c
  BY <1>4, <1>6, <1>12, <1>14 DEF Extends
<1>17. \A x \in Blocks : x # c => block_locs'[x] = half[x]
  BY <1>10, <1>11
<1>18. Undone' = Undone
  <2>1. /\ r2.old = half[r2.blk] /\ \A i \in DOMAIN mid : mid[i].blk # r2.blk
        /\ \A x \in Blocks : x # r2.blk => block_locs'[x] = half[x]
    BY <1>4, <1>7, <1>10, <1>16, <1>17
  <2>2. Restored(block_locs', moved') = Restored(half, mid)
    BY <2>1, <1>7, <1>12, <1>13, <1>15, RestoredExtend
  <2>3. Undone' = Restored(block_locs', moved')
    BY DEF Undone, Restored
  <2> QED
    BY <2>2, <2>3, <1>15, UndoneRestored
<1>19. Types'
  BY <1>1, <1>11, <1>13, NextMemberTypes DEF Extends
<1>20. /\ Gone' = Gone \cup {Member}
       /\ \A x \in Blocks : Goal(x)' = Goal(x) /\ (InWay(x)' <=> InWay(x) \/ Undone[x] = Target)
       /\ OnLegalSites' /\ InitialInv' /\ StartLegal' /\ GridAgrees'
       /\ UnitInv' /\ GoalsLegal' /\ Located' /\ Moving'
  BY <1>1, <1>3, <1>11, <1>18, <1>19, Advance
<1>21. Displaced' = Displaced \cup {c} /\ GoalFree' = GoalFree /\ Member \notin GoalFree
  BY <1>2, <1>3, <1>18, <1>20 DEF Displaced, GoalFree
<1>22. Recorded'
  <2>1. Records(moved, block_locs, Gone, Displaced, GoalFree)
    BY <1>1 DEF Recorded
  <2>2. Member \notin Gone \cup Displaced /\ c \notin Gone' \cup Displaced
    BY <1>2, <1>4, <1>20 DEF Displaced
  <2>3. \A i \in DOMAIN moved : moved[i].blk # Member => half[moved[i].blk] = block_locs[moved[i].blk]
    BY <1>5, <1>10, MoveTypes
  <2>4. Records(mid, half, Gone', Displaced, GoalFree)
    <3>1. /\ Gone' \cup Displaced = (Gone \cup Displaced) \cup {r1.blk}
          /\ \A x \in Gone \cup Displaced : x \in Gone' <=> x \in Gone
      BY <2>2, <1>6, <1>20
    <3>2. half[r1.blk] = r1.new /\ r1.blk \notin Gone \cup Displaced
          /\ (r1.vacant <=> r1.blk \in Gone' /\ r1.blk \in GoalFree)
      BY <2>2, <1>6, <1>10, <1>21
    <3>3. \A i \in DOMAIN moved : moved[i].blk # r1.blk => half[moved[i].blk] = block_locs[moved[i].blk]
      BY <2>3, <1>6
    <3> QED
      BY <2>1, <3>1, <3>2, <3>3, <1>5, <1>6, <1>12, RecordsExtend, SMTT(30)
  <2>5. \A i \in DOMAIN mid : mid[i].blk # c => block_locs'[mid[i].blk] = half[mid[i].blk]
    BY <1>12, <1>17, MoveTypes
  <2>6. Records(moved', block_locs', Gone', Displaced', GoalFree')
    BY <2>2, <2>4, <2>5, <1>7, <1>11, <1>12, <1>13, <1>21, RecordsExtend, SMTT(30)
  <2> QED
    BY <2>6 DEF Recorded
<1> QED
  BY <1>18, <1>19, <1>20, <1>22 DEF IInv, Moving, Resting

-----------------------------------------------------------------------------
(* In the middle of a move, and at its end.                                *)

\* The blocks of the unit go to sites that are not the unit's, and those in
\* their way come to the sites the unit has left: no two blocks meet.
LEMMA MidMove ==
  ASSUME IInv, Moving
  PROVE  /\ \A u \in Gone : u \in Blocks /\ InUnit(u) /\ Goal(u) # Undone[u]
         /\ \A b \in Blocks : block_locs[b] \in Sites /\ Undone[b] \in Sites
         /\ \A a, b \in Blocks : block_locs[a] = block_locs[b] => a = b
<1>1. Types /\ StartLegal /\ UnitInv /\ GoalsLegal /\ Located
  BY DEF IInv, Moving, Annealing
<1>2. PICK p \in Blocks : mover.unit = UnitOf(p) /\ Goal(p) \in LegalPos(BlockType[p])
                          /\ Goal(p) # Undone[p]
  BY <1>1 DEF UnitInv
<1>3. \A u \in Gone : u \in Blocks /\ InUnit(u)
  <2>1. mover.unit \in Seq(Blocks)
    BY <1>2, UnitFacts
  <2>2. mover.next \in 1..Len(mover.unit) + 1
    BY <1>1 DEF UnitInv
  <2>3. \A k \in 1..mover.next - 1 : k \in DOMAIN mover.unit /\ mover.unit[k] \in Blocks
    BY <2>1, <2>2
  <2> QED
    BY <2>3 DEF Gone, InUnit
<1>4. \A b \in Blocks : Undone[b] \in Sites /\ Undone[b] \in Vectors
  BY <1>1, LegalSites, SiteCoordinates DEF StartLegal
<1>5. mover.offset \in Vectors
  BY <1>1 DEF Types
<1>6. \A u \in Gone : Goal(u) # Undone[u]
  BY <1>2, <1>3, <1>4, <1>5, PlusNothing DEF Goal
<1>7. \A u \in Gone, v \in Gone : Goal(u) = Goal(v) => u = v
  <2>1. SUFFICES ASSUME NEW u \in Gone, NEW v \in Gone, Goal(u) = Goal(v) PROVE u = v
    OBVIOUS
  <2>2. Undone[u] = Undone[v]
    BY <2>1, <1>3, <1>4, <1>5, PlusCancel DEF Goal
  <2> QED
    BY <2>2, <1>1, <1>3 DEF StartLegal
<1>8. \A u \in Gone : Goal(u) \in Sites
  BY <1>1, LegalSites DEF GoalsLegal
<1>9. ASSUME NEW b \in Blocks
      PROVE  \/ b \in Gone /\ block_locs[b] = Goal(b)
             \/ \E u \in Gone : Undone[b] = Goal(u) /\ block_locs[b] = Undone[u]
             \/ b \notin Gone /\ ~InWay(b) /\ block_locs[b] = Undone[b]
  BY <1>1 DEF Located, InWay
<1>10. ASSUME NEW a \in Blocks, NEW b \in Blocks, block_locs[a] = block_locs[b]
       PROVE  a = b
  <2>1. ASSUME NEW x \in Gone, NEW y \in Gone PROVE Goal(x) # Undone[y]
    BY <1>1, <1>3 DEF GoalsLegal
  <2>2. \A x, y \in Blocks : Undone[x] = Undone[y] => x = y
    BY <1>1 DEF StartLegal
  <2>3. CASE a \in Gone /\ block_locs[a] = Goal(a)
    BY <2>1, <2>3, <1>7, <1>9, <1>10 DEF InWay
  <2>4. CASE \E u \in Gone : Undone[a] = Goal(u) /\ block_locs[a] = Undone[u]
    <3>1. PICK u \in Gone : Undone[a] = Goal(u) /\ block_locs[a] = Undone[u]
      BY <2>4
    <3>2. CASE b \in Gone /\ block_locs[b] = Goal(b)
      BY <2>1, <3>1, <3>2, <1>10
    <3>3. ASSUME NEW v \in Gone, Undone[b] = Goal(v), block_locs[b] = Undone[v] PROVE a = b
      BY <2>2, <3>1, <3>3, <1>3, <1>10
    <3>4. CASE b \notin Gone /\ ~InWay(b) /\ block_locs[b] = Undone[b]
      BY <2>2, <3>1, <3>4, <1>3, <1>10
    <3> QED
      BY <3>2, <3>3, <3>4, <1>9
  <2>5. CASE a \notin Gone /\ ~InWay(a) /\ block_locs[a] = Undone[a]
    <3>1. CASE b \in Gone /\ block_locs[b] = Goal(b)
      BY <2>5, <3>1, <1>10 DEF InWay
    <3>2. ASSUME NEW v \in Gone, Undone[b] = Goal(v), block_locs[b] = Undone[v] PROVE a = b
      BY <2>2, <2>5, <3>2, <1>3, <1>10
    <3>3. CASE block_locs[b] = Undone[b]
      BY <2>2, <2>5, <3>3, <1>10
    <3> QED
      BY <3>1, <3>2, <3>3, <1>9
  <2> QED
    BY <2>3, <2>4, <2>5, <1>9
<1>11. \A b \in Blocks : block_locs[b] \in Sites
  BY <1>3, <1>4, <1>8, <1>9
<1> QED
  BY <1>3, <1>4, <1>6, <1>10, <1>11

LEMMA UndoInv ==
  ASSUME IInv, phase \in {"assess", "abort"}, Undo
  PROVE  IInv' /\ Undone' = Undone
<1>1. /\ block_locs' = Undone /\ moved' = <<>> /\ mover' = NoMove /\ phase' = "anneal"
      /\ UNCHANGED <<is_fixed, grid_blocks>>
  BY DEF Undo, EndOfMove
<1>2. Types /\ StartLegal /\ GridAgrees
  BY DEF IInv, Annealing
<1>3. \A b \in Blocks : Undone[b] \in Sites
  BY <1>2, LegalSites DEF StartLegal
<1>4. Undone \in [Blocks -> Sites \cup {NoSite}]
  <2>1. Undone = [b \in Blocks |-> Undone[b]]
    BY DEF Undone
  <2> QED
    BY <1>3, <2>1
<1>5. Undone' = Undone
  <2>1. Undone' = Restored(block_locs', <<>>)
    BY <1>1 DEF Undone, Restored
  <2> QED
    BY <1>1, <1>4, <2>1, RestoredNone
<1>6. Types'
  BY <1>1, <1>2, <1>4 DEF Types, NoMove, Phases, Vectors
<1>7. OnLegalSites' /\ StartLegal' /\ GridAgrees'
  BY <1>1, <1>2, <1>5 DEF OnLegalSites, StartLegal, GridAgrees, Annealing
<1> QED
  BY <1>1, <1>5, <1>6, <1>7 DEF IInv, InitialInv, Annealing, Resting, Moving

\* The macro being moved is moved as a whole, the others do not move.
LEMMA AcceptWhole ==
  ASSUME IInv, phase = "assess", NEW m \in DOMAIN Macros, NEW i \in DOMAIN Members(m)
  PROVE  block_locs[Members(m)[i]] = Plus(block_locs[Members(m)[1]], Offset(m, i))
<1>1. Types /\ StartLegal /\ UnitInv /\ GoalsLegal /\ Located /\ Moving
  BY DEF IInv, Moving, Annealing
<1>2. PICK p \in Blocks : mover.unit = UnitOf(p)
  BY <1>1 DEF UnitInv
<1>3. Gone = {mover.unit[k] : k \in DOMAIN mover.unit}
  <2>1. mover.unit \in Seq(Blocks) /\ mover.next = Len(mover.unit) + 1
    BY <1>1, <1>2, UnitFacts DEF UnitInv
  <2>2. 1..mover.next - 1 = DOMAIN mover.unit
    BY <2>1
  <2> QED
    BY <2>2 DEF Gone
<1>4. /\ 1 \in DOMAIN Members(m) /\ \A k \in DOMAIN Members(m) : Members(m)[k] \in Blocks
      /\ Offset(m, i) \in Vectors
  BY MemberTypes
<1>5. \A k \in DOMAIN Members(m) : InMacro(Members(m)[k])
  BY DEF InMacro
<1>6. Undone[Members(m)[i]] = Plus(Undone[Members(m)[1]], Offset(m, i))
  BY <1>1 DEF StartLegal
<1>7. CASE mover.unit = Members(m)
  <2>1. Members(m)[i] \in Gone /\ Members(m)[1] \in Gone
    BY <1>3, <1>4, <1>7
  <2>2. Undone[Members(m)[1]] \in Vectors /\ mover.offset \in Vectors
    BY <1>1, <1>4, MidMove, SiteCoordinates DEF Types
  <2>3. Goal(Members(m)[i]) = Plus(Goal(Members(m)[1]), Offset(m, i))
    BY <2>2, <1>4, <1>6, PlusSwap DEF Goal
  <2> QED
    BY <2>1, <2>3, <1>1 DEF Located
<1>8. CASE mover.unit # Members(m)
  <2>1. ASSUME NEW k \in DOMAIN Members(m), Members(m)[k] \in Gone PROVE FALSE
    <3>1. PICK j \in DOMAIN mover.unit : mover.unit[j] = Members(m)[k]
      BY <2>1, <1>3
    <3>2. CASE InMacro(p)
      <4>1. PICK n \in DOMAIN Macros : mover.unit = Members(n)
        BY <1>2, <3>2, UnitFacts
      <4>2. n = m
        BY <3>1, <4>1, MembersApart
      <4> QED
        BY <4>1, <4>2, <1>8
    <3>3. CASE ~InMacro(p)
      BY <1>2, <1>5, <3>1, <3>3, UnitFacts
    <3> QED
      BY <3>2, <3>3
  <2>2. ASSUME NEW k \in DOMAIN Members(m) PROVE block_locs[Members(m)[k]] = Undone[Members(m)[k]]
    BY <2>1, <1>1, <1>4, <1>5 DEF Located, GoalsLegal, InWay
  <2> QED
    BY <2>2, <1>4, <1>6
<1> QED
  BY <1>7, <1>8

\* Every site that the move changes is changed by one record, so that the order
\* in which they are committed does not matter, and ends as block_locs says.
LEMMA CommitAgrees ==
  ASSUME IInv, phase = "assess", NEW b \in Blocks, NEW s \in Sites
  PROVE  /\ Committed[s] = b <=> block_locs[b] = s
         /\ Committed[s] \in Blocks \cup {EMPTY}
<1> DEFINE I  == {i \in DOMAIN moved : s = moved[i].new \/ s \in Cleared(i)}
           Way == Gone \cup Displaced
<1>1. /\ Types /\ Annealing /\ StartLegal /\ GridAgrees /\ GoalsLegal /\ Located /\ Moving
      /\ Records(moved, block_locs, Gone, Displaced, GoalFree)
  BY DEF IInv, Moving, Annealing, Recorded
<1>2. moved \in Seq(Moves) /\ Once(moved) /\ \A i \in DOMAIN moved : moved[i].blk \in Blocks
  BY <1>1, MoveTypes DEF Types, Records, Once
<1>3. \A i \in DOMAIN moved : /\ moved[i].new = block_locs[moved[i].blk]
                              /\ moved[i].old = Undone[moved[i].blk]
                              /\ moved[i].blk \in Way
                              /\ moved[i].vacant <=> moved[i].blk \in Gone /\ moved[i].blk \in GoalFree
  BY <1>1, <1>2, RestoredOnce, UndoneRestored DEF Records
<1>4. /\ \A u \in Gone : u \in Blocks /\ InUnit(u) /\ Goal(u) # Undone[u]
      /\ \A x \in Blocks : block_locs[x] \in Sites
      /\ \A x, y \in Blocks : block_locs[x] = block_locs[y] => x = y
      /\ \A x, y \in Blocks : Undone[x] = Undone[y] => x = y
  BY <1>1, MidMove DEF StartLegal
<1>5. \A x \in Way : \E i \in DOMAIN moved : moved[i].blk = x
  BY <1>1 DEF Records
<1>6. \A x \in Blocks : x \notin Way => block_locs[x] = Undone[x]
  BY <1>1 DEF Located, Displaced
<1>7. \A i, j \in DOMAIN moved : moved[i].blk = moved[j].blk => i = j
  BY <1>2 DEF Once
<1>8. ASSUME NEW x \in Gone, x \in GoalFree, NEW y \in Blocks
      PROVE  block_locs[y] # Undone[x]
  <2>1. SUFFICES ASSUME block_locs[y] = Undone[x] PROVE FALSE
    OBVIOUS
  <2>2. CASE y \in Gone
    <3>1. Undone[x] = Goal(y)
      BY <2>1, <2>2, <1>1 DEF Located
    <3> QED
      BY <2>2, <3>1, <1>1, <1>4 DEF GoalsLegal
  <2>3. CASE y \in Displaced
    <3>1. PICK u \in Gone : Undone[y] = Goal(u) /\ block_locs[y] = Undone[u]
      BY <2>3, <1>1 DEF Displaced, InWay, Located
    <3>2. u = x
      BY <2>1, <3>1, <1>4
    <3> QED
      BY <1>8, <3>1, <3>2 DEF GoalFree
  <2>4. CASE y \notin Way
    BY <2>1, <2>4, <1>4, <1>6
  <2> QED
    BY <2>2, <2>3, <2>4
<1>9. ASSUME NEW i \in DOMAIN moved, s \in Cleared(i)
      PROVE  moved[i].blk \in Gone /\ moved[i].blk \in GoalFree /\ Undone[moved[i].blk] = s
  BY <1>3, <1>9 DEF Cleared
<1>10. \A i, j \in DOMAIN moved : ~(s = moved[i].new /\ s \in Cleared(j))
  BY <1>2, <1>3, <1>8, <1>9
<1>11. \A i, j \in I : i = j
  BY <1>2, <1>3, <1>4, <1>7, <1>9, <1>10
<1>12. Committed[s] = IF I = {} THEN grid_blocks[s]
                      ELSE IF s \in Cleared(Last(I)) THEN EMPTY ELSE moved[Last(I)].blk
  BY DEF Committed
<1>13. CASE I # {}
  <2>1. PICK j \in DOMAIN moved : I = {j}
    BY <1>11, <1>13
  <2>2. Last({j}) = j
    <3>1. j \in Int
      BY <1>2
    <3> QED
      BY <3>1 DEF Last
  <2>3. Committed[s] = IF s \in Cleared(j) THEN EMPTY ELSE moved[j].blk
    <3> HIDE DEF I
    <3> QED
      BY <1>12, <1>13, <2>1, <2>2
  <2>4. CASE s \in Cleared(j)
    BY <2>3, <2>4, <1>8, <1>9, BlockNumbers
  <2>5. CASE s \notin Cleared(j)
    <3>1. s = block_locs[moved[j].blk]
      BY <2>1, <2>5, <1>3
    <3> QED
      BY <2>3, <2>5, <3>1, <1>2, <1>4
  <2> QED
    BY <2>4, <2>5
<1>14. CASE I = {}
  <2>1. Committed[s] = b <=> Undone[b] = s
    BY <1>1, <1>12, <1>14 DEF GridAgrees
  <2>2. \A i \in DOMAIN moved : block_locs[moved[i].blk] # s /\ s \notin Cleared(i)
    BY <1>3, <1>14
  <2>6. Committed[s] \in Blocks \cup {EMPTY}
    BY <1>1, <1>12, <1>14 DEF Types
  <2>3. \A x \in Way : block_locs[x] # s
    BY <1>5, <2>2
  <2>4. CASE b \notin Way
    BY <2>1, <2>4, <2>6, <1>6
  <2>5. CASE b \in Way
    <3>1. Undone[b] # s
      <4>1. CASE b \in Displaced
        <5>1. PICK u \in Gone : Undone[b] = Goal(u)
          BY <4>1 DEF Displaced, InWay
        <5> QED
          BY <5>1, <2>3, <1>1 DEF Located
      <4>2. CASE b \in Gone /\ b \in GoalFree
        <5>1. PICK i \in DOMAIN moved : moved[i].blk = b
          BY <2>5, <1>5
        <5> QED
          BY <4>2, <5>1, <2>2, <1>3 DEF Cleared
      <4>3. CASE b \in Gone /\ b \notin GoalFree
        <5>1. PICK c \in Blocks : Undone[c] = Goal(b)
          BY <4>3 DEF GoalFree
        <5>2. block_locs[c] = Undone[b] /\ c \in Way
          BY <4>3, <5>1, <1>1 DEF Located, Displaced, InWay
        <5> QED
          BY <5>2, <2>3
      <4> QED
        BY <2>5, <4>1, <4>2, <4>3
    <3> QED
      BY <2>1, <2>3, <2>5, <2>6, <3>1
  <2> QED
    BY <2>4, <2>5
<1> QED
  BY <1>13, <1>14

LEMMA AcceptInv ==
  ASSUME IInv, Accept
  PROVE  IInv' /\ Undone' = block_locs
<1>1. /\ phase = "assess" /\ Moving /\ grid_blocks' = Committed
      /\ moved' = <<>> /\ mover' = NoMove /\ phase' = "anneal"
      /\ UNCHANGED <<block_locs, is_fixed>>
  BY DEF Accept, EndOfMove, Moving
<1>2. Types /\ OnLegalSites
  BY DEF IInv
<1>3. /\ \A b \in Blocks : block_locs[b] \in Sites
      /\ \A a, b \in Blocks : block_locs[a] = block_locs[b] => a = b
  BY <1>1, MidMove
<1>4. Undone' = block_locs
  <2>1. Undone' = Restored(block_locs', <<>>)
    BY <1>1 DEF Undone, Restored
  <2> QED
    BY <1>1, <1>2, <2>1, RestoredNone DEF Types
<1>5. Committed \in [Sites -> Blocks \cup {EMPTY}]
  <2>1. \A s \in Sites : Committed[s] \in Blocks \cup {EMPTY}
    <3>1. CASE Blocks = {}
      <4>1. DOMAIN moved = {}
        BY <1>2, <3>1, MoveTypes DEF Types
      <4> QED
        BY <4>1, <1>2 DEF Committed, Types
    <3>2. CASE Blocks # {}
      BY <3>2, <1>1, CommitAgrees
    <3> QED
      BY <3>1, <3>2
  <2> QED
    BY <2>1 DEF Committed
<1>6. Types'
  BY <1>1, <1>2, <1>5 DEF Types, NoMove, Phases, Vectors
<1>7. OnLegalSites'
  BY <1>1, <1>2 DEF OnLegalSites, Placed
<1>8. StartLegal'
  <2>1. \A b \in Blocks : block_locs[b] \in LegalPos(BlockType[b])
    BY <1>2, <1>3, SiteCoordinates DEF OnLegalSites, Placed
  <2> QED
    BY <2>1, <1>1, <1>3, <1>4, AcceptWhole DEF StartLegal
<1>9. GridAgrees'
  BY <1>1, <1>4, CommitAgrees DEF GridAgrees
<1> QED
  BY <1>1, <1>4, <1>6, <1>7, <1>8, <1>9 DEF IInv, InitialInv, Annealing, Resting, Moving

-----------------------------------------------------------------------------
(* Every step keeps the invariant, and what follows from it.               *)

LEMMA NextInv == IInv /\ [Next]_vars => IInv'
<1> SUFFICES ASSUME IInv, [Next]_vars PROVE IInv'
  OBVIOUS
<1>1. CASE PlaceInitially
  BY <1>1, PlaceMacroInv, PlaceBlockInv, EndedInv
     DEF PlaceInitially, MacroOverruns, PlacementFails
<1>2. CASE StartAnnealing
  BY <1>2, StartAnnealingInv
<1>3. CASE FinishAnnealing
  BY <1>3, FinishAnnealingInv
<1>4. ASSUME NEW b \in Blocks, NEW to \in LegalPos(BlockType[b]), Propose(b, to)
      PROVE  IInv'
  BY <1>4, ProposeInv
<1>5. CASE LeaveChip \/ HitMacro
  BY <1>5, StuckInv DEF LeaveChip, HitMacro
<1>6. CASE MoveToEmpty
  BY <1>6, MoveToEmptyInv
<1>7. ASSUME NEW c \in Blocks, SwapWith(c)
      PROVE  IInv'
  BY <1>7, SwapWithInv
<1>8. CASE Accept
  BY <1>8, AcceptInv
<1>9. CASE Reject \/ Abort
  BY <1>9, UndoInv DEF Reject, Abort
<1>10. CASE UNCHANGED vars
  <2>1. UNCHANGED <<block_locs, is_fixed, grid_blocks, moved, mover, phase>>
    BY <1>10 DEF vars
  <2>2. Undone' = Undone /\ Gone' = Gone /\ \A b : (InUnit(b)' <=> InUnit(b))
    BY <2>1 DEF Undone, Gone, InUnit
  <2>3. (\A b : Goal(b)' = Goal(b)) /\ (\A b : InWay(b)' <=> InWay(b))
    BY <2>1, <2>2 DEF Goal, InWay
  <2>4. Moving => UnitInv' /\ GoalsLegal' /\ Located' /\ Recorded'
    BY <2>1, <2>2, <2>3
       DEF IInv, UnitInv, GoalsLegal, Located, Recorded, Displaced, GoalFree
  <2> QED
    BY <2>1, <2>2, <2>4
       DEF IInv, Types, OnLegalSites, Placed, InitialInv, Annealing, Resting, Moving,
           StartLegal, GridAgrees
<1> QED
  BY <1>1, <1>2, <1>3, <1>4, <1>5, <1>6, <1>7, <1>8, <1>9, <1>10 DEF Next

THEOREM PlacementInductive == Spec => []IInv
<1> QED
  BY InitInv, NextInv, PTL DEF Spec

LEMMA DistinctFromIInv == IInv => SitesDistinct
<1> SUFFICES ASSUME IInv, Annealing PROVE \A a, b \in Blocks : block_locs[a] = block_locs[b] => a = b
  BY DEF SitesDistinct
<1>1. CASE Resting
  BY <1>1, AtRest DEF IInv, StartLegal
<1>2. CASE Moving
  BY <1>2, MidMove
<1> QED
  BY <1>1, <1>2 DEF Annealing, Resting, Moving

\* For every chip, circuit and set of macros: once check_place has passed the
\* initial placement, no two blocks are ever on one site, in the middle of the
\* move of a macro included.
THEOREM NoTwoBlocksOnOneSite == Spec => []SitesDistinct
<1> QED
  BY PlacementInductive, DistinctFromIInv, PTL

\* Every block that is placed is on a tile of its type, whatever place within
\* the tile its macro carries it to: find_affected_blocks need not check it.
THEOREM PlacementLegal == Spec => []OnLegalSites
<1>1. IInv => OnLegalSites
  BY DEF IInv
<1> QED
  BY <1>1, PlacementInductive, PTL

\* At any point of a move, undoing it brings the locations back to the grid,
\* and a move that is kept brings the grid to the locations, although records
\* are committed one by one, in the order of the move.
THEOREM GridAndLocationsAgree == Spec => []GridAgrees
<1>1. IInv => GridAgrees
  BY DEF IInv, GridAgrees
<1> QED
  BY <1>1, PlacementInductive, PTL

-----------------------------------------------------------------------------
(* The usage counts and check_place.                                       *)

\* grid[x][y].usage is the number of blocks the grid shows on the tile.
UsageExact == usage = [t \in Tiles |-> Cardinality(OnTile(t))]

LEMMA SameSize ==
  ASSUME NEW I, IsFiniteSet(I), NEW S, NEW f \in [I -> S],
         \A i, j \in I : f[i] = f[j] => i = j,
         \A s \in S : \E i \in I : f[i] = s
  PROVE  IsFiniteSet(S) /\ Cardinality(S) = Cardinality(I)
<1>1. f \in Bijection(I, S)
  BY Fun_IsBij
<1>2. ExistsBijection(I, S)
  BY <1>1 DEF ExistsBijection
<1> QED
  BY <1>2, FS_Bijection

LEMMA Replaced ==
  ASSUME NEW S, IsFiniteSet(S), NEW L, L \subseteq S,
         NEW T, IsFiniteSet(T), T \cap S = {}
  PROVE  Cardinality((S \ L) \cup T)
           = Cardinality(S) - Cardinality(L) + Cardinality(T)
<1>1. /\ IsFiniteSet(S \ L)
      /\ Cardinality(S \ L) = Cardinality(S) - Cardinality(L)
  <2>1. S \cap L = L
    OBVIOUS
  <2> QED
    BY <2>1, FS_Difference
<1>2. (S \ L) \cap T = {}
  OBVIOUS
<1>3. Cardinality((S \ L) \cup T)
        = Cardinality(S \ L) + Cardinality(T) - Cardinality((S \ L) \cap T)
  BY <1>1, FS_Union
<1>4. /\ Cardinality((S \ L) \cap T) = 0
      /\ Cardinality(S \ L) \in Nat /\ Cardinality(T) \in Nat
  BY <1>1, <1>2, FS_EmptySet, FS_CardinalityType
<1> QED
  BY <1>1, <1>3, <1>4

\* A tile shows no more blocks than it has places.
LEMMA OnTileBound ==
  ASSUME NEW t \in Tiles
  PROVE  /\ IsFiniteSet(OnTile(t))
         /\ Cardinality(OnTile(t)) \in Nat
         /\ Cardinality(OnTile(t)) <= Capacity[TileType[t]]
<1> DEFINE cap    == Capacity[TileType[t]]
           Places == {<<t[1], t[2], z>> : z \in 0..cap-1}
           f      == [z \in 0..cap-1 |-> <<t[1], t[2], z>>]
<1>1. cap \in Nat
  BY GridAssumption
<1>2. IsFiniteSet(0..cap-1) /\ Cardinality(0..cap-1) = cap
  <2>1. /\ IsFiniteSet(0..cap-1)
        /\ Cardinality(0..cap-1) = IF 0 > cap-1 THEN 0 ELSE (cap-1)-0+1
    <3>1. cap - 1 \in Int
      BY <1>1
    <3> HIDE DEF cap
    <3> QED
      BY <3>1, FS_Interval
  <2> QED
    BY <1>1, <2>1
<1>3. IsFiniteSet(Places) /\ Cardinality(Places) <= cap
  <2>1. f \in Surjection(0..cap-1, Places)
    BY DEF Surjection
  <2> QED
    BY <1>2, <2>1, FS_Surjection
<1>4. OnTile(t) \in SUBSET Places
  <2>1. ASSUME NEW s \in OnTile(t) PROVE s \in Places
    <3>1. s \in Sites /\ Tile(s) = t
      BY DEF OnTile
    <3>2. s \in Vectors /\ s[3] \in 0..cap-1
      BY <3>1, SiteCoordinates
    <3>3. s = <<t[1], t[2], s[3]>>
      BY <3>1, <3>2 DEF Vectors, Tile
    <3> QED
      BY <3>2, <3>3
  <2> QED
    BY <2>1
<1>5. /\ IsFiniteSet(OnTile(t))
      /\ Cardinality(OnTile(t)) <= Cardinality(Places)
  BY <1>3, <1>4, FS_Subset
<1>6. Cardinality(OnTile(t)) \in Nat /\ Cardinality(Places) \in Nat
  BY <1>3, <1>5, FS_CardinalityType
<1> QED
  BY <1>1, <1>3, <1>5, <1>6

-----------------------------------------------------------------------------
(* The initial placement.                                                  *)

LEMMA PlaceBlockUsage ==
  ASSUME IInv, UsageExact, NEW b \in Blocks, NEW s \in LegalPos(BlockType[b]),
         PlaceBlock(b, s)
  PROVE  UsageExact'
<1>1. /\ s \in Sites /\ Tile(s) \in Tiles /\ grid_blocks[s] = EMPTY
      /\ \A r \in Sites : grid_blocks'[r] = IF r = s THEN b ELSE grid_blocks[r]
  BY LegalSites, SiteCoordinates DEF PlaceBlock, IInv, Types
<1>2. ASSUME NEW t \in Tiles
      PROVE  usage'[t] = Cardinality(OnTile(t)')
  <2>1. OnTile(t)' = IF Tile(s) = t THEN OnTile(t) \cup {s} ELSE OnTile(t)
    BY <1>1, BlockNumbers DEF OnTile
  <2>2. usage'[t] = IF Tile(s) = t THEN usage[t] + 1 ELSE usage[t]
    BY <1>1 DEF PlaceBlock, UsageExact
  <2>3. s \notin OnTile(t)
    BY <1>1 DEF OnTile
  <2>4. Cardinality(OnTile(t) \cup {s}) = Cardinality(OnTile(t)) + 1
    BY <2>3, OnTileBound, FS_AddElement
  <2> QED
    BY <2>1, <2>2, <2>4 DEF UsageExact
<1>3. usage' = [t \in Tiles |-> usage'[t]]
  BY DEF PlaceBlock, UsageExact
<1> QED
  BY <1>2, <1>3 DEF UsageExact

\* The members of a macro go to different sites, which were empty.
LEMMA PlaceMacroUsage ==
  ASSUME IInv, UsageExact, NEW m \in DOMAIN Macros, NEW head \in HeadSites(m),
         PlaceMacro(m, head)
  PROVE  UsageExact'
<1> DEFINE at(i) == SiteOf(m, head, i)
<1>1. \A i \in DOMAIN Members(m) : at(i) \in Sites /\ grid_blocks[at(i)] = EMPTY
  BY DEF PlaceMacro, Fits, Vacant
<1>2. \A i, j \in DOMAIN Members(m) : at(i) = at(j) => i = j
  BY MembersSpread, SiteCoordinates, LegalSites DEF HeadSites
<1>3. ASSUME NEW s \in Sites
      PROVE  grid_blocks'[s] # EMPTY <=>
               grid_blocks[s] # EMPTY \/ \E i \in DOMAIN Members(m) : at(i) = s
  <2> DEFINE On == {i \in DOMAIN Members(m) : at(i) = s}
  <2>1. grid_blocks'[s] = IF On = {} THEN grid_blocks[s]
                          ELSE Members(m)[CHOOSE i \in On : \A k \in On : k <= i]
    BY DEF PlaceMacro
  <2>2. ASSUME NEW i \in On
        PROVE  grid_blocks'[s] = Members(m)[i] /\ Members(m)[i] # EMPTY
    <3>1. \A k \in On : k = i
      BY <1>2
    <3>2. i <= i /\ Members(m)[i] # EMPTY
      BY MemberTypes, BlockNumbers
    <3> QED
      BY <2>1, <3>1, <3>2
  <2> QED
    BY <2>1, <2>2
<1>4. ASSUME NEW t \in Tiles
      PROVE  usage'[t] = Cardinality(OnTile(t)')
  <2> DEFINE I == {i \in DOMAIN Members(m) : Tile(at(i)) = t}
             T == {at(i) : i \in I}
             f == [i \in I |-> at(i)]
  <2>1. usage'[t] = Cardinality(OnTile(t)) + Cardinality(I)
    BY DEF PlaceMacro, UsageExact
  <2>2. OnTile(t)' = OnTile(t) \cup T /\ OnTile(t) \cap T = {}
    BY <1>1, <1>3 DEF OnTile
  <2>3. IsFiniteSet(I)
    <3>1. DOMAIN Members(m) = 1..Len(Members(m)) /\ Len(Members(m)) \in Nat
      BY MemberTypes
    <3>2. I \in SUBSET (1..Len(Members(m)))
      BY <3>1
    <3>3. IsFiniteSet(1..Len(Members(m)))
      BY <3>1, FS_Interval
    <3> HIDE DEF I
    <3> QED
      BY <3>2, <3>3, FS_Subset
  <2>4. IsFiniteSet(T) /\ Cardinality(T) = Cardinality(I)
    <3>1. f \in [I -> T] /\ \A s \in T : \E i \in I : f[i] = s
      OBVIOUS
    <3>2. \A i, j \in I : f[i] = f[j] => i = j
      BY <1>2
    <3> HIDE DEF f, T, I
    <3> QED
      BY <2>3, <3>1, <3>2, SameSize
  <2> HIDE DEF I, T
  <2>5. Cardinality(OnTile(t) \cup T) = Cardinality(OnTile(t)) + Cardinality(T)
    <3>1. Cardinality(OnTile(t) \cup T)
            = Cardinality(OnTile(t)) + Cardinality(T) - Cardinality(OnTile(t) \cap T)
      BY <2>4, OnTileBound, FS_Union
    <3>2. Cardinality(OnTile(t)) \in Nat /\ Cardinality(T) \in Nat
      BY <2>4, OnTileBound, FS_CardinalityType
    <3> QED
      BY <2>2, <3>1, <3>2, FS_EmptySet
  <2> QED
    BY <2>1, <2>2, <2>4, <2>5
<1> QED
  BY <1>4 DEF UsageExact, PlaceMacro

-----------------------------------------------------------------------------
(* Accepting a move.                                                       *)

\* Records of blocks that went to an empty site of a tile, or left one for an
\* empty site; and those sites.
Arrivals(t)   == {i \in DOMAIN moved : moved[i].vacant /\ Tile(moved[i].new) = t}
Departures(t) == {i \in DOMAIN moved : moved[i].vacant /\ Tile(moved[i].old) = t}
Taken(t)      == {moved[i].new : i \in Arrivals(t)}
Vacated(t)       == {moved[i].old : i \in Departures(t)}

\* What the records say at the end of a move.
LEMMA RecordFacts ==
  ASSUME IInv, phase = "assess"
  PROVE  /\ moved \in Seq(Moves)
         /\ \A i \in DOMAIN moved :
              /\ moved[i].blk \in Blocks
              /\ moved[i].new \in Sites /\ moved[i].old \in Sites
              /\ moved[i].new = block_locs[moved[i].blk]
              /\ moved[i].old = Undone[moved[i].blk]
              /\ moved[i].vacant <=> moved[i].blk \in Gone /\ moved[i].blk \in GoalFree
         /\ \A i, j \in DOMAIN moved : moved[i].blk = moved[j].blk => i = j
         /\ \A b \in Gone \cup Displaced : \E i \in DOMAIN moved : moved[i].blk = b
<1>1. Types /\ Records(moved, block_locs, Gone, Displaced, GoalFree)
  BY DEF IInv, Moving, Recorded
<1>2. moved \in Seq(Moves) /\ Once(moved)
  BY <1>1 DEF Types, Records, Once
<1>3. \A i \in DOMAIN moved : moved[i] \in Moves /\ moved[i].blk \in Blocks
  BY <1>2, MoveTypes
<1>4. \A i \in DOMAIN moved : moved[i].new \in Sites /\ moved[i].old \in Sites
  BY <1>3 DEF Moves
<1>5. \A i \in DOMAIN moved : moved[i].old = Undone[moved[i].blk]
  BY <1>2, RestoredOnce, UndoneRestored
<1> QED
  BY <1>1, <1>2, <1>3, <1>4, <1>5 DEF Records, Once

\* Where blocks are before and after.
LEMMA BeforeAndAfter ==
  ASSUME IInv, phase = "assess"
  PROVE  /\ \A b \in Blocks : block_locs[b] \in Sites /\ Undone[b] \in Sites
         /\ \A a, b \in Blocks : block_locs[a] = block_locs[b] => a = b
         /\ \A a, b \in Blocks : Undone[a] = Undone[b] => a = b
         /\ \A s \in Sites : grid_blocks[s] # EMPTY <=> \E b \in Blocks : Undone[b] = s
         /\ \A u \in Gone : /\ u \in Blocks /\ InUnit(u)
                           /\ Goal(u) # Undone[u] /\ block_locs[u] = Goal(u)
         /\ \A u \in Gone, c \in Blocks :
              Undone[c] = Goal(u) => block_locs[c] = Undone[u] /\ ~InUnit(c)
         /\ \A b \in Blocks : b \notin Gone \cup Displaced => block_locs[b] = Undone[b]
<1>1. /\ Types /\ Annealing /\ StartLegal /\ GridAgrees /\ GoalsLegal
      /\ Located /\ Moving
  BY DEF IInv, Moving, Annealing
<1>2. /\ \A u \in Gone : u \in Blocks /\ InUnit(u) /\ Goal(u) # Undone[u]
      /\ \A b \in Blocks : block_locs[b] \in Sites /\ Undone[b] \in Sites
      /\ \A a, b \in Blocks : block_locs[a] = block_locs[b] => a = b
  BY <1>1, MidMove
<1>3. \A s \in Sites : grid_blocks[s] # EMPTY <=> \E b \in Blocks : Undone[b] = s
  BY <1>1, BlockNumbers DEF GridAgrees, Types
<1>4. /\ \A u \in Gone : block_locs[u] = Goal(u)
      /\ \A u \in Gone, c \in Blocks :
           Undone[c] = Goal(u) => block_locs[c] = Undone[u] /\ ~InUnit(c)
      /\ \A b \in Blocks : b \notin Gone \cup Displaced => block_locs[b] = Undone[b]
  BY <1>1 DEF Located, GoalsLegal, Displaced
<1>5. \A a, b \in Blocks : Undone[a] = Undone[b] => a = b
  BY <1>1 DEF StartLegal
<1> QED
  BY <1>2, <1>3, <1>4, <1>5

\* The sites taken were empty, the sites left were not, and no block stands on
\* a site that was left.
LEMMA TakenAndLeft ==
  ASSUME IInv, phase = "assess", NEW t \in Tiles
  PROVE  /\ Taken(t) \cap OnTile(t) = {}
         /\ Vacated(t) \subseteq OnTile(t)
         /\ {s \in Sites : Tile(s) = t /\ \E b \in Blocks : block_locs[b] = s}
              = (OnTile(t) \ Vacated(t)) \cup Taken(t)
<1>1. ASSUME NEW s \in Taken(t)
      PROVE  /\ s \in Sites /\ Tile(s) = t /\ s \notin OnTile(t)
             /\ \E b \in Blocks : block_locs[b] = s
  <2>1. PICK i \in DOMAIN moved : moved[i].vacant /\ Tile(s) = t /\ s = moved[i].new
    BY DEF Taken, Arrivals
  <2>2. /\ moved[i].blk \in Gone /\ moved[i].blk \in GoalFree
        /\ s = block_locs[moved[i].blk] /\ s \in Sites
    BY <2>1, RecordFacts
  <2>3. s = Goal(moved[i].blk) /\ moved[i].blk \in Blocks
    BY <2>2, BeforeAndAfter
  <2>4. ~ \E b \in Blocks : Undone[b] = s
    BY <2>2, <2>3 DEF GoalFree
  <2>5. grid_blocks[s] = EMPTY
    BY <2>2, <2>4, BeforeAndAfter
  <2> QED
    BY <2>1, <2>2, <2>3, <2>5 DEF OnTile
<1>2. ASSUME NEW s \in Vacated(t)
      PROVE  s \in OnTile(t) /\ ~ \E b \in Blocks : block_locs[b] = s
  <2>1. PICK i \in DOMAIN moved : moved[i].vacant /\ Tile(s) = t /\ s = moved[i].old
    BY DEF Vacated, Departures
  <2>2. PICK u \in Gone : /\ u = moved[i].blk /\ u \in GoalFree
                          /\ s = Undone[u] /\ s \in Sites /\ u \in Blocks
    BY <2>1, RecordFacts
  <2>3. s \in OnTile(t)
    BY <2>1, <2>2, BeforeAndAfter DEF OnTile
  <2>4. ASSUME NEW b \in Blocks, block_locs[b] = s PROVE FALSE
    <3>1. CASE b \in Gone
      BY <2>2, <2>4, <3>1, BeforeAndAfter
    <3>2. CASE b \in Displaced
      <4>1. PICK v \in Gone : Undone[b] = Goal(v)
        BY <3>2 DEF Displaced, InWay
      <4>2. block_locs[b] = Undone[v] /\ v \in Blocks
        BY <4>1, BeforeAndAfter
      <4>3. v = u
        <5>1. Undone[v] = Undone[u]
          BY <2>2, <2>4, <4>2
        <5> QED
          BY <2>2, <4>2, <5>1, BeforeAndAfter
      <4> QED
        BY <2>2, <4>1, <4>3 DEF GoalFree
    <3>3. CASE b \notin Gone \cup Displaced
      <4>1. Undone[b] = Undone[u]
        BY <2>2, <2>4, <3>3, BeforeAndAfter
      <4> QED
        BY <2>2, <3>3, <4>1, BeforeAndAfter
    <3> QED
      BY <3>1, <3>2, <3>3
  <2> QED
    BY <2>3, <2>4
<1>3. ASSUME NEW s \in Sites, Tile(s) = t, NEW b \in Blocks, block_locs[b] = s,
             s \notin Taken(t)
      PROVE  s \in OnTile(t)
  <2>1. CASE b \in Gone
    <3>1. PICK i \in DOMAIN moved : moved[i].blk = b
      BY <2>1, RecordFacts
    <3>2. ~moved[i].vacant
      <4>1. moved[i].new = s
        BY <1>3, <3>1, RecordFacts
      <4> QED
        BY <1>3, <4>1 DEF Taken, Arrivals
    <3>3. b \notin GoalFree
      BY <2>1, <3>1, <3>2, RecordFacts
    <3>4. PICK c \in Blocks : Undone[c] = Goal(b)
      BY <3>3 DEF GoalFree
    <3>5. Undone[c] = s
      BY <1>3, <2>1, <3>4, BeforeAndAfter
    <3> QED
      BY <1>3, <3>5, BeforeAndAfter DEF OnTile
  <2>2. CASE b \in Displaced
    <3>1. PICK u \in Gone : Undone[b] = Goal(u)
      BY <2>2 DEF Displaced, InWay
    <3>2. Undone[u] = s /\ u \in Blocks
      BY <1>3, <3>1, BeforeAndAfter
    <3> QED
      BY <1>3, <3>2, BeforeAndAfter DEF OnTile
  <2>3. CASE b \notin Gone \cup Displaced
    <3>1. Undone[b] = s
      BY <1>3, <2>3, BeforeAndAfter
    <3> QED
      BY <1>3, <3>1, BeforeAndAfter DEF OnTile
  <2> QED
    BY <2>1, <2>2, <2>3
<1>4. ASSUME NEW s \in OnTile(t), s \notin Vacated(t)
      PROVE  s \in Sites /\ Tile(s) = t /\ \E b \in Blocks : block_locs[b] = s
  <2>1. s \in Sites /\ Tile(s) = t /\ grid_blocks[s] # EMPTY
    BY DEF OnTile
  <2>2. PICK c \in Blocks : Undone[c] = s
    BY <2>1, BeforeAndAfter
  <2>3. CASE c \in Gone
    <3>1. PICK i \in DOMAIN moved : moved[i].blk = c
      BY <2>3, RecordFacts
    <3>2. ~moved[i].vacant
      <4>1. moved[i].old = s
        BY <2>2, <3>1, RecordFacts
      <4> QED
        BY <1>4, <2>1, <4>1 DEF Vacated, Departures
    <3>3. c \notin GoalFree
      BY <2>3, <3>1, <3>2, RecordFacts
    <3>4. PICK d \in Blocks : Undone[d] = Goal(c)
      BY <3>3 DEF GoalFree
    <3>5. block_locs[d] = s
      BY <2>2, <2>3, <3>4, BeforeAndAfter
    <3> QED
      BY <2>1, <3>5
  <2>4. CASE c \in Displaced
    <3>1. PICK u \in Gone : Undone[c] = Goal(u)
      BY <2>4 DEF Displaced, InWay
    <3>2. block_locs[u] = s /\ u \in Blocks
      BY <2>2, <3>1, BeforeAndAfter
    <3> QED
      BY <2>1, <3>2
  <2>5. CASE c \notin Gone \cup Displaced
    BY <2>1, <2>2, <2>5, BeforeAndAfter
  <2> QED
    BY <2>3, <2>4, <2>5
<1>5. {s \in Sites : Tile(s) = t /\ \E b \in Blocks : block_locs[b] = s}
        = (OnTile(t) \ Vacated(t)) \cup Taken(t)
  BY <1>1, <1>2, <1>3, <1>4
<1> QED
  BY <1>1, <1>2, <1>5

LEMMA AcceptUsage ==
  ASSUME IInv, UsageExact, Accept
  PROVE  UsageExact'
<1>1. /\ phase = "assess" /\ phase' = "anneal" /\ Annealing
      /\ moved' = <<>> /\ UNCHANGED block_locs
  BY DEF Accept, EndOfMove, Annealing
<1>2. IInv'
  BY AcceptInv
<1>3. \A s \in Sites : (grid_blocks[s] # EMPTY)' <=> \E b \in Blocks : block_locs[b] = s
  <2>1. Types' /\ GridAgrees' /\ Annealing'
    BY <1>1, <1>2 DEF IInv, Annealing
  <2>2. Undone' = block_locs
    <3>1. Undone' = Restored(block_locs', <<>>)
      BY <1>1 DEF Undone, Restored
    <3> QED
      BY <1>1, <3>1, RestoredNone DEF IInv, Types
  <2> QED
    BY <2>1, <2>2, BlockNumbers DEF GridAgrees, Types
<1>4. ASSUME NEW t \in Tiles
      PROVE  usage'[t] = Cardinality(OnTile(t)')
  <2> DEFINE A == Arrivals(t)
             D == Departures(t)
  <2>1. /\ usage'[t] = usage[t] + Cardinality(A) - Cardinality(D)
        /\ usage[t] = Cardinality(OnTile(t))
    BY <1>1 DEF Accept, UsageExact, Arrivals, Departures
  <2>2. moved \in Seq(Moves) /\ IsFiniteSet(DOMAIN moved)
    <3>1. moved \in Seq(Moves)
      BY <1>1, RecordFacts
    <3>2. DOMAIN moved = 1..Len(moved) /\ Len(moved) \in Nat
      BY <3>1
    <3> QED
      BY <3>1, <3>2, FS_Interval
  <2>3. IsFiniteSet(A) /\ IsFiniteSet(D)
    <3>1. A \in SUBSET DOMAIN moved /\ D \in SUBSET DOMAIN moved
      BY DEF Arrivals, Departures
    <3> QED
      BY <2>2, <3>1, FS_Subset
  <2>4. IsFiniteSet(Taken(t)) /\ Cardinality(Taken(t)) = Cardinality(A)
    <3> DEFINE f == [i \in A |-> moved[i].new]
    <3>1. f \in [A -> Taken(t)] /\ \A s \in Taken(t) : \E i \in A : f[i] = s
      BY DEF Taken
    <3>2. ASSUME NEW i \in A, NEW j \in A, f[i] = f[j] PROVE i = j
      <4>1. i \in DOMAIN moved /\ j \in DOMAIN moved
        BY DEF Arrivals
      <4>2. block_locs[moved[i].blk] = block_locs[moved[j].blk]
        BY <1>1, <3>2, <4>1, RecordFacts
      <4>3. moved[i].blk = moved[j].blk
        BY <1>1, <4>1, <4>2, RecordFacts, BeforeAndAfter
      <4> QED
        BY <1>1, <4>1, <4>3, RecordFacts
    <3> HIDE DEF f
    <3> QED
      BY <2>3, <3>1, <3>2, SameSize
  <2>5. IsFiniteSet(Vacated(t)) /\ Cardinality(Vacated(t)) = Cardinality(D)
    <3> DEFINE f == [i \in D |-> moved[i].old]
    <3>1. f \in [D -> Vacated(t)] /\ \A s \in Vacated(t) : \E i \in D : f[i] = s
      BY DEF Vacated
    <3>2. ASSUME NEW i \in D, NEW j \in D, f[i] = f[j] PROVE i = j
      <4>1. i \in DOMAIN moved /\ j \in DOMAIN moved
        BY DEF Departures
      <4>2. Undone[moved[i].blk] = Undone[moved[j].blk]
        BY <1>1, <3>2, <4>1, RecordFacts
      <4>3. moved[i].blk = moved[j].blk
        BY <1>1, <4>1, <4>2, RecordFacts, BeforeAndAfter
      <4> QED
        BY <1>1, <4>1, <4>3, RecordFacts
    <3> HIDE DEF f
    <3> QED
      BY <2>3, <3>1, <3>2, SameSize
  <2>6. /\ Taken(t) \cap OnTile(t) = {}
        /\ Vacated(t) \subseteq OnTile(t)
        /\ OnTile(t)' = (OnTile(t) \ Vacated(t)) \cup Taken(t)
    <3>1. OnTile(t)' = {s \in Sites : Tile(s) = t /\ \E b \in Blocks : block_locs[b] = s}
      BY <1>3 DEF OnTile
    <3> QED
      BY <1>1, <3>1, TakenAndLeft
  <2>7. Cardinality((OnTile(t) \ Vacated(t)) \cup Taken(t))
          = Cardinality(OnTile(t)) - Cardinality(Vacated(t)) + Cardinality(Taken(t))
    BY <2>4, <2>6, OnTileBound, Replaced
  <2>8. /\ Cardinality(OnTile(t)) \in Nat
        /\ Cardinality(A) \in Nat /\ Cardinality(D) \in Nat
    BY <2>3, OnTileBound, FS_CardinalityType
  <2> HIDE DEF A, D
  <2> QED
    BY <2>1, <2>4, <2>5, <2>6, <2>7, <2>8
<1> QED
  BY <1>4 DEF UsageExact, Accept

-----------------------------------------------------------------------------
(* The other steps.                                                        *)

LEMMA UsageStep ==
  ASSUME IInv, UsageExact, [Next]_vars
  PROVE  UsageExact'
<1>1. CASE UNCHANGED <<grid_blocks, usage>>
  BY <1>1 DEF UsageExact, OnTile
<1>2. CASE \E m \in DOMAIN Macros : \E head \in HeadSites(m) : PlaceMacro(m, head)
  BY <1>2, PlaceMacroUsage
<1>3. CASE \E b \in Blocks : \E s \in LegalPos(BlockType[b]) : PlaceBlock(b, s)
  BY <1>3, PlaceBlockUsage
<1>4. CASE \/ \E m \in DOMAIN Macros : \E head \in HeadSites(m) : MacroOverruns(m, head)
           \/ PlacementFails
  BY <1>1, <1>4 DEF MacroOverruns, PlacementFails, Stop
<1>5. CASE \/ StartAnnealing \/ FinishAnnealing \/ LeaveChip \/ HitMacro \/ MoveToEmpty
           \/ \E b \in Blocks : \E to \in LegalPos(BlockType[b]) : Propose(b, to)
           \/ \E c \in Blocks : SwapWith(c)
           \/ Reject \/ Abort
  BY <1>1, <1>5 DEF StartAnnealing, FinishAnnealing, LeaveChip, HitMacro, Stop,
                    MoveToEmpty, Propose, SwapWith, NextMember, Reject, Abort, Undo
<1>6. CASE Accept
  BY <1>6, AcceptUsage
<1>7. CASE UNCHANGED vars
  BY <1>1, <1>7 DEF vars
<1> QED
  BY <1>2, <1>3, <1>4, <1>5, <1>6, <1>7 DEF Next, PlaceInitially

\* check_place finds nothing wrong where blocks are on legal sites, grid and
\* counts tell where they are, and macros are at their offsets.
LEMMA CheckHolds ==
  ASSUME IInv, UsageExact,
         \A b \in Blocks : block_locs[b] \in LegalPos(BlockType[b]),
         \A b \in Blocks, s \in Sites : grid_blocks[s] = b <=> block_locs[b] = s,
         \A m \in DOMAIN Macros : AtOffsets(m)
  PROVE  CheckPlace
<1>1. Types
  BY DEF IInv
<1>2. ASSUME NEW t \in Tiles
      PROVE  usage[t] <= Capacity[TileType[t]] /\ usage[t] = Cardinality(OnTile(t))
  BY <1>1, OnTileBound DEF UsageExact
<1>3. ASSUME NEW s \in Sites, grid_blocks[s] # EMPTY
      PROVE  /\ BlockType[grid_blocks[s]] = TileType[Tile(s)]
             /\ Tile(block_locs[grid_blocks[s]]) = Tile(s)
  <2>1. grid_blocks[s] \in Blocks
    BY <1>1, <1>3 DEF Types
  <2>2. block_locs[grid_blocks[s]] = s
    BY <2>1
  <2>3. s \in LegalPos(BlockType[grid_blocks[s]])
    BY <2>1, <2>2
  <2> QED
    BY <2>2, <2>3, LegalSites
<1>4. ASSUME NEW b \in Blocks
      PROVE  Cardinality({s \in Sites : grid_blocks[s] = b}) = 1
  <2>1. block_locs[b] \in Sites
    BY LegalSites
  <2>2. {s \in Sites : grid_blocks[s] = b} = {block_locs[b]}
    BY <2>1
  <2> QED
    BY <2>2, FS_Singleton
<1> QED
  BY <1>2, <1>3, <1>4 DEF CheckPlace

\* The grid shows a macro whose members are at their offsets.
LEMMA OffsetsShown ==
  ASSUME NEW m \in DOMAIN Macros,
         \A b \in Blocks, s \in Sites : grid_blocks[s] = b <=> block_locs[b] = s,
         \A i \in DOMAIN Members(m) :
           /\ block_locs[Members(m)[i]] \in Sites
           /\ block_locs[Members(m)[i]] = Plus(block_locs[Members(m)[1]], Offset(m, i))
  PROVE  AtOffsets(m)
<1> SUFFICES ASSUME NEW i \in DOMAIN Members(m)
             PROVE  grid_blocks[block_locs[Members(m)[i]]] = Members(m)[i]
  BY DEF AtOffsets
<1>1. Members(m)[i] \in Blocks /\ block_locs[Members(m)[i]] \in Sites
  BY MemberTypes
<1> QED
  BY <1>1

\* Between two moves check_place finds nothing to complain about.
LEMMA CheckPasses ==
  ASSUME IInv, UsageExact, phase = "anneal"
  PROVE  CheckPlace
<1>1. /\ Annealing /\ StartLegal /\ GridAgrees
      /\ Undone = block_locs /\ \A b \in Blocks : block_locs[b] \in Sites
  BY AtRest DEF IInv, Annealing, Resting
<1>2. ASSUME NEW m \in DOMAIN Macros PROVE AtOffsets(m)
  BY <1>1, MemberTypes, OffsetsShown DEF StartLegal, GridAgrees
<1> QED
  BY <1>1, <1>2, CheckHolds DEF StartLegal, GridAgrees

-----------------------------------------------------------------------------
(* Placing only exchanges blocks.                                          *)

LEMMA MinusPlus ==
  ASSUME NEW s \in Vectors, NEW d \in Vectors
  PROVE  Minus(Plus(s, d), s) = d
<1>1. d = <<d[1], d[2], d[3]>>
  BY DEF Vectors
<1> QED
  BY <1>1 DEF Plus, Minus, Vectors

\* While blocks are placed nothing is to be undone, and every block that is
\* placed has a legal site of its own.
LEMMA InitialPlaces ==
  IInv /\ phase = "initial" => Undone = block_locs /\ Exchange!Legal(block_locs)
<1> SUFFICES ASSUME IInv, phase = "initial"
             PROVE  Undone = block_locs /\ Exchange!Legal(block_locs)
  OBVIOUS
<1>1. /\ moved = <<>> /\ block_locs \in [Blocks -> Sites \cup {NoSite}]
      /\ OnLegalSites /\ InitialInv
  BY DEF IInv, InitialInv, Types
<1>2. Undone = block_locs
  BY <1>1, RestoredNone, UndoneRestored
<1>3. ASSUME NEW a \in Blocks, block_locs[a] # NoSite, NEW b \in Blocks,
             block_locs[a] = block_locs[b]
      PROVE  a = b
  BY <1>1, <1>3 DEF InitialInv
<1> QED
  BY <1>1, <1>2, <1>3 DEF Exchange!Legal, OnLegalSites, Placed

LEMMA PlacesNext ==
  IInv' /\ phase' = "initial" => Undone' = block_locs' /\ Exchange!Legal(block_locs')
<1>1. (IInv /\ phase = "initial" => Undone = block_locs /\ Exchange!Legal(block_locs))'
  BY InitialPlaces, PTL
<1> QED
  BY <1>1 DEF Exchange!Legal

LEMMA PlaceStep ==
  ASSUME IInv, IInv', PlaceInitially
  PROVE  Exchange!Place \/ Undone' = Undone
<1>1. phase = "initial" /\ Undone = block_locs
  BY InitialPlaces DEF PlaceInitially, PlaceMacro, MacroOverruns, PlaceBlock,
                       PlacementFails, NoRoomForMacro, NoRoomForBlock,
                       IsNextMacro, IsNextBlock
<1>2. CASE UNCHANGED <<block_locs, moved>>
  BY <1>2 DEF Undone
<1>3. CASE phase' = "initial" /\ \A b \in Blocks : Placed(b) => block_locs'[b] = block_locs[b]
  <2>1. Undone' = block_locs' /\ Exchange!Legal(Undone')
    BY <1>3, PlacesNext
  <2> QED
    BY <1>1, <1>3, <2>1 DEF Exchange!Place, Placed
<1>4. ASSUME NEW m \in DOMAIN Macros, NEW head \in HeadSites(m), PlaceMacro(m, head)
      PROVE  phase' = "initial" /\ \A b \in Blocks : Placed(b) => block_locs'[b] = block_locs[b]
  BY <1>1, <1>4 DEF PlaceMacro, IsNextMacro, IInv, InitialInv
<1>5. ASSUME NEW b \in Blocks, NEW s \in LegalPos(BlockType[b]), PlaceBlock(b, s)
      PROVE  phase' = "initial" /\ \A c \in Blocks : Placed(c) => block_locs'[c] = block_locs[c]
  BY <1>1, <1>5 DEF PlaceBlock, IsNextBlock, IInv, Types
<1>6. CASE PlacementFails \/ \E m \in DOMAIN Macros : \E head \in HeadSites(m) : MacroOverruns(m, head)
  BY <1>2, <1>6 DEF PlacementFails, MacroOverruns, Stop
<1> QED
  BY <1>3, <1>4, <1>5, <1>6 DEF PlaceInitially

\* A move that is kept is one exchange.
LEMMA AcceptStep ==
  ASSUME IInv, Accept
  PROVE  \E b \in Blocks : Exchange!Swap(b)
<1>1. /\ phase = "assess" /\ Moving /\ phase' = "anneal" /\ Annealing'
      /\ IInv' /\ Undone' = block_locs
  BY AcceptInv DEF Accept, EndOfMove, Moving, Annealing
<1>2. Types /\ UnitInv /\ GoalsLegal /\ Located
  BY <1>1 DEF IInv
<1>3. PICK b \in Blocks : mover.unit = UnitOf(b)
  BY <1>2 DEF UnitInv
<1>4. /\ Gone = Exchange!Of(UnitOf(b))
      /\ b \in Gone
  <2>1. mover.unit \in Seq(Blocks) /\ mover.next = Len(mover.unit) + 1
    BY <1>1, <1>2, <1>3, UnitFacts DEF UnitInv
  <2>2. 1..mover.next - 1 = DOMAIN mover.unit
    BY <2>1
  <2>3. Gone = Exchange!Of(UnitOf(b))
    BY <1>3, <2>2 DEF Gone, Exchange!Of
  <2>4. b \in Exchange!Of(UnitOf(b))
    BY UnitFacts DEF Exchange!Of
  <2> QED
    BY <2>3, <2>4
<1>5. /\ \A u \in Gone : u \in Blocks /\ InUnit(u) /\ Undone[u] \in Vectors
      /\ \A c \in Blocks : Undone[c] \in Sites
      /\ mover.offset \in Vectors
  BY <1>1, <1>2, MidMove, SiteCoordinates DEF Types
<1>6. Minus(block_locs[b], Undone[b]) = mover.offset
  BY <1>2, <1>4, <1>5, MinusPlus DEF Located, Goal
<1>7. \A u \in Gone : block_locs[u] = Plus(Undone[u], mover.offset)
  BY <1>2 DEF Located, Goal
<1>8. ASSUME NEW c \in Blocks \ Gone
      PROVE  IF \E u \in Gone : Undone[c] = Plus(Undone[u], mover.offset)
             THEN ~InMacro(c) /\ Undone[c] = Plus(block_locs[c], mover.offset)
             ELSE block_locs[c] = Undone[c]
  BY <1>2 DEF GoalsLegal, Located, Goal, InWay
<1>9. \A c \in Blocks : Undone[c] # NoSite
  BY <1>5, SiteCoordinates
<1>10. Exchange!Legal(Undone')
  BY <1>1 DEF IInv, StartLegal, Exchange!Legal
<1> QED
  BY <1>1, <1>4, <1>6, <1>7, <1>8, <1>9, <1>10 DEF Exchange!Swap

LEMMA ExchangeStep ==
  ASSUME IInv, IInv', [Next]_vars
  PROVE  [Exchange!Next]_Undone
<1>1. CASE PlaceInitially
  BY <1>1, PlaceStep DEF Exchange!Next
<1>2. CASE UNCHANGED <<block_locs, moved>>
  BY <1>2 DEF Undone
<1>3. CASE \/ StartAnnealing \/ FinishAnnealing \/ LeaveChip \/ HitMacro
           \/ \E b \in Blocks : \E to \in LegalPos(BlockType[b]) : Propose(b, to)
           \/ UNCHANGED vars
  BY <1>2, <1>3 DEF StartAnnealing, FinishAnnealing, LeaveChip, HitMacro, Stop,
                    Propose, vars
<1>4. CASE MoveToEmpty \/ \E c \in Blocks : SwapWith(c)
  BY <1>4, MoveToEmptyInv, SwapWithInv
<1>5. CASE Reject \/ Abort
  BY <1>5, UndoInv DEF Reject, Abort
<1>6. CASE Accept
  BY <1>6, AcceptStep DEF Exchange!Next
<1> QED
  BY <1>1, <1>3, <1>4, <1>5, <1>6 DEF Next

-----------------------------------------------------------------------------
(* The theorems.                                                           *)

LEMMA UsageInvariant == Spec => [](IInv /\ UsageExact)
<1>1. Init => UsageExact
  <2> SUFFICES ASSUME Init, NEW t \in Tiles
               PROVE  usage[t] = Cardinality(OnTile(t))
    BY DEF Init, UsageExact
  <2>1. OnTile(t) = {}
    BY DEF Init, OnTile
  <2> QED
    BY <2>1, FS_EmptySet DEF Init
<1>2. IInv /\ UsageExact /\ [Next]_vars => UsageExact'
  BY UsageStep
<1> QED
  BY <1>1, <1>2, PlacementInductive, PTL DEF Spec

\* The usage counts the placer keeps are those of the grid, at any time.
THEOREM UsageCountsExact == Spec => []UsageExact
  BY UsageInvariant, PTL

\* Every variable of the placer has its type, and no tile ever counts more
\* blocks than it holds, whatever is placed, moved, swapped or undone.
THEOREM PlacementTypesCorrect == Spec => []TypeOK
<1>1. IInv /\ UsageExact => TypeOK
  BY OnTileBound DEF IInv, UsageExact, TypeOK
<1> QED
  BY <1>1, UsageInvariant, PTL

\* A macro that is placed is at its offsets from a site, which is the head's
\* only if there is no z offset.
Anchored ==
  phase = "initial" =>
    \A m \in DOMAIN Macros : Placed(Members(m)[1]) =>
      \E site \in Sites : \A i \in DOMAIN Members(m) :
        block_locs[Members(m)[i]] = SiteOf(m, site, i)

LEMMA AnchoredKept ==
  ASSUME IInv, Anchored, [Next]_vars, phase' = "initial", NEW n \in DOMAIN Macros,
         Placed(Members(n)[1])'
  PROVE  \E site \in Sites : \A i \in DOMAIN Members(n) :
           block_locs'[Members(n)[i]] = SiteOf(n, site, i)
<1>1. ASSUME \A i \in DOMAIN Members(n) : block_locs'[Members(n)[i]] = block_locs[Members(n)[i]],
             phase = "initial"
      PROVE  \E site \in Sites : \A i \in DOMAIN Members(n) :
               block_locs'[Members(n)[i]] = SiteOf(n, site, i)
  <2>1. Placed(Members(n)[1])
    BY <1>1, MemberTypes DEF Placed
  <2> QED
    BY <1>1, <2>1 DEF Anchored
<1>2. ASSUME NEW m \in DOMAIN Macros, NEW head \in HeadSites(m), PlaceMacro(m, head)
      PROVE  \E site \in Sites : \A i \in DOMAIN Members(n) :
               block_locs'[Members(n)[i]] = SiteOf(n, site, i)
  <2>1. head \in Sites /\ phase = "initial"
    BY <1>2, LegalSites DEF HeadSites, PlaceMacro, IsNextMacro
  <2>2. CASE n = m
    <3>1. ASSUME NEW i \in DOMAIN Members(m)
          PROVE  block_locs'[Members(m)[i]] = SiteOf(m, head, i)
      <4>1. i = CHOOSE j \in DOMAIN Members(m) : Members(m)[j] = Members(m)[i]
        BY MembersApart
      <4>2. Members(m)[i] \in Blocks
        BY MemberTypes
      <4> QED
        BY <1>2, <4>1, <4>2 DEF PlaceMacro
    <3> QED
      BY <2>1, <2>2, <3>1
  <2>3. CASE n # m
    <3>1. ASSUME NEW i \in DOMAIN Members(n)
          PROVE  block_locs'[Members(n)[i]] = block_locs[Members(n)[i]]
      <4>1. Members(n)[i] \in Blocks /\ \A j \in DOMAIN Members(m) : Members(m)[j] # Members(n)[i]
        BY <2>3, MembersApart, MemberTypes
      <4> QED
        BY <1>2, <4>1 DEF PlaceMacro
    <3> QED
      BY <1>1, <2>1, <3>1
  <2> QED
    BY <2>2, <2>3
<1>3. ASSUME NEW b \in Blocks, NEW s \in LegalPos(BlockType[b]), PlaceBlock(b, s)
      PROVE  \E site \in Sites : \A i \in DOMAIN Members(n) :
               block_locs'[Members(n)[i]] = SiteOf(n, site, i)
  <2>1. phase = "initial" /\ ~Placed(b) /\ MacrosPlaced
    BY <1>3 DEF PlaceBlock, IsNextBlock
  <2>2. ASSUME NEW i \in DOMAIN Members(n)
        PROVE  block_locs'[Members(n)[i]] = block_locs[Members(n)[i]]
    <3>1. Members(n)[i] # b /\ Members(n)[i] \in Blocks
      BY <2>1, MemberTypes DEF MacrosPlaced, IInv, InitialInv
    <3> QED
      BY <1>3, <3>1 DEF PlaceBlock, IInv, Types
  <2> QED
    BY <1>1, <2>1, <2>2
<1>4. CASE UNCHANGED vars
  BY <1>1, <1>4 DEF vars
<1>5. CASE ~UNCHANGED vars
  <2>1. ~(\/ StartAnnealing \/ FinishAnnealing \/ LeaveChip \/ HitMacro
          \/ PlacementFails
          \/ \E m \in DOMAIN Macros : \E head \in HeadSites(m) : MacroOverruns(m, head))
    BY DEF StartAnnealing, FinishAnnealing, LeaveChip, HitMacro, PlacementFails,
           MacroOverruns, Stop
  <2>2. ~(\/ \E b \in Blocks : \E to \in LegalPos(BlockType[b]) : Propose(b, to)
          \/ MoveToEmpty \/ \E c \in Blocks : SwapWith(c)
          \/ Accept \/ Reject \/ Abort)
    BY DEF Propose, MoveToEmpty, SwapWith, NextMember, Accept, Reject, Abort, Undo, EndOfMove
  <2> QED
    BY <1>2, <1>3, <1>5, <2>1, <2>2 DEF Next, PlaceInitially
<1> QED
  BY <1>4, <1>5

\* Macros that are anchored are in line, and at their offsets from the head
\* unless they have a z offset.
LEMMA AnchoredMacro ==
  ASSUME IInv, Anchored, phase = "initial", NEW m \in DOMAIN Macros, Placed(Members(m)[1])
  PROVE  InLine(m) /\ (AtOffsets(m) <=> Macros[m].direct[3] = 0)
<1> DEFINE d == Macros[m].direct
           loc(i) == block_locs[Members(m)[i]]
<1>1. PICK site \in Sites : \A i \in DOMAIN Members(m) : loc(i) = SiteOf(m, site, i)
  BY DEF Anchored
<1>2. /\ site[1] \in Int /\ site[2] \in Int /\ site[3] \in Int
      /\ d[1] \in Int /\ d[2] \in Int /\ d[3] \in Int
      /\ 1 \in DOMAIN Members(m) /\ \A i \in DOMAIN Members(m) : i \in Int
  BY SiteCoordinates, MacroTypes, MemberTypes DEF Vectors
<1>3. loc(1) = <<site[1], site[2], site[3] + d[3]>>
  <2>1. loc(1) = <<site[1] + (1 - 1) * d[1], site[2] + (1 - 1) * d[2], site[3] + d[3]>>
    BY <1>1, <1>2 DEF SiteOf, Plus, Offset
  <2>2. (1 - 1) * d[1] = 0 /\ (1 - 1) * d[2] = 0
    BY <1>2
  <2> QED
    BY <1>2, <2>1, <2>2
<1>4. ASSUME NEW i \in DOMAIN Members(m)
      PROVE  /\ loc(i) = <<site[1] + (i - 1) * d[1], site[2] + (i - 1) * d[2], site[3] + d[3]>>
             /\ Plus(loc(1), Offset(m, i))
                  = <<site[1] + (i - 1) * d[1], site[2] + (i - 1) * d[2], site[3] + d[3] + d[3]>>
  BY <1>1, <1>3 DEF SiteOf, Plus, Offset
<1>5. InLine(m)
  <2> SUFFICES ASSUME NEW i \in DOMAIN Members(m)
               PROVE  Tile(loc(i)) = Tile(Plus(loc(1), <<(i - 1) * d[1], (i - 1) * d[2], 0>>))
    BY DEF InLine
  <2> QED
    BY <1>3, <1>4 DEF Tile, Plus
<1>6. ASSUME AtOffsets(m) PROVE d[3] = 0
  <2>1. loc(1) = Plus(loc(1), Offset(m, 1))
    BY <1>2, <1>6 DEF AtOffsets
  <2>2. site[3] + d[3] = site[3] + d[3] + d[3]
    BY <1>2, <1>3, <1>4, <2>1
  <2> QED
    BY <1>2, <2>2
<1>7. ASSUME d[3] = 0 PROVE AtOffsets(m)
  <2>1. \A b \in Blocks, s \in Sites : grid_blocks[s] = b <=> block_locs[b] = s
    BY DEF IInv, InitialInv
  <2>2. ASSUME NEW i \in DOMAIN Members(m)
        PROVE  loc(i) \in Sites /\ loc(i) = Plus(loc(1), Offset(m, i))
    <3>1. loc(i) \in Sites
      <4>1. Placed(Members(m)[i]) /\ Members(m)[i] \in Blocks
        BY MemberTypes DEF IInv, InitialInv
      <4> QED
        BY <4>1 DEF IInv, Types, Placed
    <3>2. site[3] + d[3] = site[3] + d[3] + d[3]
      BY <1>2, <1>7
    <3> QED
      BY <1>4, <3>1, <3>2
  <2> QED
    BY <2>1, <2>2, OffsetsShown
<1> QED
  BY <1>5, <1>6, <1>7

\* The first placement is exact: while macros and blocks are put down, on
\* whatever sites, locations, grid and counts agree and macros are in line, and
\* check_place finds an error in it just when a macro has a z offset.
THEOREM FirstPlacementCorrect == Spec => []FirstPlacementExact
<1>1. Init => Anchored
  BY MemberTypes DEF Init, Anchored, Placed
<1>2. IInv /\ Anchored /\ [Next]_vars => Anchored'
  BY AnchoredKept DEF Anchored, Placed
<1>3. IInv /\ UsageExact /\ Anchored => FirstPlacementExact
  <2> SUFFICES ASSUME IInv, UsageExact, Anchored, phase = "initial"
               PROVE  FirstPlacementExact
    BY DEF FirstPlacementExact
  <2>1. \A b \in Blocks, s \in Sites : grid_blocks[s] = b <=> block_locs[b] = s
    BY DEF IInv, InitialInv
  <2>2. \A t \in Tiles : usage[t] = Cardinality(OnTile(t))
    BY DEF UsageExact
  <2>3. \A m \in DOMAIN Macros : Placed(Members(m)[1]) =>
          InLine(m) /\ (AtOffsets(m) <=> Macros[m].direct[3] = 0)
    BY AnchoredMacro
  <2>4. ASSUME \A b \in Blocks : Placed(b)
        PROVE  CheckPlace <=> \A m \in DOMAIN Macros : Macros[m].direct[3] = 0
    <3>1. \A m \in DOMAIN Macros : AtOffsets(m) <=> Macros[m].direct[3] = 0
      BY <2>3, <2>4, MemberTypes
    <3>2. \A b \in Blocks : block_locs[b] \in LegalPos(BlockType[b])
      BY <2>4 DEF IInv, OnLegalSites
    <3>3. CheckPlace <=> \A m \in DOMAIN Macros : AtOffsets(m)
      BY <2>1, <3>2, CheckHolds DEF CheckPlace
    <3> QED
      BY <3>1, <3>3
  <2> QED
    BY <2>1, <2>2, <2>3, <2>4 DEF FirstPlacementExact
<1> QED
  BY <1>1, <1>2, <1>3, UsageInvariant, PTL DEF Spec

\* The check that ends try_place never fails after annealing has begun.
THEOREM CheckPlacePasses == Spec => EndsWell
<1>1. IInv /\ UsageExact /\ [Next]_vars => [phase = "anneal" => phase' # "error"]_vars
  <2> SUFFICES ASSUME IInv, UsageExact, Next, phase = "anneal"
               PROVE  phase' # "error"
    OBVIOUS
  <2>1. CheckPlace
    BY CheckPasses
  <2> QED
    BY <2>1 DEF Next, PlaceInitially, PlaceMacro, MacroOverruns, PlaceBlock,
                PlacementFails, NoRoomForMacro, NoRoomForBlock, IsNextMacro,
                IsNextBlock, StartAnnealing, FinishAnnealing, Propose, LeaveChip,
                HitMacro, MoveToEmpty, SwapWith, NextMember, Accept, EndOfMove,
                Reject, Abort, Undo, Stop
<1> QED
  BY <1>1, UsageInvariant, PTL DEF Spec, EndsWell

\* Placing implements the abstract exchange of blocks: as undoing the current
\* move would have it, blocks are put on legal sites of their own, and then only
\* change places, a unit by an offset and single blocks in its way by the
\* opposite one, all at once, when a move is accepted.
THEOREM PlacementExchanges == Spec => ExchangeSpec
<1>1. Init => Exchange!Init
  <2> SUFFICES ASSUME Init PROVE Undone = [b \in Blocks |-> NoSite]
    BY DEF Exchange!Init
  <2> QED
    BY DEF Init, Undone
<1>2. IInv /\ IInv' /\ [Next]_vars => [Exchange!Next]_Undone
  BY ExchangeStep
<1> QED
  BY <1>1, <1>2, PlacementInductive, PTL DEF Spec, ExchangeSpec, Exchange!Spec

-----------------------------------------------------------------------------
(* Sums over finite sets.                                                  *)

Sum(f, S) == Funs!SumFunctionOnSet(f, S)
OneOf(s) == CHOOSE x \in s : TRUE

\* The partial sums of f, over the subsets of S.
IsPartialSums(g, f, S) ==
  g = [s \in SUBSET S |-> IF s = {} THEN 0 ELSE f[OneOf(s)] + g[s \ {OneOf(s)}]]
PartialSums(g, f, S) ==
  \A s \in SUBSET S : g[s] = IF s = {} THEN 0 ELSE f[OneOf(s)] + g[s \ {OneOf(s)}]

LEMMA Split ==
  ASSUME NEW s, IsFiniteSet(s), NEW x \in s
  PROVE  /\ IsFiniteSet(s \ {x})
         /\ Cardinality(s) \in Nat /\ Cardinality(s) >= 1
         /\ Cardinality(s \ {x}) = Cardinality(s) - 1
<1>1. IsFiniteSet(s \ {x}) /\ Cardinality(s \ {x}) = Cardinality(s) - 1
  BY FS_RemoveElement
<1>2. Cardinality(s) \in Nat /\ Cardinality(s \ {x}) \in Nat
  BY <1>1, FS_CardinalityType
<1> QED BY <1>1, <1>2

LEMMA OneOfIsIn ==
  ASSUME NEW s, s # {}
  PROVE  OneOf(s) \in s
BY DEF OneOf

LEMMA PartialSumsExist ==
  ASSUME NEW S, IsFiniteSet(S), NEW f
  PROVE  \E g : IsPartialSums(g, f, S)
<1> DEFINE Upto(k) == {s \in SUBSET S : Cardinality(s) <= k}
           Is(g, k) == g = [s \in Upto(k) |->
                              IF s = {} THEN 0 ELSE f[OneOf(s)] + g[s \ {OneOf(s)}]]
           Good == {k \in Nat : \E g : Is(g, k)}
<1>0. \A s \in SUBSET S : IsFiniteSet(s) /\ Cardinality(s) \in Nat
  BY FS_Subset, FS_CardinalityType
<1>1. 0 \in Good
  <2>1. \A s \in Upto(0) : s = {}
    <3> SUFFICES ASSUME NEW s \in Upto(0) PROVE s = {}
      OBVIOUS
    <3>1. Cardinality(s) = 0
      BY <1>0
    <3> QED BY <3>1, <1>0, FS_EmptySet
  <2>2. Is([s \in Upto(0) |-> 0], 0)
    BY <2>1
  <2> QED BY <2>2
<1>2. \A k \in Nat : k \in Good => k + 1 \in Good
  <2> SUFFICES ASSUME NEW k \in Nat, k \in Good PROVE k + 1 \in Good
    OBVIOUS
  <2>1. PICK g : Is(g, k)
    <3> HIDE DEF Is
    <3> QED OBVIOUS
  <2> DEFINE h == [s \in Upto(k + 1) |->
                     IF s = {} THEN 0 ELSE f[OneOf(s)] + g[s \ {OneOf(s)}]]
  <2>2. \A s \in Upto(k + 1) : s # {} => s \ {OneOf(s)} \in Upto(k)
    <3> SUFFICES ASSUME NEW s \in Upto(k + 1), s # {} PROVE s \ {OneOf(s)} \in Upto(k)
      OBVIOUS
    <3>1. OneOf(s) \in s
      BY OneOfIsIn
    <3>2. Cardinality(s \ {OneOf(s)}) = Cardinality(s) - 1
      BY <1>0, <3>1, Split
    <3> QED BY <3>2, <1>0
  <2>3. \A s \in Upto(k) : s \in Upto(k + 1) /\ h[s] = g[s]
    <3> SUFFICES ASSUME NEW s \in Upto(k) PROVE s \in Upto(k + 1) /\ h[s] = g[s]
      OBVIOUS
    <3>1. s \in Upto(k + 1)
      BY <1>0
    <3>2. g[s] = IF s = {} THEN 0 ELSE f[OneOf(s)] + g[s \ {OneOf(s)}]
      BY <2>1
    <3> QED BY <3>1, <3>2
  <2>4. \A s \in Upto(k + 1) : s # {} => h[s \ {OneOf(s)}] = g[s \ {OneOf(s)}]
    BY <2>2, <2>3
  <2>5. Is(h, k + 1)
    BY <2>4
  <2> HIDE DEF h, Is
  <2> QED BY <2>5
<1>3. Cardinality(S) \in Nat /\ Upto(Cardinality(S)) = SUBSET S
  <2>1. \A s \in SUBSET S : Cardinality(s) <= Cardinality(S)
    BY FS_Subset
  <2> QED BY <2>1, <1>0
<1>4. Cardinality(S) \in Good
  <2> HIDE DEF Is, Upto
  <2>1. Nat \subseteq Good
    BY <1>1, <1>2, NatSetInduction
  <2> QED BY <2>1, <1>3
<1>5. PICK g : Is(g, Cardinality(S))
  <2> HIDE DEF Is
  <2> QED BY <1>4
<1> QED BY <1>3, <1>5 DEF IsPartialSums

LEMMA SumIs ==
  ASSUME NEW S, IsFiniteSet(S), NEW f
  PROVE  \E g : PartialSums(g, f, S) /\ Sum(f, S) = g[S]
<1> DEFINE G == CHOOSE g : IsPartialSums(g, f, S)
<1>1. Sum(f, S) = G[S]
  BY DEF Sum, OneOf, IsPartialSums, Funs!SumFunctionOnSet, Funs!FoldFunctionOnSet, Funs!MapThenFoldSet
<1>2. IsPartialSums(G, f, S)
  BY PartialSumsExist
<1>3. PartialSums(G, f, S)
  <2> HIDE DEF G
  <2> SUFFICES ASSUME NEW s \in SUBSET S
               PROVE  G[s] = IF s = {} THEN 0 ELSE f[OneOf(s)] + G[s \ {OneOf(s)}]
    BY DEF PartialSums
  <2>1. G[s] = [r \in SUBSET S |->
                  IF r = {} THEN 0 ELSE f[OneOf(r)] + G[r \ {OneOf(r)}]][s]
    BY <1>2, Zenon DEF IsPartialSums
  <2> QED BY <2>1
<1> HIDE DEF G
<1> QED BY <1>1, <1>3

LEMMA PartialSumsAgree ==
  ASSUME NEW S, IsFiniteSet(S), NEW T \in SUBSET S, NEW f, NEW e, NEW g, NEW h,
         PartialSums(g, f, S), PartialSums(h, e, T), \A x \in T : f[x] = e[x]
  PROVE  g[T] = h[T]
<1> DEFINE Good == {n \in Nat : \A s \in SUBSET T : Cardinality(s) <= n => g[s] = h[s]}
<1>0. \A s \in SUBSET T : IsFiniteSet(s) /\ Cardinality(s) \in Nat /\ s \in SUBSET S
  BY FS_Subset, FS_CardinalityType
<1>1. 0 \in Good
  <2> SUFFICES ASSUME NEW s \in SUBSET T, Cardinality(s) <= 0 PROVE g[s] = h[s]
    OBVIOUS
  <2>1. s = {}
    BY <1>0, FS_EmptySet
  <2> QED BY <2>1 DEF PartialSums
<1>2. \A n \in Nat : n \in Good => n + 1 \in Good
  <2> SUFFICES ASSUME NEW n \in Nat, n \in Good, NEW s \in SUBSET T, Cardinality(s) <= n + 1
               PROVE  g[s] = h[s]
    OBVIOUS
  <2>1. CASE s = {}
    BY <2>1 DEF PartialSums
  <2>2. CASE s # {}
    <3>1. OneOf(s) \in s
      BY <2>2, OneOfIsIn
    <3>2. Cardinality(s \ {OneOf(s)}) = Cardinality(s) - 1 /\ s \ {OneOf(s)} \in SUBSET T
      BY <1>0, <3>1, Split
    <3>3. g[s \ {OneOf(s)}] = h[s \ {OneOf(s)}]
      BY <3>2, <1>0
    <3>4. g[s] = f[OneOf(s)] + g[s \ {OneOf(s)}]
      BY <2>2, <1>0 DEF PartialSums
    <3>5. h[s] = e[OneOf(s)] + h[s \ {OneOf(s)}]
      BY <2>2 DEF PartialSums
    <3> QED BY <3>1, <3>3, <3>4, <3>5
  <2> QED BY <2>1, <2>2
<1>3. Nat \subseteq Good
  <2> HIDE DEF Good
  <2> QED BY <1>1, <1>2, NatSetInduction
<1>4. T \in SUBSET T /\ Cardinality(T) \in Nat /\ Cardinality(T) <= Cardinality(T)
  BY <1>0
<1> QED BY <1>3, <1>4

LEMMA SumSame ==
  ASSUME NEW S, IsFiniteSet(S), NEW f, NEW g, \A x \in S : f[x] = g[x]
  PROVE  Sum(f, S) = Sum(g, S)
<1>1. PICK p : PartialSums(p, f, S) /\ Sum(f, S) = p[S]
  BY SumIs
<1>2. PICK q : PartialSums(q, g, S) /\ Sum(g, S) = q[S]
  BY SumIs
<1> QED BY <1>1, <1>2, PartialSumsAgree

LEMMA SumNone ==
  ASSUME NEW f
  PROVE  Sum(f, {}) = 0
<1>1. IsFiniteSet({})
  BY FS_EmptySet
<1>2. PICK p : PartialSums(p, f, {}) /\ Sum(f, {}) = p[{}]
  BY <1>1, SumIs
<1> QED BY <1>2 DEF PartialSums

LEMMA SumSplitOneOf ==
  ASSUME NEW S, IsFiniteSet(S), S # {}, NEW f
  PROVE  Sum(f, S) = f[OneOf(S)] + Sum(f, S \ {OneOf(S)})
<1>1. PICK p : PartialSums(p, f, S) /\ Sum(f, S) = p[S]
  BY SumIs
<1>2. IsFiniteSet(S \ {OneOf(S)})
  BY OneOfIsIn, Split
<1>3. PICK q : PartialSums(q, f, S \ {OneOf(S)}) /\ Sum(f, S \ {OneOf(S)}) = q[S \ {OneOf(S)}]
  BY <1>2, SumIs
<1>4. p[S \ {OneOf(S)}] = q[S \ {OneOf(S)}]
  BY <1>1, <1>3, PartialSumsAgree
<1> QED BY <1>1, <1>3, <1>4 DEF PartialSums

\* A sum of integers is one, and any element may be taken out of it.
LEMMA SumSplit ==
  ASSUME NEW S, IsFiniteSet(S), NEW f, \A x \in S : f[x] \in Int
  PROVE  /\ Sum(f, S) \in Int
         /\ \A x \in S : Sum(f, S) = f[x] + Sum(f, S \ {x})
<1> DEFINE Claim(s) == /\ Sum(f, s) \in Int
                       /\ \A x \in s : Sum(f, s) = f[x] + Sum(f, s \ {x})
           Good == {n \in Nat : \A s \in SUBSET S : Cardinality(s) <= n => Claim(s)}
<1>0. \A s \in SUBSET S : IsFiniteSet(s) /\ Cardinality(s) \in Nat
  BY FS_Subset, FS_CardinalityType
<1>1. 0 \in Good
  <2> SUFFICES ASSUME NEW s \in SUBSET S, Cardinality(s) <= 0 PROVE Claim(s)
    OBVIOUS
  <2>1. s = {}
    BY <1>0, FS_EmptySet
  <2> QED BY <2>1, SumNone
<1>2. \A n \in Nat : n \in Good => n + 1 \in Good
  <2> SUFFICES ASSUME NEW n \in Nat, n \in Good, NEW s \in SUBSET S, Cardinality(s) <= n + 1
               PROVE  Claim(s)
    <3> HIDE DEF Claim
    <3> QED OBVIOUS
  <2>1. CASE s = {}
    BY <2>1, SumNone
  <2>2. CASE s # {}
    <3> DEFINE y == OneOf(s)
    <3>1. y \in s
      BY <2>2, OneOfIsIn
    <3>2. Sum(f, s) = f[y] + Sum(f, s \ {y})
      BY <1>0, <2>2, SumSplitOneOf
    <3>3. \A x \in s : Cardinality(s \ {x}) <= n /\ s \ {x} \in SUBSET S
      BY <1>0, Split
    <3>4. \A x \in s : Claim(s \ {x})
      <4> HIDE DEF Claim
      <4> QED BY <3>3
    <3> HIDE DEF y
    <3>5. Sum(f, s) \in Int
      BY <3>1, <3>2, <3>4
    <3>6. ASSUME NEW x \in s PROVE Sum(f, s) = f[x] + Sum(f, s \ {x})
      <4>1. CASE x = y
        BY <3>2, <4>1
      <4>2. CASE x # y
        <5>1. Sum(f, s \ {y}) = f[x] + Sum(f, (s \ {y}) \ {x})
          BY <3>1, <3>4, <4>2
        <5>2. Sum(f, s \ {x}) = f[y] + Sum(f, (s \ {x}) \ {y})
          BY <3>1, <3>4, <4>2
        <5>3. (s \ {y}) \ {x} = (s \ {x}) \ {y}
          OBVIOUS
        <5>4. Sum(f, (s \ {x}) \ {y}) \in Int
          <6>1. Sum(f, s \ {x}) \in Int /\ f[y] \in Int
            BY <3>1, <3>4
          <6>2. (s \ {x}) \ {y} \in SUBSET S /\ Cardinality((s \ {x}) \ {y}) <= n
            <7>1. IsFiniteSet(s \ {x}) /\ y \in s \ {x}
              BY <1>0, <3>1, <4>2
            <7>2. Cardinality((s \ {x}) \ {y}) = Cardinality(s \ {x}) - 1
              BY <7>1, Split
            <7> QED BY <7>2, <3>3, <1>0
          <6>3. Claim((s \ {x}) \ {y})
            <7> HIDE DEF Claim
            <7> QED BY <6>2
          <6> QED BY <6>3
        <5>5. f[x] \in Int /\ f[y] \in Int
          BY <3>1
        <5> QED BY <3>2, <5>1, <5>2, <5>3, <5>4, <5>5
      <4> QED BY <4>1, <4>2
    <3> QED BY <3>5, <3>6
  <2> QED BY <2>1, <2>2
<1>3. Nat \subseteq Good
  <2> HIDE DEF Good
  <2> QED BY <1>1, <1>2, NatSetInduction
<1>4. Claim(S)
  <2> HIDE DEF Claim
  <2>1. S \in SUBSET S /\ Cardinality(S) \in Nat /\ Cardinality(S) <= Cardinality(S)
    BY <1>0
  <2> QED BY <2>1, <1>3
<1> QED BY <1>4

LEMMA SetInduction ==
  ASSUME NEW S, IsFiniteSet(S), NEW Good, {} \in Good,
         \A s \in SUBSET S : \A x \in S \ s : s \in Good => s \cup {x} \in Good
  PROVE  S \in Good
<1> DEFINE Sizes == {n \in Nat : \A s \in SUBSET S : Cardinality(s) <= n => s \in Good}
<1>0. \A s \in SUBSET S : IsFiniteSet(s) /\ Cardinality(s) \in Nat
  BY FS_Subset, FS_CardinalityType
<1>1. 0 \in Sizes
  <2> SUFFICES ASSUME NEW s \in SUBSET S, Cardinality(s) <= 0 PROVE s \in Good
    OBVIOUS
  <2>1. s = {}
    BY <1>0, FS_EmptySet
  <2> QED BY <2>1
<1>2. \A n \in Nat : n \in Sizes => n + 1 \in Sizes
  <2> SUFFICES ASSUME NEW n \in Nat, n \in Sizes, NEW s \in SUBSET S, Cardinality(s) <= n + 1
               PROVE  s \in Good
    OBVIOUS
  <2>1. CASE s = {}
    BY <2>1
  <2>2. CASE s # {}
    <3>1. PICK x \in s : TRUE
      BY <2>2
    <3>2. Cardinality(s \ {x}) <= n /\ s \ {x} \in SUBSET S
      BY <1>0, Split
    <3>3. s \ {x} \in Good /\ x \in S \ (s \ {x})
      BY <3>2
    <3>4. s = (s \ {x}) \cup {x}
      OBVIOUS
    <3> QED BY <3>2, <3>3, <3>4
  <2> QED BY <2>1, <2>2
<1>3. Nat \subseteq Sizes
  <2> HIDE DEF Sizes
  <2> QED BY <1>1, <1>2, NatSetInduction
<1>4. S \in SUBSET S /\ Cardinality(S) \in Nat /\ Cardinality(S) <= Cardinality(S)
  BY <1>0
<1> QED BY <1>3, <1>4

LEMMA SumAdd ==
  ASSUME NEW S, IsFiniteSet(S), NEW x, x \notin S,
         NEW f, f[x] \in Int, \A y \in S : f[y] \in Int
  PROVE  Sum(f, S \cup {x}) = f[x] + Sum(f, S) /\ Sum(f, S) \in Int
<1>1. IsFiniteSet(S \cup {x}) /\ (S \cup {x}) \ {x} = S
  BY FS_AddElement
<1> QED BY <1>1, SumSplit

\* When a function changes on a part of its domain, its sum changes by the sum
\* of the differences there.
LEMMA SumChange ==
  ASSUME NEW S, IsFiniteSet(S), NEW A, A \subseteq S, NEW f, NEW g, NEW d,
         \A x \in S : f[x] \in Int /\ g[x] \in Int,
         \A x \in S \ A : g[x] = f[x],
         \A x \in A : d[x] = g[x] - f[x]
  PROVE  Sum(g, S) = Sum(f, S) + Sum(d, A)
<1> DEFINE Claim(s) == Sum(g, s) = Sum(f, s) + Sum(d, s \cap A)
           Good == {s \in SUBSET S : Claim(s)}
<1>1. {} \in Good
  BY SumNone
<1>2. ASSUME NEW s \in SUBSET S, NEW x \in S \ s, s \in Good
      PROVE  s \cup {x} \in Good
  <2>1. /\ IsFiniteSet(s) /\ IsFiniteSet(s \cap A)
        /\ s \cup {x} \in SUBSET S
    BY FS_Subset
  <2>2. \A y \in A : d[y] \in Int
    OBVIOUS
  <2>3. /\ Sum(g, s \cup {x}) = g[x] + Sum(g, s) /\ Sum(g, s) \in Int
        /\ Sum(f, s \cup {x}) = f[x] + Sum(f, s) /\ Sum(f, s) \in Int
    BY <2>1, SumAdd
  <2>4. Sum(d, s \cap A) \in Int
    BY <2>1, <2>2, SumSplit
  <2>5. CASE x \in A
    <3>1. (s \cup {x}) \cap A = (s \cap A) \cup {x} /\ x \notin s \cap A
      BY <2>5
    <3>2. Sum(d, (s \cap A) \cup {x}) = d[x] + Sum(d, s \cap A)
      BY <2>1, <2>2, <2>5, <3>1, SumAdd
    <3>3. Claim(s) /\ d[x] = g[x] - f[x] /\ g[x] \in Int /\ f[x] \in Int
      BY <1>2, <2>5
    <3>4. Sum(g, s \cup {x}) = Sum(f, s \cup {x}) + Sum(d, (s \cap A) \cup {x})
      BY <2>3, <2>4, <3>2, <3>3
    <3> QED BY <2>1, <3>1, <3>4
  <2>6. CASE x \notin A
    <3>1. (s \cup {x}) \cap A = s \cap A
      BY <2>6
    <3>2. Claim(s) /\ g[x] = f[x] /\ f[x] \in Int
      BY <1>2, <2>6
    <3>3. Sum(g, s \cup {x}) = Sum(f, s \cup {x}) + Sum(d, s \cap A)
      BY <2>3, <2>4, <3>2
    <3> QED BY <2>1, <3>1, <3>3
  <2> QED BY <2>5, <2>6
<1>3. S \in Good
  <2> HIDE DEF Good
  <2> QED BY <1>1, <1>2, SetInduction
<1>4. S \cap A = A
  OBVIOUS
<1> QED BY <1>3, <1>4

LEMMA SumUnion ==
  ASSUME NEW S, IsFiniteSet(S), NEW A, NEW B, S = A \cup B, A \cap B = {},
         NEW f, \A x \in S : f[x] \in Int
  PROVE  Sum(f, S) = Sum(f, A) + Sum(f, B)
<1> DEFINE z == [x \in S |-> IF x \in B THEN 0 ELSE f[x]]
<1>1. Sum(f, S) = Sum(z, S) + Sum(f, B)
  <2>1. \A x \in S : z[x] \in Int /\ f[x] \in Int
    OBVIOUS
  <2>2. /\ \A x \in S \ B : f[x] = z[x]
        /\ \A x \in B : f[x] = f[x] - z[x]
    OBVIOUS
  <2> HIDE DEF z
  <2> QED BY <2>1, <2>2, SumChange
<1>2. Sum(z, S) = Sum(z, A)
  <2> DEFINE Good == {s \in SUBSET S : Sum(z, s) = Sum(z, s \cap A)}
  <2>1. {} \in Good
    OBVIOUS
  <2>2. ASSUME NEW s \in SUBSET S, NEW x \in S \ s, s \in Good
        PROVE  s \cup {x} \in Good
    <3>1. IsFiniteSet(s) /\ IsFiniteSet(s \cap A) /\ s \cup {x} \in SUBSET S
      BY FS_Subset
    <3>2. \A y \in S : z[y] \in Int
      OBVIOUS
    <3>3. Sum(z, s \cup {x}) = z[x] + Sum(z, s) /\ Sum(z, s) \in Int
      <4> HIDE DEF z
      <4> QED BY <3>1, <3>2, SumAdd
    <3>4. CASE x \in A
      <4>1. (s \cup {x}) \cap A = (s \cap A) \cup {x} /\ x \notin s \cap A
        BY <3>4
      <4>2. Sum(z, (s \cap A) \cup {x}) = z[x] + Sum(z, s \cap A)
        <5> HIDE DEF z
        <5> QED BY <3>1, <3>2, <4>1, SumAdd
      <4> HIDE DEF z
      <4>3. Sum(z, s \cup {x}) = Sum(z, (s \cap A) \cup {x})
        BY <2>2, <3>3, <4>2
      <4> QED BY <3>1, <4>1, <4>3
    <3>5. CASE x \notin A
      <4>1. (s \cup {x}) \cap A = s \cap A /\ z[x] = 0
        BY <3>5
      <4> HIDE DEF z
      <4>2. Sum(z, s \cup {x}) = Sum(z, s \cap A)
        BY <2>2, <3>3, <4>1
      <4> QED BY <3>1, <4>1, <4>2
    <3> QED BY <3>4, <3>5
  <2>3. S \in Good
    <3> HIDE DEF Good
    <3> QED BY <2>1, <2>2, SetInduction
  <2>4. S \cap A = A
    OBVIOUS
  <2> HIDE DEF z
  <2> QED BY <2>3, <2>4
<1>3. Sum(z, A) = Sum(f, A)
  <2>1. IsFiniteSet(A) /\ \A x \in A : z[x] = f[x]
    BY FS_Subset
  <2> HIDE DEF z
  <2> QED BY <2>1, SumSame
<1> HIDE DEF z
<1> QED BY <1>1, <1>2, <1>3

-----------------------------------------------------------------------------
(* The sides of boxes.                                                     *)

At(p, D, v) == Cardinality({i \in D : p[i] = v})

\* a is the side of a box that has pins D at the positions p.
IsSide(a, p, D, counted) ==
  /\ a = [lo |-> a.lo, nlo |-> a.nlo, hi |-> a.hi, nhi |-> a.nhi]
  /\ \A i \in D : a.lo <= p[i] /\ p[i] <= a.hi
  /\ \E i \in D : p[i] = a.lo
  /\ \E i \in D : p[i] = a.hi
  /\ a.nlo = IF counted THEN At(p, D, a.lo) ELSE 0
  /\ a.nhi = IF counted THEN At(p, D, a.hi) ELSE 0

LEMMA CountFacts ==
  ASSUME NEW D, IsFiniteSet(D), NEW p, NEW v
  PROVE  /\ At(p, D, v) \in Nat
         /\ (\A i \in D : p[i] # v) => At(p, D, v) = 0
         /\ \A i \in D : p[i] = v =>
              /\ At(p, D, v) >= 1
              /\ At(p, D, v) # 1 => \E j \in D : j # i /\ p[j] = v
<1> DEFINE I == {i \in D : p[i] = v}
<1>1. IsFiniteSet(I) /\ Cardinality(I) \in Nat
  BY FS_Subset, FS_CardinalityType
<1>2. (\A i \in D : p[i] # v) => I = {}
  OBVIOUS
<1>3. Cardinality({}) = 0
  BY FS_EmptySet
<1>4. ASSUME NEW i \in D, p[i] = v
      PROVE  /\ Cardinality(I) >= 1
             /\ Cardinality(I) # 1 => \E j \in D : j # i /\ p[j] = v
  <2>1. i \in I /\ Cardinality(I) # 0
    BY <1>1, <1>4, FS_EmptySet
  <2>2. ASSUME \A j \in D : p[j] = v => j = i PROVE Cardinality(I) = 1
    <3>1. I = {i}
      BY <1>4, <2>2
    <3> QED BY <3>1, FS_Singleton
  <2> QED BY <1>1, <2>1, <2>2
<1> HIDE DEF I
<1> QED BY <1>1, <1>2, <1>3, <1>4 DEF At, I

LEMMA CountAdd ==
  ASSUME NEW D, IsFiniteSet(D), NEW p, NEW v, NEW i, i \notin D
  PROVE  At(p, D \cup {i}, v) = At(p, D, v) + (IF p[i] = v THEN 1 ELSE 0)
<1> DEFINE I == {j \in D : p[j] = v}
           J == {j \in D \cup {i} : p[j] = v}
<1>1. IsFiniteSet(I) /\ Cardinality(I) \in Nat /\ i \notin I
  BY FS_Subset, FS_CardinalityType
<1>2. J = IF p[i] = v THEN I \cup {i} ELSE I
  OBVIOUS
<1>3. Cardinality(I \cup {i}) = Cardinality(I) + 1
  BY <1>1, FS_AddElement
<1> HIDE DEF I, J
<1>4. Cardinality(J) = Cardinality(I) + (IF p[i] = v THEN 1 ELSE 0)
  BY <1>1, <1>2, <1>3
<1> QED BY <1>4 DEF At, I, J

LEMMA CountSame ==
  ASSUME NEW D, NEW p, NEW q, \A i \in D : p[i] = q[i], NEW v
  PROVE  At(p, D, v) = At(q, D, v)
<1>1. {i \in D : p[i] = v} = {i \in D : q[i] = v}
  OBVIOUS
<1> QED BY <1>1 DEF At

LEMMA CountMove ==
  ASSUME NEW D, IsFiniteSet(D), NEW i \in D, NEW p, NEW q, NEW v,
         \A j \in D : j # i => q[j] = p[j]
  PROVE  At(q, D, v) = At(p, D, v) - (IF p[i] = v THEN 1 ELSE 0) + (IF q[i] = v THEN 1 ELSE 0)
<1>1. /\ IsFiniteSet(D \ {i}) /\ i \notin D \ {i} /\ D = (D \ {i}) \cup {i}
      /\ \A j \in D \ {i} : p[j] = q[j]
  BY FS_Subset
<1>2. At(p, D \ {i}, v) = At(q, D \ {i}, v) /\ At(p, D \ {i}, v) \in Nat
  BY <1>1, CountSame, CountFacts
<1>3. /\ At(p, D, v) = At(p, D \ {i}, v) + (IF p[i] = v THEN 1 ELSE 0)
      /\ At(q, D, v) = At(q, D \ {i}, v) + (IF q[i] = v THEN 1 ELSE 0)
  <2> DEFINE E == D \ {i}
  <2>1. IsFiniteSet(E) /\ i \notin E /\ D = E \cup {i}
    BY <1>1
  <2> HIDE DEF E
  <2>2. /\ At(p, E \cup {i}, v) = At(p, E, v) + (IF p[i] = v THEN 1 ELSE 0)
        /\ At(q, E \cup {i}, v) = At(q, E, v) + (IF q[i] = v THEN 1 ELSE 0)
    BY <2>1, CountAdd
  <2> QED BY <2>1, <2>2 DEF E
<1> QED BY <1>2, <1>3

LEMMA SideUnique ==
  ASSUME NEW D, NEW p, \A i \in D : p[i] \in Int, NEW counted,
         NEW a, NEW b, IsSide(a, p, D, counted), IsSide(b, p, D, counted)
  PROVE  a = b
<1>1. a.lo = b.lo /\ a.hi = b.hi
  BY DEF IsSide
<1> QED BY <1>1 DEF IsSide

LEMMA WidenedSide ==
  ASSUME NEW D, IsFiniteSet(D), NEW i, i \notin D, NEW p, \A j \in D : p[j] \in Int,
         p[i] \in Int, NEW a, IsSide(a, p, D, TRUE)
  PROVE  IsSide(Widened(a, p[i]), p, D \cup {i}, TRUE)
<1> DEFINE v == p[i]
           w == Widened(a, v)
<1>1. /\ v \in Int /\ a.lo \in Int /\ a.hi \in Int
      /\ a.nlo = At(p, D, a.lo) /\ a.nhi = At(p, D, a.hi)
      /\ a.nlo \in Nat /\ a.nhi \in Nat
      /\ a.lo <= a.hi
  BY CountFacts DEF IsSide
<1>2. /\ w.lo = IF v <= a.lo THEN v ELSE a.lo
      /\ w.hi = IF v >= a.hi THEN v ELSE a.hi
      /\ w.nlo = IF v < a.lo THEN 1 ELSE IF v = a.lo THEN a.nlo + 1 ELSE a.nlo
      /\ w.nhi = IF v > a.hi THEN 1 ELSE IF v = a.hi THEN a.nhi + 1 ELSE a.nhi
      /\ w = [lo |-> w.lo, nlo |-> w.nlo, hi |-> w.hi, nhi |-> w.nhi]
  BY <1>1 DEF Widened, Larger, Smaller
<1>3. \A u : At(p, D \cup {i}, u) = At(p, D, u) + (IF v = u THEN 1 ELSE 0)
  BY CountAdd
<1>4. /\ v < a.lo => At(p, D, v) = 0
      /\ v > a.hi => At(p, D, v) = 0
  <2>1. v < a.lo \/ v > a.hi => \A j \in D : p[j] # v
    BY <1>1 DEF IsSide
  <2> QED BY <2>1, CountFacts
<1> HIDE DEF w
<1>5. w.nlo = At(p, D \cup {i}, w.lo) /\ w.nhi = At(p, D \cup {i}, w.hi)
  BY <1>1, <1>2, <1>3, <1>4
<1>6. \A j \in D \cup {i} : w.lo <= p[j] /\ p[j] <= w.hi
  BY <1>1, <1>2 DEF IsSide
<1>7. (\E j \in D \cup {i} : p[j] = w.lo) /\ (\E j \in D \cup {i} : p[j] = w.hi)
  BY <1>1, <1>2 DEF IsSide
<1>8. IsSide(w, p, D \cup {i}, TRUE)
  BY <1>2, <1>5, <1>6, <1>7 DEF IsSide
<1> QED BY <1>8 DEF w

\* A side is updated for a pin that moves, unless the pin was alone at an end.
LEMMA ShiftedSide ==
  ASSUME NEW D, IsFiniteSet(D), NEW i \in D, NEW p, \A j \in D : p[j] \in Int,
         NEW q, q[i] \in Int, \A j \in D : j # i => q[j] = p[j],
         NEW a, IsSide(a, p, D, TRUE), ~LosesEnd(a, p[i], q[i])
  PROVE  IsSide(Shifted(a, p[i], q[i]), q, D, TRUE)
<1> DEFINE old == p[i]
           new == q[i]
           w == Shifted(a, old, new)
<1>1. /\ old \in Int /\ new \in Int /\ a.lo \in Int /\ a.hi \in Int
      /\ a.nlo = At(p, D, a.lo) /\ a.nhi = At(p, D, a.hi)
      /\ a.nlo \in Nat /\ a.nhi \in Nat
      /\ a.lo <= old /\ old <= a.hi
      /\ a = [lo |-> a.lo, nlo |-> a.nlo, hi |-> a.hi, nhi |-> a.nhi]
  BY CountFacts DEF IsSide
<1>2. /\ w = [lo |-> w.lo, nlo |-> w.nlo, hi |-> w.hi, nhi |-> w.nhi]
      /\ w.lo = IF new < a.lo THEN new ELSE a.lo
      /\ w.hi = IF new > a.hi THEN new ELSE a.hi
      /\ w.nlo = IF new < a.lo THEN 1
                 ELSE IF new = old THEN a.nlo
                 ELSE IF new = a.lo THEN a.nlo + 1
                 ELSE IF old = a.lo THEN a.nlo - 1 ELSE a.nlo
      /\ w.nhi = IF new > a.hi THEN 1
                 ELSE IF new = old THEN a.nhi
                 ELSE IF new = a.hi THEN a.nhi + 1
                 ELSE IF old = a.hi THEN a.nhi - 1 ELSE a.nhi
  BY <1>1 DEF Shifted, Smaller, Larger
<1>3. \A u : At(q, D, u) = At(p, D, u) - (IF old = u THEN 1 ELSE 0) + (IF new = u THEN 1 ELSE 0)
  BY CountMove
<1>4. /\ new < a.lo => At(p, D, new) = 0
      /\ new > a.hi => At(p, D, new) = 0
  <2>1. new < a.lo \/ new > a.hi => \A j \in D : p[j] # new
    BY <1>1 DEF IsSide
  <2> QED BY <2>1, CountFacts
<1>5. /\ (new < old /\ old = a.hi) => \E j \in D : j # i /\ p[j] = a.hi
      /\ (new > old /\ old = a.lo) => \E j \in D : j # i /\ p[j] = a.lo
  BY <1>1, CountFacts DEF LosesEnd
<1> HIDE DEF w
<1>6. w.nlo = At(q, D, w.lo) /\ w.nhi = At(q, D, w.hi)
  BY <1>1, <1>2, <1>3, <1>4
<1>7. \A j \in D : w.lo <= q[j] /\ q[j] <= w.hi
  BY <1>1, <1>2 DEF IsSide
<1>8. \E j \in D : q[j] = w.lo
  <2>1. CASE new <= a.lo
    BY <1>1, <1>2, <2>1
  <2>2. CASE new > a.lo
    <3>1. \E j \in D : j # i /\ p[j] = a.lo
      <4>1. CASE old = a.lo
        BY <1>1, <1>5, <2>2, <4>1
      <4>2. CASE old # a.lo
        BY <4>2 DEF IsSide
      <4> QED BY <4>1, <4>2
    <3> QED BY <1>1, <1>2, <2>2, <3>1
  <2> QED BY <1>1, <2>1, <2>2
<1>9. \E j \in D : q[j] = w.hi
  <2>1. CASE new >= a.hi
    BY <1>1, <1>2, <2>1
  <2>2. CASE new < a.hi
    <3>1. \E j \in D : j # i /\ p[j] = a.hi
      <4>1. CASE old = a.hi
        BY <1>1, <1>5, <2>2, <4>1
      <4>2. CASE old # a.hi
        BY <4>2 DEF IsSide
      <4> QED BY <4>1, <4>2
    <3> QED BY <1>1, <1>2, <2>2, <3>1
  <2> QED BY <1>1, <2>1, <2>2
<1>10. IsSide(w, q, D, TRUE)
  BY <1>2, <1>6, <1>7, <1>8, <1>9 DEF IsSide
<1> QED BY <1>10 DEF w

-----------------------------------------------------------------------------
(* The boxes of nets.                                                      *)

Standing(locs)     == \A b \in Blocks : locs[b] \in Sites
PosOf(net, k, locs) == [i \in DOMAIN Pins[net] |-> Clipped(locs[Pins[net][i]])[k]]

Clip(v, size) == Larger(Smaller(v, size - 2), 1)
Size(k)       == IF k = 1 THEN Width ELSE Height

LEMMA ClippedIs ==
  ASSUME NEW s, NEW k \in 1..2
  PROVE  Clipped(s)[k] = Clip(s[k], Size(k))
<1>1. k = 1 \/ k = 2
  OBVIOUS
<1> QED BY <1>1 DEF Clipped, Clip, Size

LEMMA ClipMonotone ==
  ASSUME NEW k \in 1..2
  PROVE  /\ \A v \in Int : Clip(v, Size(k)) \in Int
         /\ \A v, w \in Int : v <= w => Clip(v, Size(k)) <= Clip(w, Size(k))
<1>1. Size(k) \in Int
  BY GridAssumption DEF Size
<1> QED BY <1>1 DEF Clip, Larger, Smaller

LEMMA PinFacts ==
  ASSUME NEW net \in Nets
  PROVE  /\ Len(Pins[net]) \in Nat /\ Len(Pins[net]) >= 1
         /\ DOMAIN Pins[net] = 1..Len(Pins[net]) /\ 1 \in DOMAIN Pins[net]
         /\ IsFiniteSet(DOMAIN Pins[net])
         /\ \A i \in DOMAIN Pins[net] : Pins[net][i] \in Blocks
<1>1. Pins[net] \in Seq(Blocks) /\ Pins[net] # <<>>
  BY PinAssumption
<1>2. IsFiniteSet(1..Len(Pins[net]))
  BY <1>1, FS_Interval
<1> QED BY <1>1, <1>2

LEMMA PosTypes ==
  ASSUME NEW net \in Nets, NEW k \in 1..2, NEW locs, Standing(locs)
  PROVE  \A i \in DOMAIN Pins[net] :
           /\ locs[Pins[net][i]][k] \in Int
           /\ PosOf(net, k, locs)[i] = Clip(locs[Pins[net][i]][k], Size(k))
           /\ PosOf(net, k, locs)[i] \in Int
<1> SUFFICES ASSUME NEW i \in DOMAIN Pins[net]
             PROVE  /\ locs[Pins[net][i]][k] \in Int
                    /\ PosOf(net, k, locs)[i] = Clip(locs[Pins[net][i]][k], Size(k))
                    /\ PosOf(net, k, locs)[i] \in Int
  OBVIOUS
<1>1. locs[Pins[net][i]] \in Vectors
  BY PinFacts, SiteCoordinates DEF Standing
<1>2. locs[Pins[net][i]][k] \in Int
  BY <1>1 DEF Vectors
<1>3. PosOf(net, k, locs)[i] = Clip(locs[Pins[net][i]][k], Size(k))
  BY ClippedIs DEF PosOf
<1> QED BY <1>2, <1>3, ClipMonotone

LEMMA Least ==
  ASSUME NEW D, IsFiniteSet(D), D # {}, NEW p, \A i \in D : p[i] \in Int
  PROVE  \E i \in D : \A j \in D : p[i] <= p[j]
<1> DEFINE Good == {s \in SUBSET D : s = {} \/ \E i \in s : \A j \in s : p[i] <= p[j]}
<1>1. {} \in Good
  OBVIOUS
<1>2. ASSUME NEW s \in SUBSET D, NEW x \in D \ s, s \in Good
      PROVE  s \cup {x} \in Good
  <2>1. CASE s = {}
    BY <2>1
  <2>2. CASE s # {}
    <3>1. PICK i \in s : \A j \in s : p[i] <= p[j]
      BY <1>2, <2>2
    <3>2. CASE p[i] <= p[x]
      BY <3>1, <3>2
    <3>3. CASE ~(p[i] <= p[x])
      <4>1. \A j \in s \cup {x} : p[x] <= p[j]
        BY <3>1, <3>3
      <4> QED BY <4>1
    <3> QED BY <3>2, <3>3
  <2> QED BY <2>1, <2>2
<1>3. D \in Good
  <2> HIDE DEF Good
  <2> QED BY <1>1, <1>2, SetInduction
<1> QED BY <1>3

LEMMA Ends ==
  ASSUME NEW D, IsFiniteSet(D), D # {}, NEW p, \A i \in D : p[i] \in Int,
         NEW S, S = {p[i] : i \in D}
  PROVE  /\ Sets!Min(S) \in S /\ \A v \in S : Sets!Min(S) <= v
         /\ Sets!Max(S) \in S /\ \A v \in S : v <= Sets!Max(S)
<1>1. \E v \in S : \A w \in S : v <= w
  BY Least
<1>2. \E v \in S : \A w \in S : w <= v
  <2> DEFINE m == [i \in D |-> -p[i]]
  <2>1. \A i \in D : m[i] \in Int
    OBVIOUS
  <2>2. PICK i \in D : \A j \in D : m[i] <= m[j]
    <3> HIDE DEF m
    <3> QED BY <2>1, Least
  <2>3. \A j \in D : p[j] <= p[i]
    BY <2>2
  <2> QED BY <2>3
<1>3. Sets!Min(S) \in S /\ \A v \in S : Sets!Min(S) <= v
  BY <1>1 DEF Sets!Min
<1>4. Sets!Max(S) \in S /\ \A v \in S : v <= Sets!Max(S)
  <2>1. \E v \in S : \A w \in S : v >= w
    BY <1>2
  <2>2. \A v \in S : v \in Int
    OBVIOUS
  <2>3. Sets!Max(S) \in S /\ \A v \in S : Sets!Max(S) >= v
    BY <2>1 DEF Sets!Max
  <2> QED BY <2>2, <2>3
<1> QED BY <1>3, <1>4

LEMMA SideOfIs ==
  ASSUME NEW net \in Nets, NEW k \in 1..2, NEW locs, Standing(locs)
  PROVE  IsSide(SideOf(net, k, locs), PosOf(net, k, locs), DOMAIN Pins[net], Large(net))
<1> DEFINE D == DOMAIN Pins[net]
           p == PosOf(net, k, locs)
           S == {p[i] : i \in D}
           a == SideOf(net, k, locs)
<1>1. IsFiniteSet(D) /\ D # {} /\ \A i \in D : p[i] \in Int
  BY PinFacts, PosTypes
<1>2. /\ Sets!Min(S) \in S /\ \A v \in S : Sets!Min(S) <= v
      /\ Sets!Max(S) \in S /\ \A v \in S : v <= Sets!Max(S)
  <2>1. IsFiniteSet(D) /\ D # {} /\ (\A i \in D : p[i] \in Int) /\ S = {p[i] : i \in D}
    BY <1>1
  <2> HIDE DEF D, p, S, a
  <2> QED BY <2>1, Ends
<1>3. \A i \in D : p[i] = Clipped(locs[Pins[net][i]])[k]
  BY DEF PosOf
<1>4. S = {Clipped(locs[Pins[net][i]])[k] : i \in D}
  BY <1>3
<1>5. \A v : At(p, D, v) = Cardinality({i \in D : Clipped(locs[Pins[net][i]])[k] = v})
  <2> SUFFICES ASSUME NEW v
               PROVE  At(p, D, v) = Cardinality({i \in D : Clipped(locs[Pins[net][i]])[k] = v})
    OBVIOUS
  <2>1. {i \in D : p[i] = v} = {i \in D : Clipped(locs[Pins[net][i]])[k] = v}
    BY <1>3
  <2> QED BY <2>1 DEF At
<1>6. a = [lo  |-> Sets!Min(S), nlo |-> IF Large(net) THEN At(p, D, Sets!Min(S)) ELSE 0,
           hi  |-> Sets!Max(S), nhi |-> IF Large(net) THEN At(p, D, Sets!Max(S)) ELSE 0]
  <2> HIDE DEF p
  <2> QED BY <1>4, <1>5 DEF SideOf
<1> HIDE DEF a, p, D
<1>7. IsSide(a, p, D, Large(net))
  BY <1>2, <1>6 DEF IsSide
<1> QED BY <1>7 DEF a, p, D

\* get_non_updateable_bb clips the ends of the box, not the pins.
LEMMA NonUpdateableSide ==
  ASSUME NEW net \in Nets, Standing(block_locs), NEW k \in 1..2
  PROVE  NonUpdateable(net)[k] = [lo |-> SideOf(net, k, block_locs).lo, nlo |-> 0,
                                  hi |-> SideOf(net, k, block_locs).hi, nhi |-> 0]
<1> DEFINE D == DOMAIN Pins[net]
           raw == [i \in D |-> block_locs[Pins[net][i]][k]]
           S == {raw[i] : i \in D}
           p == PosOf(net, k, block_locs)
           a == SideOf(net, k, block_locs)
<1>1. /\ IsFiniteSet(D) /\ D # {} /\ \A i \in D : raw[i] \in Int
      /\ \A i \in D : p[i] = Clip(raw[i], Size(k))
  BY PinFacts, PosTypes
<1>2. /\ Sets!Min(S) \in S /\ \A v \in S : Sets!Min(S) <= v
      /\ Sets!Max(S) \in S /\ \A v \in S : v <= Sets!Max(S)
  <2>1. IsFiniteSet(D) /\ D # {} /\ (\A i \in D : raw[i] \in Int) /\ S = {raw[i] : i \in D}
    BY <1>1
  <2> HIDE DEF D, raw, S, p, a
  <2> QED BY <2>1, Ends
<1>3. S = {s[k] : s \in {block_locs[b] : b \in Seqs!ToSet(Pins[net])}}
  <2> DEFINE at == {block_locs[b] : b \in Seqs!ToSet(Pins[net])}
  <2>1. \A i \in D : block_locs[Pins[net][i]] \in at
    BY DEF Seqs!ToSet
  <2>2. \A s \in at : \E i \in D : s = block_locs[Pins[net][i]]
    BY DEF Seqs!ToSet
  <2>3. \A i \in D : raw[i] = block_locs[Pins[net][i]][k]
    OBVIOUS
  <2> HIDE DEF raw, at, D
  <2>4. S = {s[k] : s \in at}
    BY <2>1, <2>2, <2>3
  <2> QED BY <2>4 DEF at
<1>4. NonUpdateable(net)[k] = [lo |-> Clip(Sets!Min(S), Size(k)), nlo |-> 0,
                               hi |-> Clip(Sets!Max(S), Size(k)), nhi |-> 0]
  <2> HIDE DEF S
  <2> DEFINE at == {block_locs[b] : b \in Seqs!ToSet(Pins[net])}
             lo == [j \in 1..2 |-> Sets!Min({s[j] : s \in at})]
             hi == [j \in 1..2 |-> Sets!Max({s[j] : s \in at})]
  <2>1. lo[k] = Sets!Min(S) /\ hi[k] = Sets!Max(S)
    BY <1>3
  <2>2. NonUpdateable(net)[k] = [lo |-> Clipped(lo)[k], nlo |-> 0, hi |-> Clipped(hi)[k], nhi |-> 0]
    BY DEF NonUpdateable
  <2> HIDE DEF lo, hi
  <2> QED BY <2>1, <2>2, ClippedIs
<1>5. IsSide(a, p, D, Large(net))
  BY SideOfIs
<1> HIDE DEF D, p, a, raw
<1>6. a.lo = Clip(Sets!Min(S), Size(k)) /\ a.hi = Clip(Sets!Max(S), Size(k))
  <2>1. PICK i \in D : raw[i] = Sets!Min(S)
    BY <1>2
  <2>2. PICK j \in D : raw[j] = Sets!Max(S)
    BY <1>2
  <2>3. \A l \in D : raw[i] <= raw[l] /\ raw[l] <= raw[j]
    BY <1>2, <2>1, <2>2
  <2>4. \A l \in D : p[l] \in Int /\ p[i] <= p[l] /\ p[l] <= p[j]
    BY <1>1, <2>3, ClipMonotone
  <2>5. a.lo = p[i] /\ a.hi = p[j]
    BY <1>5, <2>4 DEF IsSide
  <2> QED BY <1>1, <2>1, <2>2, <2>5
<1> QED BY <1>4, <1>6 DEF a

LEMMA NonUpdateableBox ==
  ASSUME NEW net \in Nets, Standing(block_locs), ~Large(net)
  PROVE  NonUpdateable(net) = [k \in 1..2 |-> SideOf(net, k, block_locs)]
<1>1. ASSUME NEW k \in 1..2
      PROVE  NonUpdateable(net)[k] = SideOf(net, k, block_locs)
  <2>1. SideOf(net, k, block_locs).nlo = 0 /\ SideOf(net, k, block_locs).nhi = 0
    BY SideOfIs DEF IsSide
  <2>2. SideOf(net, k, block_locs)
          = [lo |-> SideOf(net, k, block_locs).lo, nlo |-> SideOf(net, k, block_locs).nlo,
             hi |-> SideOf(net, k, block_locs).hi, nhi |-> SideOf(net, k, block_locs).nhi]
    BY SideOfIs DEF IsSide
  <2> QED BY <2>1, <2>2, NonUpdateableSide
<1>2. NonUpdateable(net) = [k \in 1..2 |-> NonUpdateable(net)[k]]
  BY DEF NonUpdateable
<1> QED BY <1>1, <1>2

\* get_bb_from_scratch, pin by pin.
FirstSide(v)     == [lo |-> v, nlo |-> 1, hi |-> v, nhi |-> 1]
IsScan(f, at, n) == f = [i \in 1..n |-> [k \in 1..2 |->
                      IF i = 1 THEN FirstSide(at[1][k]) ELSE Widened(f[i - 1][k], at[i][k])]]

LEMMA ScanExists ==
  ASSUME NEW at, NEW n \in Nat
  PROVE  \E f : IsScan(f, at, n)
<1> DEFINE Good == {m \in Nat : \E f : IsScan(f, at, m)}
<1>1. 0 \in Good
  <2>1. IsScan([i \in 1..0 |-> 0], at, 0)
    BY DEF IsScan
  <2> QED BY <2>1
<1>2. \A m \in Nat : m \in Good => m + 1 \in Good
  <2> SUFFICES ASSUME NEW m \in Nat, NEW f, IsScan(f, at, m) PROVE \E h : IsScan(h, at, m + 1)
    OBVIOUS
  <2> DEFINE h == [i \in 1..m + 1 |-> [k \in 1..2 |->
                    IF i = 1 THEN FirstSide(at[1][k]) ELSE Widened(f[i - 1][k], at[i][k])]]
  <2>1. \A i \in 1..m : h[i] = f[i]
    BY DEF IsScan
  <2>2. \A i \in 1..m + 1 : i # 1 => h[i - 1] = f[i - 1]
    <3> HIDE DEF h
    <3>1. \A i \in 1..m + 1 : i # 1 => i - 1 \in 1..m
      OBVIOUS
    <3> QED BY <2>1, <3>1
  <2>3. IsScan(h, at, m + 1)
    BY <2>2 DEF IsScan
  <2> QED BY <2>3
<1>3. Nat \subseteq Good
  <2> HIDE DEF Good
  <2> QED BY <1>1, <1>2, NatSetInduction
<1> QED BY <1>3

LEMMA FromScratchBox ==
  ASSUME NEW net \in Nets, Standing(block_locs), Large(net)
  PROVE  FromScratch(net) = [k \in 1..2 |-> SideOf(net, k, block_locs)]
<1> DEFINE n == Len(Pins[net])
           at(i) == Clipped(block_locs[Pins[net][i]])
           pos == [i \in 1..n |-> at(i)]
           Is(f) == f = [i \in DOMAIN Pins[net] |-> [k \in 1..2 |->
                      IF i = 1 THEN [lo |-> at(1)[k], nlo |-> 1, hi |-> at(1)[k], nhi |-> 1]
                      ELSE Widened(f[i - 1][k], at(i)[k])]]
           side == CHOOSE f : Is(f)
           p(k) == PosOf(net, k, block_locs)
<1>0. n \in Nat /\ n >= 1 /\ DOMAIN Pins[net] = 1..n
  BY PinFacts
<1>1. Is(side)
  <2>1. PICK f : IsScan(f, pos, n)
    BY <1>0, ScanExists
  <2>2. 1 \in 1..n /\ \A i \in 1..n : pos[i] = at(i)
    BY <1>0
  <2>3. Is(f)
    <3> HIDE DEF pos, at, n
    <3> QED BY <1>0, <2>1, <2>2 DEF IsScan, FirstSide
  <2> HIDE DEF Is
  <2> QED BY <2>3
<1>2. FromScratch(net) = side[n]
  BY DEF FromScratch
<1>3. \A k \in 1..2 : \A i \in 1..n : p(k)[i] = at(i)[k] /\ p(k)[i] \in Int
  BY <1>0, PosTypes DEF PosOf
<1> HIDE DEF at, side, p, n
<1>4. /\ side = [i \in 1..n |-> side[i]]
      /\ \A i \in 1..n : side[i] = [k \in 1..2 |->
           IF i = 1 THEN FirstSide(p(k)[1]) ELSE Widened(side[i - 1][k], p(k)[i])]
  <2>1. /\ side = [i \in 1..n |-> side[i]]
        /\ \A i \in 1..n : side[i] = [k \in 1..2 |->
             IF i = 1 THEN FirstSide(at(1)[k]) ELSE Widened(side[i - 1][k], at(i)[k])]
    BY <1>0, <1>1 DEF FirstSide
  <2>2. \A i \in 1..n : \A k \in 1..2 : p(k)[i] = at(i)[k] /\ p(k)[1] = at(1)[k]
    BY <1>0, <1>3
  <2> HIDE DEF Is
  <2> QED BY <2>1, <2>2
<1> DEFINE Claim(m) == m \in 1..n => \A k \in 1..2 : IsSide(side[m][k], p(k), 1..m, TRUE)
           Good == {m \in Nat : Claim(m)}
<1>5. 0 \in Good
  OBVIOUS
<1>6. ASSUME NEW m \in Nat, m \in Good PROVE m + 1 \in Good
  <2>1. ASSUME m + 1 \in 1..n, NEW k \in 1..2
        PROVE  IsSide(side[m + 1][k], p(k), 1..m + 1, TRUE)
    <3>0. p(k)[m + 1] \in Int /\ \A j \in 1..m : j \in 1..n /\ p(k)[j] \in Int
      BY <1>0, <1>3, <2>1
    <3>1. CASE m = 0
      <4>1. side[1][k] = FirstSide(p(k)[1]) /\ p(k)[1] \in Int /\ m + 1 = 1
        BY <1>0, <1>4, <2>1, <3>0, <3>1
      <4>2. At(p(k), 1..1, p(k)[1]) = 1
        <5>1. {i \in 1..1 : p(k)[i] = p(k)[1]} = {1}
          OBVIOUS
        <5> QED BY <5>1, FS_Singleton DEF At
      <4>3. IsSide(side[1][k], p(k), 1..1, TRUE)
        BY <4>1, <4>2 DEF IsSide, FirstSide
      <4> QED BY <4>1, <4>3
    <3>2. CASE m # 0
      <4>1. m \in 1..n
        BY <1>0, <2>1, <3>2
      <4>2. IsSide(side[m][k], p(k), 1..m, TRUE)
        BY <1>6, <2>1, <4>1
      <4>3. side[m + 1][k] = Widened(side[m][k], p(k)[m + 1])
        <5>1. m + 1 # 1 /\ (m + 1) - 1 = m
          BY <3>2
        <5>2. side[m + 1][k] = IF m + 1 = 1 THEN FirstSide(p(k)[1])
                               ELSE Widened(side[(m + 1) - 1][k], p(k)[m + 1])
          BY <1>4, <2>1
        <5> QED BY <5>1, <5>2
      <4>4. IsFiniteSet(1..m)
        BY FS_Interval
      <4>5. m + 1 \notin 1..m
        OBVIOUS
      <4>6. 1..m + 1 = (1..m) \cup {m + 1}
        OBVIOUS
      <4>7. \A j \in 1..m : p(k)[j] \in Int
        BY <3>0
      <4>8. IsSide(Widened(side[m][k], p(k)[m + 1]), p(k), (1..m) \cup {m + 1}, TRUE)
        BY <3>0, <4>2, <4>4, <4>5, <4>7, WidenedSide
      <4> QED BY <4>3, <4>6, <4>8
    <3> QED BY <3>1, <3>2
  <2>2. Claim(m + 1)
    BY <2>1
  <2> HIDE DEF Claim
  <2> QED BY <2>2
<1>7. n \in Good
  <2> HIDE DEF Good
  <2>1. Nat \subseteq Good
    BY <1>5, <1>6, NatSetInduction
  <2> QED BY <1>0, <2>1
<1>8. ASSUME NEW k \in 1..2 PROVE side[n][k] = SideOf(net, k, block_locs)
  <2>1. n \in 1..n
    BY <1>0
  <2>2. IsSide(side[n][k], p(k), 1..n, TRUE)
    BY <1>7, <2>1
  <2>3. IsSide(SideOf(net, k, block_locs), p(k), 1..n, TRUE)
    BY <1>0, SideOfIs DEF p
  <2> QED BY <1>3, <2>2, <2>3, SideUnique
<1>9. side[n] = [k \in 1..2 |-> side[n][k]]
  <2>1. n \in 1..n
    BY <1>0
  <2>2. \A i \in 1..n : side[i] = [k \in 1..2 |-> side[i][k]]
    BY <1>4
  <2> QED BY <2>1, <2>2
<1> QED BY <1>2, <1>8, <1>9

-----------------------------------------------------------------------------
(* The pins of the moved blocks.                                           *)

PinRecords == {x \in [move : Moves, net : Nets, pin : Nat] :
                 /\ x.pin \in DOMAIN Pins[x.net]
                 /\ Pins[x.net][x.pin] = x.move.blk}
\* A list of pins is that of the first i moved blocks.
IsPinList(q, i) ==
  /\ q \in Seq(PinRecords)
  /\ \A n \in DOMAIN q : \E r \in 1..i : q[n].move = moved[r]
  /\ \A n, m \in DOMAIN q : q[n].net = q[m].net /\ q[n].pin = q[m].pin => n = m
  /\ \A r \in 1..i : \A net \in Nets : \A k \in DOMAIN Pins[net] :
       Pins[net][k] = moved[r].blk => \E n \in DOMAIN q : q[n].net = net /\ q[n].pin = k

LEMMA PinsOfFacts ==
  ASSUME NEW m \in Moves
  PROVE  /\ PinsOf(m) \in Seq(PinRecords)
         /\ \A n \in DOMAIN PinsOf(m) : PinsOf(m)[n].move = m
         /\ \A n, l \in DOMAIN PinsOf(m) :
              PinsOf(m)[n].net = PinsOf(m)[l].net /\ PinsOf(m)[n].pin = PinsOf(m)[l].pin => n = l
         /\ \A net \in Nets : \A k \in DOMAIN Pins[net] :
              Pins[net][k] = m.blk =>
                \E n \in DOMAIN PinsOf(m) : PinsOf(m)[n].net = net /\ PinsOf(m)[n].pin = k
<1> DEFINE B == BlockPins[m.blk]
           P == UNION {{net} \X DOMAIN Pins[net] : net \in Nets}
<1>1. m.blk \in Blocks
  BY DEF Moves
<1>2. /\ B \in Seq(P) /\ \A k, l \in DOMAIN B : B[k] = B[l] => k = l
      /\ \A net \in Nets : \A i \in DOMAIN Pins[net] :
           Pins[net][i] = m.blk <=> \E k \in DOMAIN B : B[k] = <<net, i>>
  <2>1. B \in Seq(P)
    BY <1>1, PinAssumption
  <2>2. \A k, l \in DOMAIN B : B[k] = B[l] => k = l
    <3>1. Seqs!IsInjective(B)
      BY <1>1, PinAssumption
    <3> QED BY <3>1 DEF Seqs!IsInjective
  <2>3. ASSUME NEW net \in Nets, NEW i \in DOMAIN Pins[net]
        PROVE  Pins[net][i] = m.blk <=> \E k \in DOMAIN B : B[k] = <<net, i>>
    <3>1. Pins[net][i] = m.blk <=> <<net, i>> \in Seqs!ToSet(B)
      BY <1>1, PinAssumption
    <3> QED BY <3>1 DEF Seqs!ToSet
  <2> QED BY <2>1, <2>2, <2>3
<1>3. Len(B) \in Nat /\ DOMAIN B = 1..Len(B) /\ \A k \in DOMAIN B : B[k] \in P
  <2> HIDE DEF B, P
  <2> QED BY <1>2
<1>4. \A k \in DOMAIN B : /\ B[k] = <<B[k][1], B[k][2]>>
                          /\ B[k][1] \in Nets /\ B[k][2] \in DOMAIN Pins[B[k][1]]
  BY <1>3
<1> HIDE DEF B, P
<1>5. \A k \in DOMAIN B : B[k][2] \in Nat /\ Pins[B[k][1]][B[k][2]] = m.blk
  BY <1>2, <1>4, PinFacts
<1>6. PinsOf(m) = [k \in 1..Len(B) |-> [move |-> m, net |-> B[k][1], pin |-> B[k][2]]]
  BY <1>3 DEF PinsOf, B
<1>7. \A k \in 1..Len(B) : [move |-> m, net |-> B[k][1], pin |-> B[k][2]] \in PinRecords
  BY <1>3, <1>4, <1>5 DEF PinRecords
<1>8. PinsOf(m) \in Seq(PinRecords)
  BY <1>3, <1>6, <1>7
<1>9. /\ DOMAIN PinsOf(m) = DOMAIN B
      /\ \A k \in DOMAIN B : /\ PinsOf(m)[k].move = m
                             /\ PinsOf(m)[k].net = B[k][1] /\ PinsOf(m)[k].pin = B[k][2]
  BY <1>3, <1>6
<1> QED BY <1>2, <1>4, <1>8, <1>9

LEMMA PinListExtend ==
  ASSUME moved \in Seq(Moves), Once(moved), NEW i \in Nat, i + 1 <= Len(moved),
         NEW q, IsPinList(q, i)
  PROVE  IsPinList(q \o PinsOf(moved[i + 1]), i + 1)
<1> DEFINE r == i + 1
           s == PinsOf(moved[r])
           w == q \o s
<1>1. r \in DOMAIN moved /\ moved[r] \in Moves
  BY MoveTypes
<1>2. /\ s \in Seq(PinRecords)
      /\ \A n \in DOMAIN s : s[n].move = moved[r]
      /\ \A n, l \in DOMAIN s : s[n].net = s[l].net /\ s[n].pin = s[l].pin => n = l
      /\ \A net \in Nets : \A k \in DOMAIN Pins[net] :
           Pins[net][k] = moved[r].blk => \E n \in DOMAIN s : s[n].net = net /\ s[n].pin = k
  BY <1>1, PinsOfFacts
<1> HIDE DEF s
<1>3. /\ q \in Seq(PinRecords)
      /\ \A n \in DOMAIN q : \E l \in 1..i : q[n].move = moved[l]
      /\ \A n, m \in DOMAIN q : q[n].net = q[m].net /\ q[n].pin = q[m].pin => n = m
      /\ \A l \in 1..i : \A net \in Nets : \A k \in DOMAIN Pins[net] :
           Pins[net][k] = moved[l].blk => \E n \in DOMAIN q : q[n].net = net /\ q[n].pin = k
  BY DEF IsPinList
<1>4. /\ w \in Seq(PinRecords) /\ Len(w) = Len(q) + Len(s)
      /\ Len(q) \in Nat /\ Len(s) \in Nat
      /\ DOMAIN q = 1..Len(q) /\ DOMAIN s = 1..Len(s) /\ DOMAIN w = 1..Len(q) + Len(s)
      /\ \A n \in 1..Len(q) : w[n] = q[n]
      /\ \A n \in 1..Len(s) : w[Len(q) + n] = s[n]
  BY <1>2, <1>3
<1> HIDE DEF w
<1>5. \A n \in DOMAIN w : n \in DOMAIN q \/ (n - Len(q) \in DOMAIN s /\ w[n] = s[n - Len(q)])
  <2> SUFFICES ASSUME NEW n \in 1..Len(q) + Len(s), n \notin 1..Len(q)
               PROVE  n - Len(q) \in 1..Len(s) /\ w[n] = s[n - Len(q)]
    BY <1>4
  <2>1. n - Len(q) \in 1..Len(s) /\ Len(q) + (n - Len(q)) = n
    BY <1>4
  <2> QED BY <1>4, <2>1
<1>6. ASSUME NEW n \in DOMAIN w PROVE \E l \in 1..r : w[n].move = moved[l]
  <2>1. CASE n \in DOMAIN q
    <3>1. PICK l \in 1..i : q[n].move = moved[l]
      BY <1>3, <2>1
    <3>2. l \in 1..r /\ w[n] = q[n]
      BY <1>4, <2>1
    <3> QED BY <3>1, <3>2
  <2>2. CASE n \notin DOMAIN q
    <3>1. w[n].move = moved[r] /\ r \in 1..r
      BY <1>2, <1>5, <2>2
    <3> QED BY <3>1
  <2> QED BY <2>1, <2>2
<1>7. ASSUME NEW n \in DOMAIN q, NEW m \in DOMAIN s
      PROVE  ~(q[n].net = s[m].net /\ q[n].pin = s[m].pin)
  <2>1. PICK l \in 1..i : q[n].move = moved[l]
    BY <1>3
  <2>2. l \in DOMAIN moved /\ l # r
    BY <1>1
  <2>3. moved[l].blk # moved[r].blk
    BY <1>1, <2>2 DEF Once
  <2>4. q[n] \in PinRecords /\ s[m] \in PinRecords
    BY <1>2, <1>3, <1>4
  <2>5. Pins[q[n].net][q[n].pin] = moved[l].blk /\ Pins[s[m].net][s[m].pin] = moved[r].blk
    BY <1>2, <2>1, <2>4 DEF PinRecords
  <2> QED BY <2>3, <2>5
<1>8. ASSUME NEW n \in DOMAIN w, NEW m \in DOMAIN w, w[n].net = w[m].net, w[n].pin = w[m].pin
      PROVE  n = m
  <2>1. CASE n \in DOMAIN q /\ m \in DOMAIN q
    BY <1>3, <1>4, <1>8, <2>1
  <2>2. CASE n \in DOMAIN q /\ m \notin DOMAIN q
    BY <1>4, <1>5, <1>7, <1>8, <2>2
  <2>3. CASE n \notin DOMAIN q /\ m \in DOMAIN q
    BY <1>4, <1>5, <1>7, <1>8, <2>3
  <2>4. CASE n \notin DOMAIN q /\ m \notin DOMAIN q
    <3>1. n - Len(q) = m - Len(q)
      BY <1>2, <1>5, <1>8, <2>4
    <3> QED BY <1>4, <3>1
  <2> QED BY <2>1, <2>2, <2>3, <2>4
<1>9. ASSUME NEW l \in 1..r, NEW net \in Nets, NEW k \in DOMAIN Pins[net],
             Pins[net][k] = moved[l].blk
      PROVE  \E n \in DOMAIN w : w[n].net = net /\ w[n].pin = k
  <2>1. CASE l = r
    <3>1. PICK n \in DOMAIN s : s[n].net = net /\ s[n].pin = k
      BY <1>2, <1>9, <2>1
    <3>2. Len(q) + n \in DOMAIN w /\ w[Len(q) + n] = s[n]
      BY <1>4
    <3> QED BY <3>1, <3>2
  <2>2. CASE l # r
    <3>1. PICK n \in DOMAIN q : q[n].net = net /\ q[n].pin = k
      BY <1>3, <1>9, <2>2
    <3>2. n \in DOMAIN w /\ w[n] = q[n]
      BY <1>4
    <3> QED BY <3>1, <3>2
  <2> QED BY <2>1, <2>2
<1>10. IsPinList(w, r)
  BY <1>4, <1>6, <1>8, <1>9 DEF IsPinList
<1> QED BY <1>10 DEF w, s

IsPinScan(f, n) ==
  f = [i \in 0..n |-> IF i = 0 THEN <<>> ELSE f[i - 1] \o PinsOf(moved[i])]

LEMMA PinScanExists ==
  ASSUME NEW n \in Nat
  PROVE  \E f : IsPinScan(f, n)
<1> DEFINE Good == {m \in Nat : \E f : IsPinScan(f, m)}
<1>1. 0 \in Good
  <2>1. IsPinScan([i \in 0..0 |-> <<>>], 0)
    BY DEF IsPinScan
  <2> QED BY <2>1
<1>2. \A m \in Nat : m \in Good => m + 1 \in Good
  <2> SUFFICES ASSUME NEW m \in Nat, NEW f, IsPinScan(f, m) PROVE \E h : IsPinScan(h, m + 1)
    OBVIOUS
  <2> DEFINE h == [i \in 0..m + 1 |-> IF i = 0 THEN <<>> ELSE f[i - 1] \o PinsOf(moved[i])]
  <2>1. \A i \in 0..m : h[i] = f[i]
    BY DEF IsPinScan
  <2>2. \A i \in 0..m + 1 : i # 0 => h[i - 1] = f[i - 1]
    <3> HIDE DEF h
    <3>1. \A i \in 0..m + 1 : i # 0 => i - 1 \in 0..m
      OBVIOUS
    <3> QED BY <2>1, <3>1
  <2>3. IsPinScan(h, m + 1)
    BY <2>2 DEF IsPinScan
  <2> QED BY <2>3
<1>3. Nat \subseteq Good
  <2> HIDE DEF Good
  <2> QED BY <1>1, <1>2, NatSetInduction
<1> QED BY <1>3

\* The loops look at every pin of a moved block, once.
LEMMA MovedPinsFacts ==
  ASSUME moved \in Seq(Moves), Once(moved)
  PROVE  IsPinList(MovedPins, Len(moved))
<1> DEFINE n == Len(moved)
           f == CHOOSE f : IsPinScan(f, n)
<1>1. n \in Nat
  OBVIOUS
<1>2. IsPinScan(f, n)
  <2> HIDE DEF n
  <2> QED BY <1>1, PinScanExists
<1>3. MovedPins = f[n]
  BY DEF MovedPins, IsPinScan
<1> HIDE DEF f
<1>4. f[0] = <<>> /\ \A i \in 1..n : f[i] = f[i - 1] \o PinsOf(moved[i])
  <2> HIDE DEF n
  <2>1. \A i \in 0..n : f[i] = IF i = 0 THEN <<>> ELSE f[i - 1] \o PinsOf(moved[i])
    BY <1>2 DEF IsPinScan
  <2>2. 0 \in 0..n /\ \A i \in 1..n : i \in 0..n /\ i # 0
    BY <1>1
  <2> QED BY <2>1, <2>2
<1> DEFINE Claim(i) == i <= n => IsPinList(f[i], i)
           Good == {i \in Nat : Claim(i)}
<1>5. 0 \in Good
  <2>1. IsPinList(<<>>, 0)
    BY DEF IsPinList
  <2> QED BY <1>4, <2>1
<1>6. ASSUME NEW i \in Nat, i \in Good PROVE i + 1 \in Good
  <2>1. ASSUME i + 1 <= n PROVE IsPinList(f[i + 1], i + 1)
    <3>1. IsPinList(f[i], i)
      BY <1>1, <1>6, <2>1
    <3>2. i + 1 \in 1..n /\ (i + 1) - 1 = i
      BY <1>1, <2>1
    <3>3. f[i + 1] = f[i] \o PinsOf(moved[i + 1])
      BY <1>4, <3>2
    <3> QED BY <2>1, <3>1, <3>3, PinListExtend
  <2> HIDE DEF n
  <2> QED BY <2>1
<1>7. n \in Good
  <2> HIDE DEF Good
  <2>1. Nat \subseteq Good
    BY <1>5, <1>6, NatSetInduction
  <2> QED BY <1>1, <2>1
<1> QED BY <1>1, <1>3, <1>7

-----------------------------------------------------------------------------
(* The connections that a move is charged with.                            *)

\* A move that is to be judged: who has moved, from where to where.
MoveMade ==
  /\ moved \in Seq(Moves) /\ Once(moved)
  /\ Standing(block_locs) /\ Standing(Undone)
  /\ \A i \in DOMAIN moved : /\ moved[i].blk \in Blocks
                             /\ moved[i].new = block_locs[moved[i].blk]
                             /\ moved[i].old = Undone[moved[i].blk]
  /\ \A b \in Blocks : (\A i \in DOMAIN moved : moved[i].blk # b) => block_locs[b] = Undone[b]

LEMMA MoveIsMade ==
  ASSUME IInv, phase = "assess"
  PROVE  MoveMade
<1>1. /\ moved \in Seq(Moves)
      /\ \A i, j \in DOMAIN moved : moved[i].blk = moved[j].blk => i = j
      /\ \A i \in DOMAIN moved : /\ moved[i].blk \in Blocks
                                 /\ moved[i].new = block_locs[moved[i].blk]
                                 /\ moved[i].old = Undone[moved[i].blk]
  BY RecordFacts
<1>2. \A b \in Blocks : block_locs[b] \in Sites /\ Undone[b] \in Sites
  BY BeforeAndAfter
<1>3. Once(moved)
  BY <1>1 DEF Once
<1>4. \A b \in Blocks : (\A i \in DOMAIN moved : moved[i].blk # b) => block_locs[b] = Undone[b]
  BY <1>1, <1>3, RestoredOnce, UndoneRestored
<1> QED BY <1>1, <1>2, <1>3, <1>4 DEF MoveMade, Standing

\* The first n pins, and the connections they are charged with.
Looked(n)  == {<<MovedPins[l].net, MovedPins[l].pin>> : l \in 1..n}
Charged(n) == {c \in Connections :
                 \E i \in DOMAIN Pins[c[1]] : <<c[1], i>> \in Looked(n) /\ c \in Due(c[1], i)}

LEMMA ConnectionParts ==
  /\ \A c : c \in Connections <=>
       \E net \in Routed : \E i \in 2..Len(Pins[net]) : c = <<net, i>>
  /\ \A c \in Connections : c[1] \in Routed /\ c[2] \in 2..Len(Pins[c[1]]) /\ c = <<c[1], c[2]>>
BY DEF Connections, Sinks

LEMMA PinAt ==
  ASSUME MoveMade, NEW n \in DOMAIN MovedPins
  PROVE  LET x == MovedPins[n]
         IN  /\ x \in PinRecords /\ x.net \in Nets
             /\ x.pin \in DOMAIN Pins[x.net] /\ x.pin \in Nat
             /\ \E r \in DOMAIN moved : x.move = moved[r] /\ moved[r].blk = Pins[x.net][x.pin]
             /\ x.move.old = Undone[Pins[x.net][x.pin]]
             /\ x.move.new = block_locs[Pins[x.net][x.pin]]
<1> DEFINE x == MovedPins[n]
<1>1. IsPinList(MovedPins, Len(moved))
  BY MovedPinsFacts DEF MoveMade
<1>2. x \in PinRecords
  BY <1>1 DEF IsPinList
<1>3. PICK r \in 1..Len(moved) : x.move = moved[r]
  BY <1>1 DEF IsPinList
<1>4. r \in DOMAIN moved
  BY DEF MoveMade
<1>5. x.net \in Nets /\ x.pin \in DOMAIN Pins[x.net] /\ x.pin \in Nat /\ Pins[x.net][x.pin] = x.move.blk
  BY <1>2 DEF PinRecords
<1> QED BY <1>2, <1>3, <1>4, <1>5 DEF MoveMade

LEMMA PinCount ==
  ASSUME MoveMade
  PROVE  Len(MovedPins) \in Nat /\ DOMAIN MovedPins = 1..Len(MovedPins)
<1>1. IsPinList(MovedPins, Len(moved))
  BY MovedPinsFacts DEF MoveMade
<1>2. MovedPins \in Seq(PinRecords)
  BY <1>1 DEF IsPinList
<1> QED BY <1>2

LEMMA LookedStep ==
  ASSUME MoveMade, NEW n \in DOMAIN MovedPins
  PROVE  LET x == MovedPins[n]
         IN  /\ Looked(n) = Looked(n - 1) \cup {<<x.net, x.pin>>}
             /\ <<x.net, x.pin>> \notin Looked(n - 1)
<1> DEFINE x == MovedPins[n]
<1>1. IsPinList(MovedPins, Len(moved))
  BY MovedPinsFacts DEF MoveMade
<1>2. n \in Nat /\ n >= 1 /\ n \in 1..Len(MovedPins) /\ Len(MovedPins) \in Nat
  BY PinCount
<1>3. Looked(n) = Looked(n - 1) \cup {<<x.net, x.pin>>}
  <2>1. \A l : l \in 1..n <=> l \in 1..n - 1 \/ l = n
    BY <1>2
  <2> QED BY <2>1 DEF Looked
<1>4. <<x.net, x.pin>> \notin Looked(n - 1)
  <2> SUFFICES ASSUME NEW l \in 1..n - 1, <<x.net, x.pin>> = <<MovedPins[l].net, MovedPins[l].pin>>
               PROVE  FALSE
    BY DEF Looked
  <2>1. l \in DOMAIN MovedPins /\ l # n
    BY <1>2, PinCount
  <2> QED BY <1>1, <2>1 DEF IsPinList
<1> QED BY <1>3, <1>4

\* Every connection is charged once, whichever of its ends have moved.
LEMMA ChargedStep ==
  ASSUME MoveMade, NEW n \in DOMAIN MovedPins
  PROVE  LET x == MovedPins[n]
             due == IF x.net \in Routed THEN Due(x.net, x.pin) ELSE {}
         IN  /\ Charged(n) = Charged(n - 1) \cup due
             /\ due \cap Charged(n - 1) = {}
             /\ due \subseteq Connections
<1> DEFINE x == MovedPins[n]
           due == IF x.net \in Routed THEN Due(x.net, x.pin) ELSE {}
<1>1. /\ x.net \in Nets /\ x.pin \in DOMAIN Pins[x.net] /\ x.pin \in Nat
      /\ \E r \in DOMAIN moved : moved[r].blk = Pins[x.net][x.pin]
  BY PinAt
<1>2. /\ Looked(n) = Looked(n - 1) \cup {<<x.net, x.pin>>}
      /\ <<x.net, x.pin>> \notin Looked(n - 1)
  BY LookedStep
<1>3. \A net \in Nets : <<net, 1>> \in Looked(n) => DrivenByMovedBlock(net)
  <2> SUFFICES ASSUME NEW net \in Nets, NEW l \in 1..n,
                      <<net, 1>> = <<MovedPins[l].net, MovedPins[l].pin>>
               PROVE  DrivenByMovedBlock(net)
    BY DEF Looked
  <2>1. l \in DOMAIN MovedPins
    BY PinCount
  <2>2. \E r \in DOMAIN moved : moved[r].blk = Pins[net][1]
    BY <2>1, PinAt
  <2> QED BY <2>2 DEF DrivenByMovedBlock
<1>4. \A net \in Nets : \A i : Due(net, i) \subseteq
        {c \in Sinks(net) \cup {<<net, i>>} : c[1] = net}
  BY DEF Due, Sinks
<1>5. due \subseteq Connections
  <2> SUFFICES ASSUME x.net \in Routed, NEW c \in Due(x.net, x.pin) PROVE c \in Connections
    OBVIOUS
  <2>1. CASE x.pin = 1
    BY <2>1 DEF Due, Connections
  <2>2. CASE x.pin # 1
    <3>1. c = <<x.net, x.pin>> /\ x.pin \in 2..Len(Pins[x.net])
      BY <1>1, <2>2, PinFacts DEF Due
    <3> QED BY <3>1, ConnectionParts
  <2> QED BY <2>1, <2>2
<1> HIDE DEF x
<1>6. Charged(n) = Charged(n - 1) \cup due
  <2>1. ASSUME NEW c \in Charged(n) PROVE c \in Charged(n - 1) \cup due
    <3>1. PICK i \in DOMAIN Pins[c[1]] : <<c[1], i>> \in Looked(n) /\ c \in Due(c[1], i)
      BY DEF Charged
    <3>2. c \in Connections /\ c[1] \in Routed
      BY ConnectionParts DEF Charged
    <3> QED BY <1>2, <3>1, <3>2 DEF Charged
  <2>2. ASSUME NEW c \in Charged(n - 1) PROVE c \in Charged(n)
    BY <1>2 DEF Charged
  <2>3. ASSUME NEW c \in due PROVE c \in Charged(n)
    <3>1. x.net \in Routed /\ c \in Due(x.net, x.pin) /\ c \in Connections
      BY <1>5
    <3>2. c[1] = x.net
      BY <1>1, <1>4, <3>1
    <3> QED BY <1>1, <1>2, <3>1, <3>2 DEF Charged
  <2> QED BY <2>1, <2>2, <2>3
<1>7. due \cap Charged(n - 1) = {}
  <2> SUFFICES ASSUME NEW c \in due, c \in Charged(n - 1) PROVE FALSE
    OBVIOUS
  <2>1. x.net \in Routed /\ c \in Due(x.net, x.pin) /\ c[1] = x.net
    BY <1>1, <1>4
  <2>2. PICK i \in DOMAIN Pins[x.net] : <<x.net, i>> \in Looked(n - 1) /\ c \in Due(x.net, i)
    BY <2>1 DEF Charged
  <2>3. i # x.pin
    BY <1>2, <2>2
  <2>4. CASE i = 1 \/ x.pin = 1
    <3>1. DrivenByMovedBlock(x.net)
      BY <1>1, <1>2, <1>3, <2>2, <2>4
    <3> QED BY <2>1, <2>2, <2>3, <2>4, <3>1 DEF Due
  <2>5. CASE i # 1 /\ x.pin # 1
    BY <2>1, <2>2, <2>3, <2>5 DEF Due
  <2> QED BY <2>4, <2>5
<1> QED BY <1>5, <1>6, <1>7 DEF x

\* In the end those are charged of which an end has moved.
LEMMA ChargedInTheEnd ==
  ASSUME MoveMade, NEW c \in Connections, c \notin Charged(Len(MovedPins))
  PROVE  /\ block_locs[Pins[c[1]][1]] = Undone[Pins[c[1]][1]]
         /\ block_locs[Pins[c[1]][c[2]]] = Undone[Pins[c[1]][c[2]]]
<1> DEFINE net == c[1]
           i == c[2]
           N == Len(MovedPins)
<1>1. /\ net \in Routed /\ net \in Nets /\ i \in 2..Len(Pins[net]) /\ c = <<net, i>>
      /\ 1 \in DOMAIN Pins[net] /\ i \in DOMAIN Pins[net]
      /\ Pins[net][1] \in Blocks /\ Pins[net][i] \in Blocks
  <2>1. net \in Routed /\ i \in 2..Len(Pins[net]) /\ c = <<net, i>>
    BY ConnectionParts
  <2>2. net \in Nets
    BY <2>1 DEF Routed
  <2> QED BY <2>1, <2>2, PinFacts
<1>2. IsPinList(MovedPins, Len(moved)) /\ DOMAIN moved = 1..Len(moved)
  BY MovedPinsFacts DEF MoveMade
<1>3. ASSUME NEW j \in DOMAIN Pins[net], NEW r \in DOMAIN moved, moved[r].blk = Pins[net][j]
      PROVE  <<net, j>> \in Looked(N)
  <2>1. PICK l \in DOMAIN MovedPins : MovedPins[l].net = net /\ MovedPins[l].pin = j
    BY <1>1, <1>2, <1>3 DEF IsPinList
  <2>2. l \in 1..N
    BY PinCount
  <2> QED BY <2>1, <2>2 DEF Looked
<1>4. \A j \in DOMAIN Pins[net] : ~(<<net, j>> \in Looked(N) /\ c \in Due(net, j))
  BY DEF Charged
<1>5. \A r \in DOMAIN moved : moved[r].blk # Pins[net][1]
  <2> SUFFICES ASSUME NEW r \in DOMAIN moved, moved[r].blk = Pins[net][1] PROVE FALSE
    OBVIOUS
  <2>1. c \in Due(net, 1)
    BY <1>1 DEF Due, Sinks
  <2> QED BY <1>1, <1>3, <1>4, <2>1
<1>6. \A r \in DOMAIN moved : moved[r].blk # Pins[net][i]
  <2> SUFFICES ASSUME NEW r \in DOMAIN moved, moved[r].blk = Pins[net][i] PROVE FALSE
    OBVIOUS
  <2>1. c \in Due(net, i)
    <3>1. ~DrivenByMovedBlock(net) /\ i # 1
      BY <1>1, <1>5 DEF DrivenByMovedBlock
    <3> QED BY <1>1, <3>1 DEF Due
  <2> QED BY <1>1, <1>3, <1>4, <2>1
<1> QED BY <1>1, <1>5, <1>6 DEF MoveMade

-----------------------------------------------------------------------------
(* What one pin changes.                                                   *)

Form(j) ==
  /\ j = [state |-> j.state, box |-> j.box, temp |-> j.temp, delay |-> j.delay, timing |-> j.timing]
  /\ j.state = [net \in Routed |-> j.state[net]]
  /\ j.box = [net \in Routed |-> j.box[net]]

\* Only the box of one net differs.
BoxOnly(u, j, net) ==
  /\ u.temp = j.temp /\ u.delay = j.delay /\ u.timing = j.timing
  /\ \A other \in Routed : other # net => u.state[other] = j.state[other] /\ u.box[other] = j.box[other]

LEMMA FormExcept ==
  ASSUME NEW j, Form(j), NEW net \in Routed, NEW v, NEW w
  PROVE  /\ [j EXCEPT !.box[net] = v]
              = [state |-> j.state, box |-> [j.box EXCEPT ![net] = v],
                 temp |-> j.temp, delay |-> j.delay, timing |-> j.timing]
         /\ [j EXCEPT !.box[net] = v, !.state[net] = w]
              = [state |-> [j.state EXCEPT ![net] = w], box |-> [j.box EXCEPT ![net] = v],
                 temp |-> j.temp, delay |-> j.delay, timing |-> j.timing]
<1> DEFINE b == [j.box EXCEPT ![net] = v]
           s == [j.state EXCEPT ![net] = w]
<1>1. [j EXCEPT !.box[net] = v] = [j EXCEPT !.box = b]
  BY DEF Form
<1>2. [j EXCEPT !.box = b]
        = [state |-> j.state, box |-> b, temp |-> j.temp, delay |-> j.delay, timing |-> j.timing]
  BY DEF Form
<1>3. [j EXCEPT !.box[net] = v, !.state[net] = w] = [[j EXCEPT !.box = b] EXCEPT !.state = s]
  BY DEF Form
<1> HIDE DEF b, s
<1>4. [[j EXCEPT !.box = b] EXCEPT !.state = s]
        = [state |-> s, box |-> b, temp |-> j.temp, delay |-> j.delay, timing |-> j.timing]
  <2> DEFINE r == [j EXCEPT !.box = b]
  <2>1. /\ r = [state |-> r.state, box |-> r.box, temp |-> r.temp,
                delay |-> r.delay, timing |-> r.timing]
        /\ r.box = b /\ r.temp = j.temp /\ r.delay = j.delay /\ r.timing = j.timing
    BY <1>2
  <2> HIDE DEF r
  <2>2. [r EXCEPT !.state = s]
          = [state |-> s, box |-> r.box, temp |-> r.temp, delay |-> r.delay, timing |-> r.timing]
    BY <2>1
  <2> QED BY <2>1, <2>2 DEF r
<1> QED BY <1>1, <1>2, <1>3, <1>4 DEF b, s

LEMMA FormBoth ==
  ASSUME NEW j, Form(j), NEW net \in Routed, NEW v, NEW w
  PROVE  [j EXCEPT !.box[net] = v, !.state[net] = w]
           = [state |-> [j.state EXCEPT ![net] = w], box |-> [j.box EXCEPT ![net] = v],
              temp |-> j.temp, delay |-> j.delay, timing |-> j.timing]
  BY FormExcept, ZenonT(40)

LEMMA UpdatedBoxFields ==
  ASSUME NEW j, Form(j), NEW net \in Routed, NEW m,
         NEW u, u = UpdatedBox(j, net, m)
  PROVE  /\ Form(u) /\ BoxOnly(u, j, net)
         /\ ~Large(net) => u.box[net] = NonUpdateable(net) /\ u.state[net] = j.state[net]
         /\ Large(net) /\ j.state[net] = "GOT_FROM_SCRATCH" =>
              u.box[net] = j.box[net] /\ u.state[net] = j.state[net]
         /\ Large(net) /\ j.state[net] # "GOT_FROM_SCRATCH" =>
              LET box == IF j.state[net] = "NOT_UPDATED_YET" THEN bb[net] ELSE j.box[net]
                  old == Clipped(m.old)
                  new == Clipped(m.new)
              IN  \/ u.box[net] = FromScratch(net) /\ u.state[net] = "GOT_FROM_SCRATCH"
                  \/ /\ \A k \in 1..2 : ~LosesEnd(box[k], old[k], new[k])
                     /\ u.box[net] = [k \in 1..2 |-> Shifted(box[k], old[k], new[k])]
                     /\ u.state[net] = "UPDATED_ONCE"
<1> DEFINE box == IF j.state[net] = "NOT_UPDATED_YET" THEN bb[net] ELSE j.box[net]
           old == Clipped(m.old)
           new == Clipped(m.new)
           sh  == [k \in 1..2 |-> Shifted(box[k], old[k], new[k])]
           With(v, w) == [state |-> [j.state EXCEPT ![net] = w], box |-> [j.box EXCEPT ![net] = v],
                          temp |-> j.temp, delay |-> j.delay, timing |-> j.timing]
<1>0. \A v, w : [j EXCEPT !.box[net] = v, !.state[net] = w] = With(v, w)
  BY FormBoth, ZenonT(40)
<1>1. ASSUME NEW v, NEW w, u = With(v, w)
      PROVE  Form(u) /\ BoxOnly(u, j, net) /\ u.box[net] = v /\ u.state[net] = w
  BY <1>1 DEF Form, BoxOnly
<1>2. CASE ~Large(net)
  <2>1. u = [j EXCEPT !.box[net] = NonUpdateable(net)]
    BY <1>2 DEF UpdatedBox
  <2>2. u = [state |-> j.state, box |-> [j.box EXCEPT ![net] = NonUpdateable(net)],
             temp |-> j.temp, delay |-> j.delay, timing |-> j.timing]
    BY <2>1, FormExcept
  <2>3. Form(u) /\ BoxOnly(u, j, net) /\ u.box[net] = NonUpdateable(net) /\ u.state = j.state
    BY <2>2 DEF Form, BoxOnly
  <2> QED BY <1>2, <2>3
<1>3. CASE Large(net) /\ j.state[net] = "GOT_FROM_SCRATCH"
  <2>1. u = j
    BY <1>3 DEF UpdatedBox
  <2> QED BY <1>3, <2>1 DEF BoxOnly
<1>4. CASE /\ Large(net) /\ j.state[net] # "GOT_FROM_SCRATCH"
           /\ \E k \in 1..2 : LosesEnd(box[k], old[k], new[k])
  <2>1. u = [j EXCEPT !.box[net] = FromScratch(net), !.state[net] = "GOT_FROM_SCRATCH"]
    BY <1>4 DEF UpdatedBox
  <2>2. u = With(FromScratch(net), "GOT_FROM_SCRATCH")
    BY <1>0, <2>1
  <2> HIDE DEF With
  <2> QED BY <1>1, <1>4, <2>2
<1>5. CASE /\ Large(net) /\ j.state[net] # "GOT_FROM_SCRATCH"
           /\ ~\E k \in 1..2 : LosesEnd(box[k], old[k], new[k])
  <2>1. u = [j EXCEPT !.box[net] = sh, !.state[net] = "UPDATED_ONCE"]
    BY <1>5 DEF UpdatedBox
  <2>2. u = With(sh, "UPDATED_ONCE")
    <3> HIDE DEF sh, With
    <3> QED BY <1>0, <2>1
  <2>3. Form(u) /\ BoxOnly(u, j, net) /\ u.box[net] = sh /\ u.state[net] = "UPDATED_ONCE"
    <3> HIDE DEF With, sh
    <3> QED BY <1>1, <2>2
  <2> QED BY <1>5, <2>3
<1> QED BY <1>2, <1>3, <1>4, <1>5

LEMMA UpdatedDeltasFields ==
  ASSUME NEW j, Form(j), NEW net, NEW i, NEW u, u = UpdatedDeltas(j, net, i)
  PROVE  LET due == Due(net, i)
             new(c) == PointCost(c, block_locs, crit)
         IN  /\ Form(u) /\ u.state = j.state /\ u.box = j.box
             /\ u.temp = [c \in Connections |-> IF c \in due THEN new(c) ELSE j.temp[c]]
             /\ u.delay = j.delay + Funs!SumFunction([c \in due |-> new(c).delay - p2p[c].delay])
             /\ u.timing = j.timing + Funs!SumFunction([c \in due |-> new(c).timing - p2p[c].timing])
<1> DEFINE due == Due(net, i)
           f   == [c \in due |-> PointCost(c, block_locs, crit)]
           t   == [c \in Connections |-> IF c \in due THEN f[c] ELSE j.temp[c]]
           d   == j.delay + Funs!SumFunction([c \in due |-> f[c].delay - p2p[c].delay])
           g   == j.timing + Funs!SumFunction([c \in due |-> f[c].timing - p2p[c].timing])
<1>1. u = [j EXCEPT !.temp = t, !.delay = d, !.timing = g]
  BY DEF UpdatedDeltas, Form
<1>2. /\ t = [c \in Connections |-> IF c \in due THEN PointCost(c, block_locs, crit) ELSE j.temp[c]]
      /\ [c \in due |-> f[c].delay - p2p[c].delay]
           = [c \in due |-> PointCost(c, block_locs, crit).delay - p2p[c].delay]
      /\ [c \in due |-> f[c].timing - p2p[c].timing]
           = [c \in due |-> PointCost(c, block_locs, crit).timing - p2p[c].timing]
  <2> HIDE DEF due
  <2> QED OBVIOUS
<1>3. u = [state |-> j.state, box |-> j.box, temp |-> t, delay |-> d, timing |-> g]
  <2> HIDE DEF t, d, g
  <2> DEFINE r == [j EXCEPT !.temp = t]
             q == [r EXCEPT !.delay = d]
  <2>1. r = [state |-> j.state, box |-> j.box, temp |-> t, delay |-> j.delay, timing |-> j.timing]
    BY DEF Form
  <2>2. u = [q EXCEPT !.timing = g]
    BY <1>1
  <2> HIDE DEF r
  <2>3. q = [state |-> j.state, box |-> j.box, temp |-> t, delay |-> d, timing |-> j.timing]
    BY <2>1
  <2> HIDE DEF q
  <2> QED BY <2>2, <2>3
<1>4. /\ Form(u) /\ u.state = j.state /\ u.box = j.box
      /\ u.temp = t /\ u.delay = d /\ u.timing = g
  <2> HIDE DEF t, d, g
  <2> QED BY <1>3 DEF Form
<1> HIDE DEF due
<1> QED BY <1>2, <1>4 DEF due

\* The costs that are kept are those of the placement before the move.
Kept ==
  /\ crit \in Criticalities
  /\ bb = [net \in Routed |-> [k \in 1..2 |-> SideOf(net, k, Undone)]]
  /\ p2p = [c \in Connections |-> PointCost(c, Undone, crit)]
  /\ costs = [bb |-> TotalBb(bb), delay |-> TotalDelay(p2p), timing |-> TotalTiming(p2p)]

DelayChange  == [c \in Connections |-> Delay(c, block_locs) - Delay(c, Undone)]
TimingChange == [c \in Connections |->
                   crit[c[1]] * Delay(c, block_locs) - crit[c[1]] * Delay(c, Undone)]

LEMMA DelayType ==
  ASSUME NEW locs, Standing(locs), NEW c \in Connections
  PROVE  Delay(c, locs) \in Int
<1>1. /\ c[1] \in Nets /\ 1 \in DOMAIN Pins[c[1]] /\ c[2] \in DOMAIN Pins[c[1]]
  BY ConnectionParts, PinFacts DEF Routed
<1>2. \A b \in Blocks : locs[b] \in Vectors
  BY SiteCoordinates DEF Standing
<1>3. locs[Pins[c[1]][1]] \in Vectors /\ locs[Pins[c[1]][c[2]]] \in Vectors
  BY <1>1, <1>2, PinFacts
<1> QED BY <1>3 DEF Delay, Distance, Vectors

LEMMA CostTypes ==
  ASSUME MoveMade, crit \in Criticalities, NEW c \in Connections
  PROVE  /\ Delay(c, block_locs) \in Int /\ Delay(c, Undone) \in Int
         /\ crit[c[1]] * Delay(c, block_locs) \in Int
         /\ crit[c[1]] * Delay(c, Undone) \in Int
         /\ DelayChange[c] \in Int /\ TimingChange[c] \in Int
<1>1. Delay(c, block_locs) \in Int /\ Delay(c, Undone) \in Int
  BY DelayType DEF MoveMade
<1>2. crit[c[1]] \in Int
  <2>1. c[1] \in Nets
    BY ConnectionParts DEF Routed
  <2> QED BY <2>1, PinAssumption
<1>3. crit[c[1]] * Delay(c, block_locs) \in Int /\ crit[c[1]] * Delay(c, Undone) \in Int
  BY <1>1, <1>2
<1> QED BY <1>1, <1>3 DEF DelayChange, TimingChange

LEMMA ImageFinite ==
  ASSUME NEW D, IsFiniteSet(D), NEW f, NEW S, S = {f[x] : x \in D}
  PROVE  IsFiniteSet(S)
<1> DEFINE g == [x \in D |-> f[x]]
<1>1. g \in Surjection(D, S)
  BY DEF Surjection
<1> QED BY <1>1, FS_Surjection

LEMMA Finite ==
  IsFiniteSet(Routed) /\ IsFiniteSet(Connections) /\ \A S \in SUBSET Connections : IsFiniteSet(S)
<1>1. IsFiniteSet(Routed)
  BY PinAssumption, FS_Subset DEF Routed
<1> DEFINE f == [net \in Routed |-> Sinks(net)]
           F == {f[net] : net \in Routed}
<1>2. IsFiniteSet(F)
  <2> HIDE DEF f
  <2> QED BY <1>1, ImageFinite
<1>3. \A S \in F : IsFiniteSet(S)
  <2> SUFFICES ASSUME NEW net \in Routed PROVE IsFiniteSet(Sinks(net))
    OBVIOUS
  <2>1. Len(Pins[net]) \in Nat
    BY PinFacts DEF Routed
  <2>2. IsFiniteSet({net})
    BY FS_Singleton
  <2>3. IsFiniteSet(2..Len(Pins[net]))
    BY <2>1, FS_Interval
  <2> QED BY <2>2, <2>3, FS_Product DEF Sinks
<1>4. IsFiniteSet(UNION F)
  <2> HIDE DEF F
  <2> QED BY <1>2, <1>3, FS_UNION
<1>5. Connections = UNION F
  BY DEF Connections
<1> QED BY <1>1, <1>4, <1>5, FS_Subset

LEMMA DueSums ==
  ASSUME MoveMade, Kept, NEW due \in SUBSET Connections
  PROVE  /\ Funs!SumFunction([c \in due |-> PointCost(c, block_locs, crit).delay - p2p[c].delay])
              = Sum(DelayChange, due)
         /\ Funs!SumFunction([c \in due |-> PointCost(c, block_locs, crit).timing - p2p[c].timing])
              = Sum(TimingChange, due)
<1> DEFINE f == [c \in due |-> PointCost(c, block_locs, crit).delay - p2p[c].delay]
           g == [c \in due |-> PointCost(c, block_locs, crit).timing - p2p[c].timing]
<1>1. Funs!SumFunction(f) = Sum(f, due) /\ Funs!SumFunction(g) = Sum(g, due)
  BY DEF Funs!SumFunction, Sum
<1>2. ASSUME NEW c \in due PROVE f[c] = DelayChange[c] /\ g[c] = TimingChange[c]
  <2>1. p2p[c] = PointCost(c, Undone, crit)
    BY DEF Kept
  <2> QED BY <2>1 DEF PointCost, DelayChange, TimingChange
<1>3. IsFiniteSet(due)
  BY Finite
<1> HIDE DEF f, g
<1>4. Sum(f, due) = Sum(DelayChange, due) /\ Sum(g, due) = Sum(TimingChange, due)
  BY <1>2, <1>3, SumSame
<1> QED BY <1>1, <1>4 DEF f, g

-----------------------------------------------------------------------------
(* Judging a move, pin by pin.                                             *)

NewBox(net) == [k \in 1..2 |-> SideOf(net, k, block_locs)]

\* Where the pins of a net are for the judge that has looked at n pins.
Mixed(net, k, n) ==
  [i \in DOMAIN Pins[net] |-> IF <<net, i>> \in Looked(n) THEN PosOf(net, k, block_locs)[i]
                              ELSE PosOf(net, k, Undone)[i]]

BoxRight(j, net, n) ==
  \/ /\ ~Large(net) /\ j.state[net] = "NOT_UPDATED_YET"
     /\ (\E i \in DOMAIN Pins[net] : <<net, i>> \in Looked(n)) => j.box[net] = NewBox(net)
  \/ /\ Large(net) /\ j.state[net] = "NOT_UPDATED_YET"
     /\ \A i \in DOMAIN Pins[net] : <<net, i>> \notin Looked(n)
  \/ /\ Large(net) /\ j.state[net] = "UPDATED_ONCE"
     /\ j.box[net] = [k \in 1..2 |-> j.box[net][k]]
     /\ \A k \in 1..2 : IsSide(j.box[net][k], Mixed(net, k, n), DOMAIN Pins[net], TRUE)
  \/ Large(net) /\ j.state[net] = "GOT_FROM_SCRATCH" /\ j.box[net] = NewBox(net)

ChargesRight(j, n) ==
  /\ j.temp = [c \in Connections |-> IF c \in Charged(n) THEN PointCost(c, block_locs, crit)
                                     ELSE Undefined]
  /\ j.delay = Sum(DelayChange, Charged(n))
  /\ j.timing = Sum(TimingChange, Charged(n))

RightSoFar(j, n) == Form(j) /\ ChargesRight(j, n) /\ \A net \in Routed : BoxRight(j, net, n)

LEMMA ChargesStep ==
  ASSUME MoveMade, Kept, NEW n \in DOMAIN MovedPins, MovedPins[n].net \in Routed,
         NEW j, Form(j), ChargesRight(j, n - 1),
         NEW u, u = UpdatedDeltas(j, MovedPins[n].net, MovedPins[n].pin)
  PROVE  Form(u) /\ u.state = j.state /\ u.box = j.box /\ ChargesRight(u, n)
<1> DEFINE x == MovedPins[n]
           due == Due(x.net, x.pin)
<1>1. /\ Form(u) /\ u.state = j.state /\ u.box = j.box
      /\ u.temp = [c \in Connections |-> IF c \in due THEN PointCost(c, block_locs, crit) ELSE j.temp[c]]
      /\ u.delay = j.delay + Funs!SumFunction(
                      [c \in due |-> PointCost(c, block_locs, crit).delay - p2p[c].delay])
      /\ u.timing = j.timing + Funs!SumFunction(
                       [c \in due |-> PointCost(c, block_locs, crit).timing - p2p[c].timing])
  BY UpdatedDeltasFields
<1>2. /\ Charged(n) = Charged(n - 1) \cup due
      /\ due \cap Charged(n - 1) = {}
      /\ due \subseteq Connections
  BY ChargedStep
<1> HIDE DEF due
<1>3. u.delay = j.delay + Sum(DelayChange, due) /\ u.timing = j.timing + Sum(TimingChange, due)
  BY <1>1, <1>2, DueSums
<1>4. /\ \A c \in Charged(n) : DelayChange[c] \in Int /\ TimingChange[c] \in Int
      /\ IsFiniteSet(Charged(n)) /\ Charged(n - 1) \cap due = {}
      /\ IsFiniteSet(due) /\ IsFiniteSet(Charged(n - 1))
      /\ \A c \in due \cup Charged(n - 1) : DelayChange[c] \in Int /\ TimingChange[c] \in Int
  BY <1>2, CostTypes, Finite DEF Charged, Kept
<1>5. /\ Sum(DelayChange, Charged(n)) = Sum(DelayChange, Charged(n - 1)) + Sum(DelayChange, due)
      /\ Sum(TimingChange, Charged(n)) = Sum(TimingChange, Charged(n - 1)) + Sum(TimingChange, due)
  BY <1>2, <1>4, SumUnion
<1>6. u.temp = [c \in Connections |-> IF c \in Charged(n) THEN PointCost(c, block_locs, crit)
                                      ELSE Undefined]
  BY <1>1, <1>2 DEF ChargesRight
<1> QED BY <1>1, <1>3, <1>5, <1>6 DEF ChargesRight

LEMMA BoxStep ==
  ASSUME MoveMade, Kept, NEW n \in DOMAIN MovedPins, MovedPins[n].net \in Routed,
         NEW j, Form(j), BoxRight(j, MovedPins[n].net, n - 1),
         NEW u, u = UpdatedBox(j, MovedPins[n].net, MovedPins[n].move)
  PROVE  BoxRight(u, MovedPins[n].net, n)
<1> DEFINE x == MovedPins[n]
           net == x.net
           i == x.pin
           D == DOMAIN Pins[net]
           box == IF j.state[net] = "NOT_UPDATED_YET" THEN bb[net] ELSE j.box[net]
           old == Clipped(x.move.old)
           new == Clipped(x.move.new)
<1>1. /\ ~Large(net) => u.box[net] = NonUpdateable(net) /\ u.state[net] = j.state[net]
      /\ Large(net) /\ j.state[net] = "GOT_FROM_SCRATCH" =>
           u.box[net] = j.box[net] /\ u.state[net] = j.state[net]
      /\ Large(net) /\ j.state[net] # "GOT_FROM_SCRATCH" =>
           \/ u.box[net] = FromScratch(net) /\ u.state[net] = "GOT_FROM_SCRATCH"
           \/ /\ \A k \in 1..2 : ~LosesEnd(box[k], old[k], new[k])
              /\ u.box[net] = [k \in 1..2 |-> Shifted(box[k], old[k], new[k])]
              /\ u.state[net] = "UPDATED_ONCE"
  BY UpdatedBoxFields, SMTT(30)
<1>2. /\ net \in Nets /\ i \in D
      /\ x.move.old = Undone[Pins[net][i]] /\ x.move.new = block_locs[Pins[net][i]]
  BY PinAt
<1>3. /\ Looked(n) = Looked(n - 1) \cup {<<net, i>>}
      /\ <<net, i>> \notin Looked(n - 1)
  BY LookedStep
<1>4. Standing(block_locs) /\ Standing(Undone)
  BY DEF MoveMade
<1> HIDE DEF x
<1>5. CASE ~Large(net)
  <2>1. u.box[net] = NewBox(net) /\ u.state[net] = j.state[net]
    BY <1>1, <1>2, <1>4, <1>5, NonUpdateableBox DEF NewBox
  <2> QED BY <1>5, <2>1 DEF BoxRight, x
<1>6. CASE Large(net) /\ j.state[net] = "GOT_FROM_SCRATCH"
  BY <1>1, <1>6 DEF BoxRight, x
<1>7. CASE Large(net) /\ j.state[net] # "GOT_FROM_SCRATCH"
  <2>1. CASE u.box[net] = FromScratch(net) /\ u.state[net] = "GOT_FROM_SCRATCH"
    <3>1. FromScratch(net) = NewBox(net)
      BY <1>2, <1>4, <1>7, FromScratchBox DEF NewBox
    <3> QED BY <1>7, <2>1, <3>1 DEF BoxRight, x
  <2>2. CASE /\ \A k \in 1..2 : ~LosesEnd(box[k], old[k], new[k])
             /\ u.box[net] = [k \in 1..2 |-> Shifted(box[k], old[k], new[k])]
             /\ u.state[net] = "UPDATED_ONCE"
    <3>1. ASSUME NEW k \in 1..2
          PROVE  IsSide(u.box[net][k], Mixed(net, k, n), D, TRUE)
      <4> DEFINE p == Mixed(net, k, n - 1)
                 q == Mixed(net, k, n)
      <4>1. IsSide(box[k], p, D, TRUE)
        <5>1. CASE j.state[net] = "NOT_UPDATED_YET"
          <6>1. \A l \in D : <<net, l>> \notin Looked(n - 1)
            BY <1>7, <5>1 DEF BoxRight, x
          <6>2. p = PosOf(net, k, Undone)
            BY <6>1 DEF Mixed, PosOf
          <6>3. box[k] = SideOf(net, k, Undone)
            <7>1. net \in Routed
              BY DEF x
            <7> QED BY <5>1, <7>1 DEF Kept
          <6>4. IsSide(SideOf(net, k, Undone), PosOf(net, k, Undone), D, TRUE)
            BY <1>2, <1>4, <1>7, SideOfIs
          <6> HIDE DEF p, box
          <6> QED BY <6>2, <6>3, <6>4
        <5>2. CASE j.state[net] # "NOT_UPDATED_YET"
          BY <1>7, <5>2 DEF BoxRight, x
        <5> QED BY <5>1, <5>2
      <4>2. /\ \A l \in D : p[l] \in Int /\ q[l] \in Int
            /\ \A l \in D : l # i => q[l] = p[l]
        BY <1>2, <1>3, <1>4, PosTypes DEF Mixed
      <4>3. p[i] = old[k] /\ q[i] = new[k]
        BY <1>2, <1>3 DEF Mixed, PosOf
      <4>4. ~LosesEnd(box[k], old[k], new[k])
        BY <2>2
      <4>5. u.box[net][k] = Shifted(box[k], old[k], new[k])
        BY <2>2
      <4>6. IsFiniteSet(D)
        BY <1>2, PinFacts
      <4> HIDE DEF p, q, box, old, new, D
      <4>7. IsSide(Shifted(box[k], p[i], q[i]), q, D, TRUE)
        BY <1>2, <4>1, <4>2, <4>3, <4>4, <4>6, ShiftedSide
      <4> QED BY <4>3, <4>5, <4>7 DEF q
    <3>2. u.box[net] = [k \in 1..2 |-> u.box[net][k]]
      <4> HIDE DEF box, old, new
      <4> QED BY <2>2
    <3> QED BY <1>7, <2>2, <3>1, <3>2 DEF BoxRight, x
  <2> QED BY <1>1, <1>7, <2>1, <2>2
<1> QED BY <1>5, <1>6, <1>7

LEMMA PinStep ==
  ASSUME MoveMade, Kept, NEW n \in DOMAIN MovedPins, NEW j, RightSoFar(j, n - 1)
  PROVE  RightSoFar(PinJudged(j, MovedPins[n]), n)
<1> DEFINE x == MovedPins[n]
           u == UpdatedBox(j, x.net, x.move)
           v == UpdatedDeltas(u, x.net, x.pin)
<1>1. /\ Looked(n) = Looked(n - 1) \cup {<<x.net, x.pin>>}
      /\ Charged(n) = Charged(n - 1) \cup (IF x.net \in Routed THEN Due(x.net, x.pin) ELSE {})
  BY LookedStep, ChargedStep
<1>2. Form(j) /\ ChargesRight(j, n - 1) /\ \A net \in Routed : BoxRight(j, net, n - 1)
  BY DEF RightSoFar
\* A net of which no pin was looked at in this step.
<1>3. ASSUME NEW net \in Routed, net # x.net
      PROVE  BoxRight(j, net, n)
  <2>1. \A i : <<net, i>> \in Looked(n) <=> <<net, i>> \in Looked(n - 1)
    BY <1>1, <1>3
  <2>2. \A k : Mixed(net, k, n) = Mixed(net, k, n - 1)
    BY <2>1 DEF Mixed
  <2>3. BoxRight(j, net, n - 1)
    BY <1>2
  <2> QED BY <2>1, <2>2, <2>3 DEF BoxRight
<1>4. CASE x.net \in Routed
  <2>1. Form(u) /\ BoxOnly(u, j, x.net)
    BY <1>2, <1>4, UpdatedBoxFields
  <2>2. BoxRight(u, x.net, n)
    BY <1>2, <1>4, BoxStep
  <2>3. ChargesRight(u, n - 1)
    BY <1>2, <2>1 DEF ChargesRight, BoxOnly
  <2> HIDE DEF u
  <2>4. Form(v) /\ v.state = u.state /\ v.box = u.box /\ ChargesRight(v, n)
    BY <1>4, <2>1, <2>3, ChargesStep
  <2>5. ASSUME NEW net \in Routed PROVE BoxRight(v, net, n)
    <3>1. BoxRight(u, net, n)
      <4>1. CASE net = x.net
        BY <2>2, <4>1
      <4>2. CASE net # x.net
        <5>1. BoxRight(j, net, n) /\ u.state[net] = j.state[net] /\ u.box[net] = j.box[net]
          BY <1>3, <2>1, <4>2 DEF BoxOnly
        <5> QED BY <5>1 DEF BoxRight
      <4> QED BY <4>1, <4>2
    <3> QED BY <2>4, <3>1 DEF BoxRight
  <2>6. PinJudged(j, x) = v
    BY <1>4 DEF PinJudged, u
  <2> HIDE DEF v
  <2> QED BY <2>4, <2>5, <2>6 DEF RightSoFar
<1>5. CASE x.net \notin Routed
  <2>1. PinJudged(j, x) = j /\ Charged(n) = Charged(n - 1)
    BY <1>1, <1>5 DEF PinJudged
  <2>2. ChargesRight(j, n)
    BY <1>2, <2>1 DEF ChargesRight
  <2>3. \A net \in Routed : BoxRight(j, net, n)
    BY <1>3, <1>5
  <2> QED BY <1>2, <2>1, <2>2, <2>3 DEF RightSoFar
<1> QED BY <1>4, <1>5

IsJudging(f, n) == f = [k \in 0..n |-> IF k = 0 THEN Unjudged ELSE PinJudged(f[k - 1], MovedPins[k])]

LEMMA JudgingExists ==
  ASSUME NEW n \in Nat
  PROVE  \E f : IsJudging(f, n)
<1> DEFINE Good == {m \in Nat : \E f : IsJudging(f, m)}
<1>1. 0 \in Good
  <2>1. IsJudging([k \in 0..0 |-> Unjudged], 0)
    BY DEF IsJudging
  <2> QED BY <2>1
<1>2. \A m \in Nat : m \in Good => m + 1 \in Good
  <2> SUFFICES ASSUME NEW m \in Nat, NEW f, IsJudging(f, m) PROVE \E h : IsJudging(h, m + 1)
    OBVIOUS
  <2> DEFINE h == [k \in 0..m + 1 |-> IF k = 0 THEN Unjudged ELSE PinJudged(f[k - 1], MovedPins[k])]
  <2>1. \A k \in 0..m : h[k] = f[k]
    BY DEF IsJudging
  <2>2. \A k \in 0..m + 1 : k # 0 => h[k - 1] = f[k - 1]
    <3> HIDE DEF h
    <3>1. \A k \in 0..m + 1 : k # 0 => k - 1 \in 0..m
      OBVIOUS
    <3> QED BY <2>1, <3>1
  <2>3. IsJudging(h, m + 1)
    BY <2>2 DEF IsJudging
  <2> QED BY <2>3
<1>3. Nat \subseteq Good
  <2> HIDE DEF Good
  <2> QED BY <1>1, <1>2, NatSetInduction
<1> QED BY <1>3

LEMMA NothingJudged ==
  ASSUME MoveMade
  PROVE  RightSoFar(Unjudged, 0)
<1>1. Looked(0) = {} /\ Charged(0) = {}
  BY DEF Looked, Charged
<1>2. /\ Form(Unjudged)
      /\ Unjudged.temp = [c \in Connections |-> Undefined]
      /\ Unjudged.delay = 0 /\ Unjudged.timing = 0
      /\ \A net \in Routed : Unjudged.state[net] = "NOT_UPDATED_YET"
  BY DEF Form, Unjudged
<1>3. ChargesRight(Unjudged, 0)
  BY <1>1, <1>2, SumNone DEF ChargesRight
<1>4. \A net \in Routed : BoxRight(Unjudged, net, 0)
  BY <1>1, <1>2 DEF BoxRight
<1> QED BY <1>2, <1>3, <1>4 DEF RightSoFar

LEMMA MoveJudgedRight ==
  ASSUME MoveMade, Kept
  PROVE  RightSoFar(MoveJudged, Len(MovedPins))
<1> DEFINE n == Len(MovedPins)
           f == CHOOSE f : IsJudging(f, n)
<1>1. n \in Nat /\ DOMAIN MovedPins = 1..n
  BY PinCount
<1>2. IsJudging(f, n)
  <2> HIDE DEF n
  <2> QED BY <1>1, JudgingExists
<1>3. MoveJudged = f[n]
  BY DEF MoveJudged, IsJudging
<1> HIDE DEF f, n
<1>4. f[0] = Unjudged /\ \A k \in 1..n : f[k] = PinJudged(f[k - 1], MovedPins[k])
  <2>1. \A k \in 0..n : f[k] = IF k = 0 THEN Unjudged ELSE PinJudged(f[k - 1], MovedPins[k])
    BY <1>2 DEF IsJudging
  <2>2. 0 \in 0..n /\ \A k \in 1..n : k \in 0..n /\ k # 0
    BY <1>1
  <2> QED BY <2>1, <2>2
<1> DEFINE Claim(k) == k <= n => RightSoFar(f[k], k)
           Good == {k \in Nat : Claim(k)}
<1>5. 0 \in Good
  BY <1>4, NothingJudged
<1>6. ASSUME NEW k \in Nat, k \in Good PROVE k + 1 \in Good
  <2>1. ASSUME k + 1 <= n PROVE RightSoFar(f[k + 1], k + 1)
    <3>1. RightSoFar(f[k], k)
      BY <1>1, <1>6, <2>1
    <3>2. k + 1 \in 1..n /\ (k + 1) - 1 = k
      BY <1>1, <2>1
    <3>3. f[k + 1] = PinJudged(f[k], MovedPins[k + 1])
      BY <1>4, <3>2
    <3> QED BY <1>1, <3>1, <3>2, <3>3, PinStep
  <2> QED BY <2>1
<1>7. n \in Good
  <2> HIDE DEF Good
  <2>1. Nat \subseteq Good
    BY <1>5, <1>6, NatSetInduction
  <2> QED BY <1>1, <2>1
<1>8. n <= n
  BY <1>1
<1> QED BY <1>3, <1>7, <1>8 DEF n

-----------------------------------------------------------------------------
(* What a move is judged by, and what it leaves when it is kept.           *)

\* The nets of which a pin has moved have their new boxes.
LEMMA JudgedBoxes ==
  ASSUME MoveMade, Kept, NEW net \in Routed
  PROVE  /\ net \in AffectedNets => MoveJudged.box[net] = NewBox(net)
         /\ net \notin AffectedNets => bb[net] = NewBox(net)
<1> DEFINE N == Len(MovedPins)
           D == DOMAIN Pins[net]
<1>1. net \in Nets /\ Standing(block_locs) /\ Standing(Undone)
  BY DEF MoveMade, Routed
<1>2. BoxRight(MoveJudged, net, N)
  BY MoveJudgedRight DEF RightSoFar
<1>3. IsPinList(MovedPins, Len(moved)) /\ DOMAIN moved = 1..Len(moved)
  BY MovedPinsFacts DEF MoveMade
<1>4. \A i \in D : Pins[net][i] \in Blocks
  BY <1>1, PinFacts
<1>5. ASSUME NEW i \in D, NEW r \in DOMAIN moved, moved[r].blk = Pins[net][i]
      PROVE  <<net, i>> \in Looked(N)
  <2>1. PICK l \in DOMAIN MovedPins : MovedPins[l].net = net /\ MovedPins[l].pin = i
    BY <1>1, <1>3, <1>5 DEF IsPinList
  <2>2. l \in 1..N
    BY PinCount
  <2> QED BY <2>1, <2>2 DEF Looked
<1>6. \A i \in D : <<net, i>> \notin Looked(N) => block_locs[Pins[net][i]] = Undone[Pins[net][i]]
  BY <1>4, <1>5 DEF MoveMade
<1>7. \A k \in 1..2 : Mixed(net, k, N) = PosOf(net, k, block_locs)
  BY <1>6 DEF Mixed, PosOf
<1>8. CASE net \in AffectedNets
  <2>1. \E i \in D : <<net, i>> \in Looked(N)
    <3>1. PICK r \in DOMAIN moved : moved[r].blk \in Seqs!ToSet(Pins[net])
      BY <1>8 DEF AffectedNets
    <3>2. PICK i \in D : moved[r].blk = Pins[net][i]
      BY <3>1 DEF Seqs!ToSet
    <3> QED BY <1>5, <3>2
  <2>2. CASE MoveJudged.state[net] = "UPDATED_ONCE"
    <3>1. /\ Large(net) /\ MoveJudged.box[net] = [k \in 1..2 |-> MoveJudged.box[net][k]]
          /\ \A k \in 1..2 : IsSide(MoveJudged.box[net][k], Mixed(net, k, N), D, TRUE)
      BY <1>2, <2>2 DEF BoxRight
    <3>2. ASSUME NEW k \in 1..2 PROVE MoveJudged.box[net][k] = SideOf(net, k, block_locs)
      <4>1. IsSide(MoveJudged.box[net][k], PosOf(net, k, block_locs), D, TRUE)
        BY <1>7, <3>1
      <4>2. IsSide(SideOf(net, k, block_locs), PosOf(net, k, block_locs), D, TRUE)
        BY <1>1, <3>1, SideOfIs
      <4>3. \A i \in D : PosOf(net, k, block_locs)[i] \in Int
        BY <1>1, PosTypes
      <4> QED BY <4>1, <4>2, <4>3, SideUnique
    <3> QED BY <1>8, <3>1, <3>2 DEF NewBox
  <2>3. CASE MoveJudged.state[net] # "UPDATED_ONCE"
    BY <1>2, <1>8, <2>1, <2>3 DEF BoxRight
  <2> QED BY <2>2, <2>3
<1>9. CASE net \notin AffectedNets
  <2>1. \A i \in D : block_locs[Pins[net][i]] = Undone[Pins[net][i]]
    <3>1. \A i \in D : \A r \in DOMAIN moved : moved[r].blk # Pins[net][i]
      BY <1>9 DEF AffectedNets, Seqs!ToSet
    <3> QED BY <1>4, <3>1 DEF MoveMade
  <2>2. ASSUME NEW k \in 1..2 PROVE SideOf(net, k, block_locs) = SideOf(net, k, Undone)
    <3>1. PosOf(net, k, block_locs) = PosOf(net, k, Undone)
      BY <2>1 DEF PosOf
    <3>2. /\ IsSide(SideOf(net, k, block_locs), PosOf(net, k, block_locs), D, Large(net))
          /\ IsSide(SideOf(net, k, Undone), PosOf(net, k, Undone), D, Large(net))
      BY <1>1, SideOfIs
    <3>3. \A i \in D : PosOf(net, k, block_locs)[i] \in Int
      BY <1>1, PosTypes
    <3> QED BY <3>1, <3>2, <3>3, SideUnique
  <2>3. bb[net] = [k \in 1..2 |-> SideOf(net, k, Undone)]
    BY DEF Kept
  <2> QED BY <1>9, <2>2, <2>3 DEF NewBox
<1> QED BY <1>8, <1>9

\* The connections of which an end has moved.
MovedConnections ==
  {c \in Connections : \E r \in DOMAIN moved :
     moved[r].blk \in {Pins[c[1]][1], Pins[c[1]][c[2]]}}

LEMMA ChargedAll ==
  ASSUME MoveMade
  PROVE  Charged(Len(MovedPins)) = MovedConnections
<1> DEFINE N == Len(MovedPins)
<1>1. IsPinList(MovedPins, Len(moved)) /\ DOMAIN moved = 1..Len(moved)
  BY MovedPinsFacts DEF MoveMade
<1>2. ASSUME NEW net \in Nets, NEW i \in DOMAIN Pins[net]
      PROVE  <<net, i>> \in Looked(N) <=> \E r \in DOMAIN moved : moved[r].blk = Pins[net][i]
  <2>1. ASSUME NEW l \in 1..N, <<net, i>> = <<MovedPins[l].net, MovedPins[l].pin>>
        PROVE  \E r \in DOMAIN moved : moved[r].blk = Pins[net][i]
    <3>1. l \in DOMAIN MovedPins
      BY PinCount
    <3> QED BY <2>1, <3>1, PinAt
  <2>2. ASSUME NEW r \in DOMAIN moved, moved[r].blk = Pins[net][i]
        PROVE  <<net, i>> \in Looked(N)
    <3>1. PICK l \in DOMAIN MovedPins : MovedPins[l].net = net /\ MovedPins[l].pin = i
      BY <1>1, <2>2 DEF IsPinList
    <3>2. l \in 1..N
      BY PinCount
    <3> QED BY <3>1, <3>2 DEF Looked
  <2> QED BY <2>1, <2>2 DEF Looked
<1>3. ASSUME NEW c \in Connections
      PROVE  c \in Charged(N) <=> c \in MovedConnections
  <2>1. /\ c[1] \in Routed /\ c[1] \in Nets /\ c = <<c[1], c[2]>> /\ c[2] \in 2..Len(Pins[c[1]])
        /\ 1 \in DOMAIN Pins[c[1]] /\ c[2] \in DOMAIN Pins[c[1]] /\ c[2] # 1
    BY ConnectionParts, PinFacts DEF Routed
  <2>2. /\ c \in Due(c[1], 1)
        /\ \A i \in DOMAIN Pins[c[1]] : i # 1 =>
             (c \in Due(c[1], i) <=> ~DrivenByMovedBlock(c[1]) /\ i = c[2])
    <3>1. c \in Due(c[1], 1)
      BY <2>1 DEF Due, Sinks
    <3>2. ASSUME NEW i \in DOMAIN Pins[c[1]], i # 1
          PROVE  c \in Due(c[1], i) <=> ~DrivenByMovedBlock(c[1]) /\ i = c[2]
      BY <2>1, <3>2 DEF Due
    <3> QED BY <3>1, <3>2
  <2>3. c \in Charged(N) <=> \E i \in DOMAIN Pins[c[1]] : <<c[1], i>> \in Looked(N) /\ c \in Due(c[1], i)
    BY DEF Charged
  <2>4. <<c[1], 1>> \in Looked(N) <=> DrivenByMovedBlock(c[1])
    BY <1>2, <2>1 DEF DrivenByMovedBlock
  <2>5. c \in Charged(N) <=> DrivenByMovedBlock(c[1]) \/ <<c[1], c[2]>> \in Looked(N)
    BY <2>1, <2>2, <2>3, <2>4
  <2>6. c \in MovedConnections <=>
          \/ \E r \in DOMAIN moved : moved[r].blk = Pins[c[1]][1]
          \/ \E r \in DOMAIN moved : moved[r].blk = Pins[c[1]][c[2]]
    BY DEF MovedConnections
  <2> QED BY <1>2, <2>1, <2>5, <2>6 DEF DrivenByMovedBlock
<1> QED BY <1>3 DEF Charged, MovedConnections

\* A judgement is right when it has the new boxes and costs of what has moved,
\* and the differences that they make.
JudgedRight(j) ==
  /\ \A net \in AffectedNets : j.box[net] = NewBox(net)
  /\ \A c \in MovedConnections : j.temp[c] = PointCost(c, block_locs, crit)
  /\ j.delay = Sum(DelayChange, MovedConnections)
  /\ j.timing = Sum(TimingChange, MovedConnections)

LEMMA MoveIsJudgedRight ==
  ASSUME MoveMade, Kept
  PROVE  JudgedRight(MoveJudged)
<1>1. /\ ChargesRight(MoveJudged, Len(MovedPins))
      /\ Charged(Len(MovedPins)) = MovedConnections
  BY MoveJudgedRight, ChargedAll DEF RightSoFar
<1>2. \A net \in AffectedNets : MoveJudged.box[net] = NewBox(net)
  <2>1. AffectedNets \subseteq Routed
    BY DEF AffectedNets
  <2> QED BY <2>1, JudgedBoxes
<1>3. MovedConnections \subseteq Connections
  BY DEF MovedConnections
<1> QED BY <1>1, <1>2, <1>3 DEF ChargesRight, JudgedRight

LEMMA ConnectionsUnmoved ==
  ASSUME MoveMade, NEW c \in Connections \ MovedConnections
  PROVE  Delay(c, block_locs) = Delay(c, Undone)
<1>1. /\ block_locs[Pins[c[1]][1]] = Undone[Pins[c[1]][1]]
      /\ block_locs[Pins[c[1]][c[2]]] = Undone[Pins[c[1]][c[2]]]
  BY ChargedAll, ChargedInTheEnd
<1> QED BY <1>1 DEF Delay

LEMMA SideTypes ==
  ASSUME NEW net \in Nets, NEW k \in 1..2, NEW locs, Standing(locs)
  PROVE  SideOf(net, k, locs).lo \in Int /\ SideOf(net, k, locs).hi \in Int
BY SideOfIs, PosTypes DEF IsSide

LEMMA NetCostTypes ==
  ASSUME NEW net \in Routed, NEW locs, Standing(locs)
  PROVE  NetCost([k \in 1..2 |-> SideOf(net, k, locs)]) \in Int
<1>1. /\ SideOf(net, 1, locs).lo \in Int /\ SideOf(net, 1, locs).hi \in Int
      /\ SideOf(net, 2, locs).lo \in Int /\ SideOf(net, 2, locs).hi \in Int
  BY SideTypes DEF Routed
<1> QED BY <1>1 DEF NetCost

\* Boxes of which some have changed.
LEMMA BbSums ==
  ASSUME MoveMade, Kept, JudgedRight(judged)
  PROVE  TotalBb(bb) + BbDelta = TotalBb([net \in Routed |-> NewBox(net)])
<1> DEFINE f == [net \in Routed |-> NetCost(bb[net])]
           g == [net \in Routed |-> NetCost(NewBox(net))]
           d == [net \in AffectedNets |-> NetCost(judged.box[net]) - NetCost(bb[net])]
           box == [net \in Routed |-> NewBox(net)]
<1>1. AffectedNets \subseteq Routed
  BY DEF AffectedNets
<1>2. \A net \in Routed : f[net] \in Int /\ g[net] \in Int
  BY NetCostTypes DEF MoveMade, Kept, NewBox
<1>3. \A net \in Routed \ AffectedNets : g[net] = f[net]
  BY JudgedBoxes
<1>4. \A net \in AffectedNets : d[net] = g[net] - f[net]
  BY <1>1 DEF JudgedRight
<1>5. TotalBb(bb) = Sum(f, Routed)
  BY DEF TotalBb, Sum, Funs!SumFunction
<1>6. TotalBb(box) = Sum(g, Routed)
  <2>1. [net \in Routed |-> NetCost(box[net])] = g
    OBVIOUS
  <2>2. DOMAIN g = Routed
    OBVIOUS
  <2> HIDE DEF box, g
  <2> QED BY <2>1, <2>2 DEF TotalBb, Sum, Funs!SumFunction
<1>7. BbDelta = Sum(d, AffectedNets)
  BY DEF BbDelta, Sum, Funs!SumFunction
<1>8. Sum(g, Routed) = Sum(f, Routed) + Sum(d, AffectedNets)
  <2> HIDE DEF f, g, d
  <2> QED BY <1>1, <1>2, <1>3, <1>4, Finite, SumChange
<1> QED BY <1>5, <1>6, <1>7, <1>8

\* Costs of connections of which some have changed.
LEMMA PointSums ==
  ASSUME MoveMade, Kept, JudgedRight(judged)
  PROVE  /\ TotalDelay(p2p) + judged.delay
              = Funs!SumFunction([c \in Connections |-> Delay(c, block_locs)])
         /\ TotalTiming(p2p) + judged.timing
              = Funs!SumFunction([c \in Connections |-> crit[c[1]] * Delay(c, block_locs)])
<1> DEFINE f == [c \in Connections |-> p2p[c].delay]
           g == [c \in Connections |-> Delay(c, block_locs)]
           s == [c \in Connections |-> p2p[c].timing]
           t == [c \in Connections |-> crit[c[1]] * Delay(c, block_locs)]
<1>1. MovedConnections \subseteq Connections
  BY DEF MovedConnections
<1>2. \A c \in Connections : /\ f[c] = Delay(c, Undone) /\ g[c] = Delay(c, block_locs)
                             /\ s[c] = crit[c[1]] * Delay(c, Undone)
                             /\ t[c] = crit[c[1]] * Delay(c, block_locs)
  BY DEF Kept, PointCost
<1>3. /\ TotalDelay(p2p) = Sum(f, Connections) /\ Funs!SumFunction(g) = Sum(g, Connections)
      /\ TotalTiming(p2p) = Sum(s, Connections) /\ Funs!SumFunction(t) = Sum(t, Connections)
  BY DEF TotalDelay, TotalTiming, Sum, Funs!SumFunction
<1> HIDE DEF f, g, s, t
<1>4. \A c \in Connections : f[c] \in Int /\ g[c] \in Int /\ s[c] \in Int /\ t[c] \in Int
  BY <1>2, CostTypes DEF Kept
<1>5. \A c \in Connections \ MovedConnections : g[c] = f[c] /\ t[c] = s[c]
  BY <1>2, ConnectionsUnmoved
<1>6. \A c \in MovedConnections : DelayChange[c] = g[c] - f[c] /\ TimingChange[c] = t[c] - s[c]
  BY <1>1, <1>2 DEF DelayChange, TimingChange
<1>7. Sum(g, Connections) = Sum(f, Connections) + Sum(DelayChange, MovedConnections)
  BY <1>1, <1>4, <1>5, <1>6, Finite, SumChange
<1>8. Sum(t, Connections) = Sum(s, Connections) + Sum(TimingChange, MovedConnections)
  BY <1>1, <1>4, <1>5, <1>6, Finite, SumChange
<1> QED BY <1>3, <1>7, <1>8 DEF JudgedRight, f, g, s, t

LEMMA JudgedExact ==
  ASSUME MoveMade, Kept, JudgedRight(judged)
  PROVE  LET true == TrueCosts(block_locs)
         IN  /\ DOMAIN costs = {"bb", "delay", "timing"}
             /\ costs.bb + JudgedDelta.bb = true.bb
             /\ costs.delay + JudgedDelta.delay = true.delay
             /\ costs.timing + JudgedDelta.timing = true.timing
<1>1. /\ DOMAIN costs = {"bb", "delay", "timing"}
      /\ costs.bb = TotalBb(bb) /\ costs.delay = TotalDelay(p2p) /\ costs.timing = TotalTiming(p2p)
  BY DEF Kept
<1>2. TrueCosts(block_locs).bb = TotalBb([net \in Routed |-> NewBox(net)])
  BY DEF TrueCosts, NewBox
<1>3. /\ TrueCosts(block_locs).delay = Funs!SumFunction([c \in Connections |-> Delay(c, block_locs)])
      /\ TrueCosts(block_locs).timing
           = Funs!SumFunction([c \in Connections |-> crit[c[1]] * Delay(c, block_locs)])
  BY DEF TrueCosts
<1>4. /\ JudgedDelta.bb = BbDelta /\ JudgedDelta.delay = judged.delay
      /\ JudgedDelta.timing = judged.timing
  BY DEF JudgedDelta
<1> QED BY <1>1, <1>2, <1>3, <1>4, BbSums, PointSums

\* Taking the temporary costs over, pin by pin.
IsTaking(f, n) ==
  f = [k \in 0..n |-> IF k = 0 THEN [p2p |-> p2p, temp |-> judged.temp]
                      ELSE PinTaken(f[k - 1], MovedPins[k])]

LEMMA TakingExists ==
  ASSUME NEW n \in Nat
  PROVE  \E f : IsTaking(f, n)
<1> DEFINE Good == {m \in Nat : \E f : IsTaking(f, m)}
<1>1. 0 \in Good
  <2>1. IsTaking([k \in 0..0 |-> [p2p |-> p2p, temp |-> judged.temp]], 0)
    BY DEF IsTaking
  <2> QED BY <2>1
<1>2. \A m \in Nat : m \in Good => m + 1 \in Good
  <2> SUFFICES ASSUME NEW m \in Nat, NEW f, IsTaking(f, m) PROVE \E h : IsTaking(h, m + 1)
    OBVIOUS
  <2> DEFINE h == [k \in 0..m + 1 |-> IF k = 0 THEN [p2p |-> p2p, temp |-> judged.temp]
                                      ELSE PinTaken(f[k - 1], MovedPins[k])]
  <2>1. \A k \in 0..m : h[k] = f[k]
    BY DEF IsTaking
  <2>2. \A k \in 0..m + 1 : k # 0 => h[k - 1] = f[k - 1]
    <3> HIDE DEF h
    <3>1. \A k \in 0..m + 1 : k # 0 => k - 1 \in 0..m
      OBVIOUS
    <3> QED BY <2>1, <3>1
  <2>3. IsTaking(h, m + 1)
    BY <2>2 DEF IsTaking
  <2> QED BY <2>3
<1>3. Nat \subseteq Good
  <2> HIDE DEF Good
  <2> QED BY <1>1, <1>2, NatSetInduction
<1> QED BY <1>3

TakenRight(s, n) ==
  \A c \in Connections :
    /\ s.p2p[c] = IF c \in Charged(n) THEN judged.temp[c] ELSE p2p[c]
    /\ c \notin Charged(n) => s.temp[c] = judged.temp[c]

LEMMA TakenStep ==
  ASSUME MoveMade, NEW n \in DOMAIN MovedPins, NEW s, TakenRight(s, n - 1)
  PROVE  TakenRight(PinTaken(s, MovedPins[n]), n)
<1> DEFINE x == MovedPins[n]
           due == IF x.net \in Routed THEN Due(x.net, x.pin) ELSE {}
           u == PinTaken(s, x)
<1>1. /\ Charged(n) = Charged(n - 1) \cup due
      /\ due \cap Charged(n - 1) = {}
  BY ChargedStep
<1>2. \A c \in Connections :
        /\ u.p2p[c] = IF c \in due THEN s.temp[c] ELSE s.p2p[c]
        /\ u.temp[c] = IF c \in due THEN Undefined ELSE s.temp[c]
  <2> HIDE DEF x
  <2> QED BY DEF PinTaken
<1> HIDE DEF u, due
<1>3. TakenRight(u, n)
  BY <1>1, <1>2 DEF TakenRight
<1> QED BY <1>3 DEF u

LEMMA TakenOverExact ==
  ASSUME MoveMade, Kept, JudgedRight(judged)
  PROVE  TakenOver.p2p = [c \in Connections |-> PointCost(c, block_locs, crit)]
<1> DEFINE n == Len(MovedPins)
           f == CHOOSE f : IsTaking(f, n)
<1>1. n \in Nat /\ DOMAIN MovedPins = 1..n
  BY PinCount
<1>2. IsTaking(f, n)
  <2> HIDE DEF n
  <2> QED BY <1>1, TakingExists
<1>3. TakenOver = f[n]
  BY DEF TakenOver, IsTaking
<1> HIDE DEF f, n
<1>4. /\ f[0] = [p2p |-> p2p, temp |-> judged.temp]
      /\ \A k \in 1..n : f[k] = PinTaken(f[k - 1], MovedPins[k])
  <2>1. \A k \in 0..n : f[k] = IF k = 0 THEN [p2p |-> p2p, temp |-> judged.temp]
                               ELSE PinTaken(f[k - 1], MovedPins[k])
    BY <1>2 DEF IsTaking
  <2>2. 0 \in 0..n /\ \A k \in 1..n : k \in 0..n /\ k # 0
    BY <1>1
  <2> QED BY <2>1, <2>2
<1> DEFINE Claim(k) == k <= n => TakenRight(f[k], k)
           Good == {k \in Nat : Claim(k)}
<1>5. 0 \in Good
  <2>1. Charged(0) = {}
    BY DEF Charged, Looked
  <2> QED BY <1>4, <2>1 DEF TakenRight
<1>6. ASSUME NEW k \in Nat, k \in Good PROVE k + 1 \in Good
  <2>1. ASSUME k + 1 <= n PROVE TakenRight(f[k + 1], k + 1)
    <3>1. TakenRight(f[k], k)
      BY <1>1, <1>6, <2>1
    <3>2. k + 1 \in 1..n /\ (k + 1) - 1 = k
      BY <1>1, <2>1
    <3>3. f[k + 1] = PinTaken(f[k], MovedPins[k + 1])
      BY <1>4, <3>2
    <3> QED BY <1>1, <3>1, <3>2, <3>3, TakenStep
  <2> QED BY <2>1
<1>7. TakenRight(f[n], n)
  <2>1. n \in Good
    <3> HIDE DEF Good
    <3>1. Nat \subseteq Good
      BY <1>5, <1>6, NatSetInduction
    <3> QED BY <1>1, <3>1
  <2>2. n <= n
    BY <1>1
  <2> QED BY <2>1, <2>2
<1>8. Charged(n) = MovedConnections
  BY ChargedAll DEF n
<1>9. ASSUME NEW c \in Connections PROVE f[n].p2p[c] = PointCost(c, block_locs, crit)
  <2>1. CASE c \in MovedConnections
    BY <1>7, <1>8, <2>1 DEF TakenRight, JudgedRight
  <2>2. CASE c \notin MovedConnections
    <3>1. f[n].p2p[c] = PointCost(c, Undone, crit)
      BY <1>7, <1>8, <2>2 DEF TakenRight, Kept
    <3> QED BY <2>2, <3>1, ConnectionsUnmoved DEF PointCost
  <2> QED BY <2>1, <2>2
<1>10. f[n].p2p = [c \in Connections |-> f[n].p2p[c]]
  <2>1. CASE n = 0
    BY <1>4, <2>1 DEF Kept
  <2>2. CASE n # 0
    <3>1. f[n] = PinTaken(f[n - 1], MovedPins[n])
      BY <1>1, <1>4, <2>2
    <3>2. \A s, x : PinTaken(s, x).p2p = [c \in Connections |-> PinTaken(s, x).p2p[c]]
      BY DEF PinTaken
    <3> QED BY <3>1, <3>2
  <2> QED BY <2>1, <2>2
<1> QED BY <1>3, <1>9, <1>10

-----------------------------------------------------------------------------
(* The invariant: the costs that are kept are those of the placement before *)
(* the move, and a move that has been judged was judged rightly.            *)

CInv ==
  /\ Annealing => Kept
  /\ Judged => phase = "assess" /\ JudgedRight(judged)

\* The boxes of the placement.
BoxesAt(locs) == [net \in Routed |-> [k \in 1..2 |-> SideOf(net, k, locs)]]

\* The ends of a box that is found anew.
LEMMA SameEnds ==
  ASSUME Standing(block_locs), NEW net \in Routed, NEW k \in 1..2
  PROVE  /\ NonUpdateable(net)[k].lo = SideOf(net, k, block_locs).lo
         /\ NonUpdateable(net)[k].hi = SideOf(net, k, block_locs).hi
<1>1. net \in Nets
  BY DEF Routed
<1>2. NonUpdateable(net)[k] = [lo |-> SideOf(net, k, block_locs).lo, nlo |-> 0,
                               hi |-> SideOf(net, k, block_locs).hi, nhi |-> 0]
  BY <1>1, NonUpdateableSide
<1> QED BY <1>2

LEMMA SideIsRecord ==
  ASSUME NEW net, NEW k, NEW locs
  PROVE  LET s == SideOf(net, k, locs)
         IN  s = [lo |-> s.lo, nlo |-> s.nlo, hi |-> s.hi, nhi |-> s.nhi]
BY DEF SideOf

\* What comp_bb_cost finds from scratch is what is kept, in either way.
LEMMA CheckedSame ==
  ASSUME Standing(block_locs)
  PROVE  Checked(BoxesAt(block_locs)) = BoxesAt(block_locs)
<1> DEFINE Side(net, k) == SideOf(net, k, block_locs)
           Again(net, k) == [Side(net, k) EXCEPT !.lo = NonUpdateable(net)[k].lo,
                                                 !.hi = NonUpdateable(net)[k].hi]
<1>1. ASSUME NEW net \in Routed, NEW k \in 1..2
      PROVE  Again(net, k) = Side(net, k)
  <2>1. NonUpdateable(net)[k].lo = Side(net, k).lo /\ NonUpdateable(net)[k].hi = Side(net, k).hi
    BY SameEnds
  <2>2. Side(net, k) = [lo |-> Side(net, k).lo, nlo |-> Side(net, k).nlo,
                        hi |-> Side(net, k).hi, nhi |-> Side(net, k).nhi]
    BY SideIsRecord
  <2> HIDE DEF Side
  <2> QED BY <2>1, <2>2
<1>2. \A net \in Routed : \A k \in 1..2 : BoxesAt(block_locs)[net][k] = Side(net, k)
  BY DEF BoxesAt
<1>3. Checked(BoxesAt(block_locs)) = [net \in Routed |-> [k \in 1..2 |-> Again(net, k)]]
  BY <1>2 DEF Checked
<1> HIDE DEF Again
<1>4. [net \in Routed |-> [k \in 1..2 |-> Again(net, k)]]
        = [net \in Routed |-> [k \in 1..2 |-> Side(net, k)]]
  BY <1>1
<1> QED BY <1>3, <1>4 DEF BoxesAt

LEMMA SameBoxCost ==
  ASSUME Standing(block_locs)
  PROVE  TotalBb([net \in Routed |-> NonUpdateable(net)]) = TotalBb(BoxesAt(block_locs))
<1>1. \A net \in Routed : NetCost(NonUpdateable(net)) = NetCost(BoxesAt(block_locs)[net])
  <2> SUFFICES ASSUME NEW net \in Routed
               PROVE  NetCost(NonUpdateable(net)) = NetCost(BoxesAt(block_locs)[net])
    OBVIOUS
  <2>1. \A k \in 1..2 : /\ NonUpdateable(net)[k].lo = SideOf(net, k, block_locs).lo
                        /\ NonUpdateable(net)[k].hi = SideOf(net, k, block_locs).hi
    BY SameEnds
  <2>2. \A k \in 1..2 : BoxesAt(block_locs)[net][k] = SideOf(net, k, block_locs)
    BY DEF BoxesAt
  <2> QED BY <2>1, <2>2 DEF NetCost
<1>2. [net \in Routed |-> NetCost([n \in Routed |-> NonUpdateable(n)][net])]
        = [net \in Routed |-> NetCost(BoxesAt(block_locs)[net])]
  BY <1>1
<1> QED BY <1>2 DEF TotalBb

LEMMA FirstBoxes ==
  ASSUME Standing(block_locs)
  PROVE  [net \in Routed |-> IF Large(net) THEN FromScratch(net) ELSE NonUpdateable(net)]
           = BoxesAt(block_locs)
<1>1. \A net \in Routed : (IF Large(net) THEN FromScratch(net) ELSE NonUpdateable(net))
                            = [k \in 1..2 |-> SideOf(net, k, block_locs)]
  BY FromScratchBox, NonUpdateableBox DEF Routed
<1> QED BY <1>1 DEF BoxesAt

\* The placement that annealing starts from, and the one of a placer at rest.
LEMMA AllStand ==
  ASSUME IInv, phase = "initial", \A b \in Blocks : Placed(b)
  PROVE  Standing(block_locs) /\ Undone = block_locs
<1>1. Types /\ moved = <<>>
  BY DEF IInv, InitialInv
<1>2. block_locs \in [Blocks -> Sites \cup {NoSite}]
  BY <1>1 DEF Types
<1> QED BY <1>1, <1>2, RestoredNone, UndoneRestored DEF Placed, Standing

LEMMA StartKept ==
  ASSUME IInv, CInv, StartWithCosts
  PROVE  StartAnnealing /\ CInv'
<1>1. /\ phase = "initial" /\ \A b \in Blocks : Placed(b)
      /\ Standing(block_locs) /\ Undone = block_locs
  BY AllStand DEF StartWithCosts
<1>2. /\ crit' \in Criticalities /\ p2p' = PointCosts(crit')
      /\ costs' = [bb |-> TotalBb(BoxesAt(block_locs)), delay |-> TotalDelay(p2p'),
                   timing |-> TotalTiming(p2p')]
      /\ bb' = BoxesAt(block_locs)
  BY <1>1, FirstBoxes, CheckedSame DEF StartWithCosts
<1>3. CostsPass(costs', crit')
  BY <1>1, <1>2, SameBoxCost DEF CostsPass
<1>4. StartAnnealing
  BY <1>1, <1>3 DEF StartWithCosts, StartAnnealing
<1>5. Undone' = block_locs
  BY <1>1 DEF StartWithCosts, Stop, Undone
<1>6. Kept'
  BY <1>2, <1>5 DEF Kept, BoxesAt, PointCosts
<1>7. ~Judged'
  BY <1>1 DEF CInv, StartWithCosts, Judged
<1> QED BY <1>4, <1>6, <1>7 DEF CInv

\* Steps that leave the costs alone leave what undoing the move gives alone.
LEMMA MoveBlocksKept ==
  ASSUME IInv, CInv, MoveBlocks, UNCHANGED costVars
  PROVE  CInv'
<1>1. Undone' = Undone
  <2>1. CASE LeaveChip \/ HitMacro \/ \E b \in Blocks : \E to \in LegalPos(BlockType[b]) : Propose(b, to)
    BY <2>1 DEF LeaveChip, HitMacro, Propose, Stop, Undone
  <2>2. CASE MoveToEmpty \/ \E c \in Blocks : SwapWith(c)
    BY <2>2, MoveToEmptyInv, SwapWithInv
  <2>3. CASE Abort
    BY <2>3, UndoInv DEF Abort
  <2> QED BY <2>1, <2>2, <2>3 DEF MoveBlocks
<1>2. Annealing /\ phase # "assess"
  BY DEF MoveBlocks, LeaveChip, HitMacro, Propose, MoveToEmpty, SwapWith, Abort, Annealing
<1>3. Kept'
  BY <1>1, <1>2 DEF CInv, Kept, costVars
<1>4. ~Judged'
  BY <1>2 DEF CInv, Judged, costVars
<1> QED BY <1>3, <1>4 DEF CInv

LEMMA PlaceInitiallyKept ==
  ASSUME CInv, PlaceInitially, UNCHANGED costVars
  PROVE  CInv'
<1>1. phase = "initial" /\ ~Annealing'
  BY DEF PlaceInitially, PlaceMacro, MacroOverruns, PlaceBlock, PlacementFails, NoRoomForMacro,
         NoRoomForBlock, IsNextMacro, IsNextBlock, Stop, Annealing
<1>2. ~Judged'
  BY <1>1 DEF CInv, Judged, costVars
<1> QED BY <1>1, <1>2 DEF CInv

LEMMA MoveCostsKept ==
  ASSUME IInv, CInv, MoveCosts
  PROVE  CInv'
<1>1. MoveMade /\ Kept /\ JudgedRight(MoveJudged)
  BY MoveIsMade, MoveIsJudgedRight DEF MoveCosts, CInv, Annealing
<1>2. Undone' = Undone /\ block_locs' = block_locs /\ moved' = moved /\ phase' = "assess"
      /\ crit' = crit /\ bb' = bb /\ p2p' = p2p /\ costs' = costs /\ judged' = MoveJudged
  BY DEF MoveCosts, vars, Undone
<1>3. Kept'
  BY <1>1, <1>2 DEF Kept
<1>4. /\ AffectedNets' = AffectedNets /\ MovedConnections' = MovedConnections
      /\ DelayChange' = DelayChange /\ TimingChange' = TimingChange
  BY <1>2 DEF AffectedNets, MovedConnections, DelayChange, TimingChange
<1>5. JudgedRight(judged)'
  <2>1. \A net \in AffectedNets : judged'.box[net] = NewBox(net)'
    BY <1>1, <1>2 DEF JudgedRight, NewBox
  <2>2. \A c \in MovedConnections : judged'.temp[c] = PointCost(c, block_locs, crit)'
    BY <1>1, <1>2 DEF JudgedRight
  <2>3. /\ judged'.delay = Sum(DelayChange, MovedConnections)'
        /\ judged'.timing = Sum(TimingChange, MovedConnections)'
    BY <1>1, <1>2, <1>4 DEF JudgedRight, Sum
  <2> QED BY <1>4, <2>1, <2>2, <2>3 DEF JudgedRight
<1> QED BY <1>2, <1>3, <1>5 DEF CInv

\* Writing back what was judged gives the costs of the new placement.
LEMMA KeepMoveKept ==
  ASSUME IInv, CInv, KeepMove
  PROVE  CInv'
<1>1. phase = "assess" /\ Judged /\ JudgedRight(judged) /\ Kept /\ MoveMade
  BY MoveIsMade DEF KeepMove, CInv, Annealing, Accept
<1>2. Undone' = block_locs
  BY AcceptInv DEF KeepMove
<1>3. bb' = BoxesAt(block_locs)
  <2>1. \A net \in Routed : (IF net \in AffectedNets THEN judged.box[net] ELSE bb[net]) = NewBox(net)
    BY <1>1, JudgedBoxes DEF JudgedRight
  <2>2. bb' = [net \in Routed |-> NewBox(net)]
    BY <2>1 DEF KeepMove
  <2> QED BY <2>2 DEF BoxesAt, NewBox
<1>4. p2p' = PointCosts(crit)
  BY <1>1, TakenOverExact DEF KeepMove, PointCosts
<1>5. /\ TotalBb(bb') = TrueCosts(block_locs).bb
      /\ TotalDelay(p2p') = TrueCosts(block_locs).delay
      /\ TotalTiming(p2p') = TrueCosts(block_locs).timing
  <2>1. \A c \in Connections : /\ p2p'[c].delay = Delay(c, block_locs)
                               /\ p2p'[c].timing = crit[c[1]] * Delay(c, block_locs)
    BY <1>4 DEF PointCosts, PointCost
  <2>2. /\ [c \in Connections |-> p2p'[c].delay] = [c \in Connections |-> Delay(c, block_locs)]
        /\ [c \in Connections |-> p2p'[c].timing]
             = [c \in Connections |-> crit[c[1]] * Delay(c, block_locs)]
    BY <2>1
  <2> QED BY <1>3, <2>2 DEF TrueCosts, BoxesAt, TotalDelay, TotalTiming
<1>6. costs' = [bb |-> TotalBb(bb'), delay |-> TotalDelay(p2p'), timing |-> TotalTiming(p2p')]
  <2>1. costs' = [k \in {"bb", "delay", "timing"} |-> costs[k] + JudgedDelta[k]]
    BY <1>1, JudgedExact DEF KeepMove
  <2>2. /\ costs'["bb"] = TotalBb(bb') /\ costs'["delay"] = TotalDelay(p2p')
        /\ costs'["timing"] = TotalTiming(p2p')
    BY <1>1, <1>5, <2>1, JudgedExact
  <2> QED BY <2>1, <2>2
<1>7. Kept'
  BY <1>1, <1>2, <1>3, <1>4, <1>6 DEF Kept, KeepMove, BoxesAt, PointCosts
<1>8. ~Judged'
  BY DEF KeepMove, Judged
<1> QED BY <1>7, <1>8 DEF CInv

LEMMA RejectMoveKept ==
  ASSUME IInv, CInv, RejectMove
  PROVE  CInv'
<1>1. Kept /\ Undone' = Undone
  BY UndoInv DEF CInv, RejectMove, Reject, Annealing
<1>2. Kept' /\ ~Judged'
  BY <1>1 DEF RejectMove, Kept, Judged
<1> QED BY <1>2 DEF CInv

\* Between moves nothing is to be undone.
LEMMA BetweenMoves ==
  ASSUME IInv, CInv, phase = "anneal"
  PROVE  /\ Standing(block_locs) /\ Undone = block_locs /\ Kept /\ ~Judged
         /\ bb = BoxesAt(block_locs) /\ p2p = PointCosts(crit)
<1>1. Standing(block_locs) /\ Undone = block_locs
  BY AtRest DEF Resting, Standing
<1>2. Kept /\ ~Judged
  BY DEF CInv, Annealing
<1> QED BY <1>1, <1>2 DEF Kept, BoxesAt, PointCosts

LEMMA RecomputeCriticalitiesKept ==
  ASSUME IInv, CInv, RecomputeCriticalities
  PROVE  CInv' /\ UNCHANGED vars
<1>1. /\ Undone = block_locs /\ Kept /\ ~Judged
  BY BetweenMoves DEF RecomputeCriticalities
<1>2. Undone' = block_locs /\ UNCHANGED vars
  BY <1>1 DEF RecomputeCriticalities, vars, Undone
<1>3. costs' = [bb |-> TotalBb(bb), delay |-> TotalDelay(p2p'), timing |-> TotalTiming(p2p')]
  BY <1>1 DEF Kept, RecomputeCriticalities
<1>4. Kept'
  BY <1>1, <1>2, <1>3 DEF Kept, RecomputeCriticalities, PointCosts
<1>5. ~Judged'
  BY <1>1 DEF RecomputeCriticalities, Judged
<1> QED BY <1>2, <1>4, <1>5 DEF CInv

\* The costs found from scratch are those that were kept: there is no drift.
LEMMA RecomputeCostsKept ==
  ASSUME IInv, CInv, RecomputeCosts
  PROVE  CInv' /\ UNCHANGED vars
<1>1. /\ phase = "anneal" /\ Undone = block_locs /\ Kept /\ ~Judged /\ p2p = PointCosts(crit)
  BY BetweenMoves DEF RecomputeCosts
<1>2. /\ p2p' = p2p /\ bb' = bb /\ crit' = crit /\ judged' = judged
  BY <1>1 DEF RecomputeCosts
<1> DEFINE new == [bb |-> TotalBb(bb), delay |-> TotalDelay(p2p'), timing |-> TotalTiming(p2p')]
<1>3. new = costs
  BY <1>1, <1>2 DEF Kept
<1>4. costs' = [new EXCEPT !.delay = costs.delay] /\ Stop(IF new = costs THEN "anneal" ELSE "error")
  BY DEF RecomputeCosts
<1>5. costs' = costs
  BY <1>3, <1>4
<1>6. UNCHANGED vars
  BY <1>1, <1>3, <1>4 DEF Stop, vars
<1>7. Undone' = Undone
  BY <1>6 DEF vars, Undone
<1>8. Kept' /\ ~Judged'
  BY <1>1, <1>2, <1>5, <1>7 DEF Kept, Judged
<1> QED BY <1>6, <1>8 DEF CInv

LEMMA FinishKept ==
  ASSUME IInv, CInv, FinishWithCosts
  PROVE  CInv' /\ FinishAnnealing
<1>1. /\ phase = "anneal" /\ Standing(block_locs) /\ Undone = block_locs /\ Kept /\ ~Judged
      /\ bb = BoxesAt(block_locs) /\ p2p = PointCosts(crit)
  BY BetweenMoves DEF FinishWithCosts
<1>2. CostsPass(costs, crit)
  BY <1>1, SameBoxCost DEF CostsPass, Kept
<1>3. FinishAnnealing
  BY <1>1, <1>2 DEF FinishWithCosts, FinishAnnealing
<1>4. bb' = bb /\ p2p' = p2p /\ crit' = crit /\ costs' = costs /\ judged' = judged
  BY <1>1, CheckedSame DEF FinishWithCosts
<1>5. Undone' = Undone
  BY DEF FinishWithCosts, Stop, Undone
<1>6. Kept' /\ ~Judged'
  BY <1>1, <1>4, <1>5 DEF Kept, Judged
<1> QED BY <1>3, <1>6 DEF CInv

\* Every step with costs is a step of placing, or none, and keeps the costs.
LEMMA CostStep ==
  ASSUME IInv, CInv, [CostNext]_<<vars, costVars>>
  PROVE  CInv' /\ [Next]_vars
<1>1. CASE PlaceInitially /\ UNCHANGED costVars
  BY <1>1, PlaceInitiallyKept DEF Next
<1>2. CASE StartWithCosts
  BY <1>2, StartKept DEF Next
<1>3. CASE MoveBlocks /\ UNCHANGED costVars
  BY <1>3, MoveBlocksKept DEF Next, MoveBlocks
<1>4. CASE MoveCosts
  BY <1>4, MoveCostsKept DEF MoveCosts
<1>5. CASE KeepMove
  BY <1>5, KeepMoveKept DEF Next, KeepMove
<1>6. CASE RejectMove
  BY <1>6, RejectMoveKept DEF Next, RejectMove
<1>7. CASE RecomputeCriticalities
  BY <1>7, RecomputeCriticalitiesKept
<1>8. CASE RecomputeCosts
  BY <1>8, RecomputeCostsKept
<1>9. CASE FinishWithCosts
  BY <1>9, FinishKept DEF Next
<1>10. CASE UNCHANGED <<vars, costVars>>
  <2>1. Undone' = Undone /\ phase' = phase /\ moved' = moved /\ block_locs' = block_locs
    BY <1>10 DEF vars, Undone
  <2>2. UNCHANGED <<bb, p2p, crit, costs, judged>>
    BY <1>10 DEF costVars
  <2>3. Kept' <=> Kept
    BY <2>1, <2>2 DEF Kept
  <2>4. JudgedRight(judged)' <=> JudgedRight(judged)
    BY <2>1, <2>2 DEF JudgedRight, AffectedNets, MovedConnections, NewBox, DelayChange,
                      TimingChange
  <2>5. (Annealing' <=> Annealing) /\ (Judged' <=> Judged)
    BY <2>1, <2>2 DEF Annealing, Judged
  <2> QED BY <1>10, <2>1, <2>3, <2>4, <2>5 DEF CInv
<1> QED BY <1>1, <1>2, <1>3, <1>4, <1>5, <1>6, <1>7, <1>8, <1>9, <1>10 DEF CostNext

LEMMA CostInvariant == CostSpec => [](IInv /\ CInv)
<1>1. CostInit => IInv /\ CInv
  BY InitInv DEF CostInit, Init, CInv, Annealing, Judged
<1>2. IInv /\ CInv /\ [CostNext]_<<vars, costVars>> => IInv' /\ CInv'
  BY CostStep, NextInv
<1> QED BY <1>1, <1>2, PTL DEF CostSpec

\* Placing with costs is placing: the checks of the costs, before the annealing,
\* in its outer loop and at its end, decide nothing, since they never fail
\* (comp_bb_cost, comp_td_costs and check_place in place.cpp).  Whatever the
\* theorems say of Placement holds with the costs.
THEOREM CostsImplementPlacement == CostSpec => Spec
<1>1. CostInit => Init
  BY DEF CostInit
<1>2. IInv /\ CInv /\ [CostNext]_<<vars, costVars>> => [Next]_vars
  BY CostStep
<1> QED BY <1>1, <1>2, CostInvariant, PTL DEF CostSpec, Spec

\* The bounding boxes with their counts of pins, the cost of each connection and
\* the sums are those of the placement after any moves, though update_bb,
\* update_td_delta_costs and the sums only ever add differences; and a move is
\* judged by the costs that the new placement really has.
THEOREM PlacementCostsExact == CostSpec => []CostsExact
<1>1. IInv /\ CInv => CostsExact
  <2> SUFFICES ASSUME IInv, CInv, phase \in {"anneal", "assess", "done"}
               PROVE  CostsExact
    BY DEF CostsExact
  <2>1. Kept
    BY DEF CInv, Annealing
  <2>2. ASSUME Judged
        PROVE  \A k \in DOMAIN costs : costs[k] + JudgedDelta[k] = TrueCosts(block_locs)[k]
    <3>1. MoveMade /\ JudgedRight(judged)
      BY <2>2, MoveIsMade DEF CInv
    <3> QED BY <2>1, <3>1, JudgedExact
  <2> QED BY <2>1, <2>2 DEF CostsExact, Kept
<1> QED BY <1>1, CostInvariant, PTL

\* The outer loop never finds that the costs have drifted, nor does check_place
\* find an error in them at the end (place.cpp raises an exception for both).
THEOREM CostsNeverDrift == CostSpec => EndsWell
  BY CostsImplementPlacement, CheckPlacePasses, PTL
=============================================================================
