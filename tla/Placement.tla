------------------------------ MODULE Placement ------------------------------
(***************************************************************************)
(* Placing blocks on the chip (vpr/src/place/place.cpp): the random        *)
(* initial placement, then the moves of the annealer.  try_swap moves a    *)
(* block, or a whole macro member by member: it changes the locations of   *)
(* blocks at once and remembers what it moved, but changes the grid only   *)
(* when the move is accepted; a move that is rejected, or found impossible *)
(* half-way, is undone from the list of moved blocks.                      *)
(*                                                                         *)
(* A site is <<x, y, z>>, z being the place within the tile.  Every block  *)
(* type is one tile large.  Costs are in PlacementCost: here any move may  *)
(* be accepted.  Pads placed by a user's file (pad_loc_type USER) are left *)
(* out.  An operator called X_Y is a wrong X.                              *)
(***************************************************************************)
EXTENDS Integers, Sequences, FiniteSets

CONSTANTS NumBlocks,      \* blocks are numbered, as ClusterBlockId
          BlockType,      \* [Blocks -> type]
          Macros,         \* sequence of [members: sequence of blocks, direct: offset]
          Width, Height,  \* of the grid
          TileType,       \* [Tiles -> type]
          Capacity,       \* [type -> blocks a tile holds]
          IOTypes,        \* types for which is_io_type() holds
          PadLoc          \* "free" or "random": pads are locked once placed

Blocks  == 1..NumBlocks
EMPTY   == 0                  \* EMPTY_BLOCK_ID
Tiles   == (0..Width-1) \X (0..Height-1)
Tile(s) == <<s[1], s[2]>>
Sites   == UNION {{<<t[1], t[2], z>> : z \in 0..Capacity[TileType[t]]-1} : t \in Tiles}
NoSite  == <<-1, -1, -1>>     \* OPEN in every coordinate

Plus(s, d)  == <<s[1] + d[1], s[2] + d[2], s[3] + d[3]>>
Minus(s, t) == <<s[1] - t[1], s[2] - t[2], s[3] - t[3]>>

\* legal_pos: the sites that can hold a block of a type.
LegalPos(type) == {s \in Sites : TileType[Tile(s)] = type}

Members(m) == Macros[m].members
InMacro(b) == \E m \in DOMAIN Macros : \E i \in DOMAIN Members(m) : Members(m)[i] = b
UnitOf(b)  ==   \* what moves when b moves
  IF InMacro(b) THEN Members(CHOOSE m \in DOMAIN Macros : \E i \in DOMAIN Members(m) : Members(m)[i] = b)
                ELSE <<b>>

\* The offset of the i-th member from the head.  The z offset of the direct
\* connection is not multiplied, and is given to the head as well.
Offset(m, i) == LET d == Macros[m].direct IN <<(i - 1) * d[1], (i - 1) * d[2], d[3]>>

ASSUME GridAssumption ==
  /\ NumBlocks \in Nat /\ Width \in Nat /\ Height \in Nat
  /\ \A t \in Tiles : Capacity[TileType[t]] \in Nat
  /\ PadLoc \in {"free", "random"}
\* validate_macros: a block is in one macro at most.  The members of a macro
\* are joined by a direct connection between pins of one block type, and
\* ProcessDirects refuses one that leads to the tile it comes from.
ASSUME MacroAssumption ==
  /\ Macros \in Seq([members : Seq(Blocks), direct : Int \X Int \X Int])
  /\ \A m \in DOMAIN Macros :
       /\ Members(m) # <<>>
       /\ Macros[m].direct[1] # 0 \/ Macros[m].direct[2] # 0
       /\ \A i \in DOMAIN Members(m) : BlockType[Members(m)[i]] = BlockType[Members(m)[1]]
  /\ \A m, n \in DOMAIN Macros : \A i \in DOMAIN Members(m), j \in DOMAIN Members(n) :
       Members(m)[i] = Members(n)[j] => m = n /\ i = j

VARIABLES block_locs,   \* where each block is, moves in progress included
          is_fixed,     \* blocks the annealer must leave alone
          grid_blocks,  \* the block of each site
          usage,        \* how many blocks each tile holds
          moved,        \* blocks_affected: what the current move has moved
          mover,        \* the unit being moved, how far it got, the offset
          phase         \* "initial", "anneal", "moving", "assess", "abort",
                        \* "done", "error" or "undefined"

vars == <<block_locs, is_fixed, grid_blocks, usage, moved, mover, phase>>

NoMove == [unit |-> <<>>, next |-> 1, offset |-> <<0, 0, 0>>]

Init ==
  /\ block_locs = [b \in Blocks |-> NoSite]
  /\ is_fixed = [b \in Blocks |-> FALSE]
  /\ grid_blocks = [s \in Sites |-> EMPTY]
  /\ usage = [t \in Tiles |-> 0]
  /\ moved = <<>>
  /\ mover = NoMove
  /\ phase = "initial"

Stop(how) ==
  /\ phase' = how
  /\ UNCHANGED <<block_locs, is_fixed, grid_blocks, usage, moved, mover>>

-----------------------------------------------------------------------------
(* Initial placement: macros first, in order, then the other blocks.       *)

Placed(b)      == block_locs[b] # NoSite
MacrosPlaced   == \A m \in DOMAIN Macros : Placed(Members(m)[1])
IsNextMacro(m) == /\ phase = "initial"
                  /\ ~Placed(Members(m)[1])
                  /\ \A n \in 1..m-1 : Placed(Members(n)[1])
IsNextBlock(b) == /\ phase = "initial" /\ MacrosPlaced
                  /\ ~Placed(b)
                  /\ \A c \in 1..b-1 : Placed(c)

HeadSites(m)   == LegalPos(BlockType[Members(m)[1]])
SiteOf(m, head, i) == Plus(head, Offset(m, i))

\* check_macro_can_be_placed, for one member.  Only x and y are held against
\* the grid; the place within the tile is not.
TileSuits(m, head, i) ==
  LET s == SiteOf(m, head, i)
  IN  Tile(s) \in Tiles /\ TileType[Tile(s)] = BlockType[Members(m)[1]]
Vacant_HeadOnly(m, head, i) ==
  /\ TileSuits(m, head, i)
  /\ SiteOf(m, head, i) \in Sites

Vacant(m, head, i) ==
  /\ TileSuits(m, head, i)
  /\ SiteOf(m, head, i) \in Sites
  /\ grid_blocks[SiteOf(m, head, i)] = EMPTY
Tried(m, head) == grid_blocks[head] = EMPTY /\ Cardinality(HeadSites(m)) >= Len(Members(m))
Fits(m, head)  == Tried(m, head) /\ \A i \in DOMAIN Members(m) : Vacant(m, head, i)
\* The check looks up a place the tile does not have.
Overruns(m, head) ==
  /\ Tried(m, head)
  /\ \E i \in DOMAIN Members(m) :
       /\ \A k \in 1..i-1 : Vacant(m, head, k)
       /\ TileSuits(m, head, i) /\ SiteOf(m, head, i) \notin Sites

PlaceMacro_UsageOfHead(m, head) ==
  /\ IsNextMacro(m) /\ Fits(m, head)
  /\ block_locs' = [b \in Blocks |->
       IF \E i \in DOMAIN Members(m) : Members(m)[i] = b
       THEN SiteOf(m, head, CHOOSE i \in DOMAIN Members(m) : Members(m)[i] = b)
       ELSE block_locs[b]]
  /\ grid_blocks' = [s \in Sites |->
       IF \E b \in Blocks : block_locs'[b] = s THEN CHOOSE b \in Blocks : block_locs'[b] = s
       ELSE EMPTY]
  /\ usage' = [usage EXCEPT ![Tile(head)] = @ + Len(Members(m))]
  /\ UNCHANGED <<is_fixed, moved, mover, phase>>

PlaceMacro(m, head) ==
  LET at(i) == SiteOf(m, head, i)
      On(s) == {i \in DOMAIN Members(m) : at(i) = s}
  IN  /\ IsNextMacro(m) /\ Fits(m, head)
      /\ block_locs' = [b \in Blocks |->
           IF \E i \in DOMAIN Members(m) : Members(m)[i] = b
           THEN at(CHOOSE i \in DOMAIN Members(m) : Members(m)[i] = b)
           ELSE block_locs[b]]
      /\ grid_blocks' = [s \in Sites |->
           IF On(s) = {} THEN grid_blocks[s]
           ELSE Members(m)[CHOOSE i \in On(s) : \A k \in On(s) : k <= i]]
      /\ usage' = [t \in Tiles |->
           usage[t] + Cardinality({i \in DOMAIN Members(m) : Tile(at(i)) = t})]
      /\ UNCHANGED <<is_fixed, moved, mover, phase>>

MacroOverruns(m, head) ==
  /\ IsNextMacro(m) /\ Overruns(m, head)
  /\ Stop("undefined")

NoRoomForMacro(m) ==
  /\ IsNextMacro(m)
  /\ \A head \in HeadSites(m) : ~Fits(m, head) /\ ~Overruns(m, head)

PlaceBlock(b, s) ==
  /\ IsNextBlock(b)
  /\ grid_blocks[s] = EMPTY
  /\ block_locs' = [block_locs EXCEPT ![b] = s]
  /\ grid_blocks' = [grid_blocks EXCEPT ![s] = b]
  /\ usage' = [usage EXCEPT ![Tile(s)] = @ + 1]
  /\ is_fixed' = [is_fixed EXCEPT ![b] = BlockType[b] \in IOTypes /\ PadLoc = "random"]
  /\ UNCHANGED <<moved, mover, phase>>

NoRoomForBlock(b) ==
  /\ IsNextBlock(b)
  /\ \A s \in LegalPos(BlockType[b]) : grid_blocks[s] # EMPTY

PlacementFails ==
  /\ \/ \E m \in DOMAIN Macros : NoRoomForMacro(m)
     \/ \E b \in Blocks : NoRoomForBlock(b)
  /\ Stop("error")

-----------------------------------------------------------------------------
(* check_place: the consistency check before and after the annealing.      *)

OnTile(t) == {s \in Sites : Tile(s) = t /\ grid_blocks[s] # EMPTY}

\* The members of a macro are at their offsets from the head.
AtOffsets(m) == \A i \in DOMAIN Members(m) :
  LET s == Plus(block_locs[Members(m)[1]], Offset(m, i))
  IN  block_locs[Members(m)[i]] = s /\ grid_blocks[s] = Members(m)[i]
CheckPlace ==
  /\ \A t \in Tiles : usage[t] <= Capacity[TileType[t]] /\ usage[t] = Cardinality(OnTile(t))
  /\ \A s \in Sites : grid_blocks[s] # EMPTY =>
       /\ BlockType[grid_blocks[s]] = TileType[Tile(s)]
       /\ Tile(block_locs[grid_blocks[s]]) = Tile(s)
  /\ \A b \in Blocks : Cardinality({s \in Sites : grid_blocks[s] = b}) = 1
  /\ \A m \in DOMAIN Macros : AtOffsets(m)

StartAnnealing ==
  /\ phase = "initial" /\ \A b \in Blocks : Placed(b)
  /\ Stop(IF CheckPlace THEN "anneal" ELSE "error")

FinishAnnealing ==
  /\ phase = "anneal"
  /\ Stop(IF CheckPlace THEN "done" ELSE "error")

-----------------------------------------------------------------------------
(* A move.  pick_from_block and find_to choose a block that is not fixed   *)
(* and a site of its type in another tile whose block, if any, is not      *)
(* fixed either.  If they find none the move is rejected, with no effect.  *)

Movable(b) == ~is_fixed[b]
Propose(b, to) ==
  /\ phase = "anneal" /\ Movable(b)
  /\ to \in LegalPos(BlockType[b]) /\ Tile(to) # Tile(block_locs[b])
  /\ grid_blocks[to] # EMPTY => Movable(grid_blocks[to])
  /\ mover' = [unit |-> UnitOf(b), next |-> 1, offset |-> Minus(to, block_locs[b])]
  /\ phase' = "moving"
  /\ UNCHANGED <<block_locs, is_fixed, grid_blocks, usage, moved>>

\* The member find_affected_blocks looks at, and where it is to go.
Member == mover.unit[mover.next]
Target == Plus(block_locs[Member], mover.offset)

OnChip_AnyType(b, s) == s[1] >= 1 /\ s[2] >= 1 /\ s \in Sites

\* Only members of macros are checked here: find_to has checked other blocks.
OnChip(b, s) ==
  /\ s[1] >= 1 /\ s[1] < Width
  /\ s[2] >= 1 /\ s[2] < Height
  /\ s[3] >= 0
  /\ TileType[Tile(s)] = BlockType[b]
Allowed == InMacro(Member) => OnChip(Member, Target)

LeaveChip ==
  /\ phase = "moving" /\ ~Allowed
  /\ Stop("abort")

HitsMacro_OnlyMacros(b) == b # EMPTY /\ InMacro(b) /\ InMacro(Member)

\* setup_blocks_affected does not swap with a member of a macro.
HitsMacro(b) == b # EMPTY /\ InMacro(b)
HitMacro ==
  /\ phase = "moving" /\ Allowed
  /\ HitsMacro(grid_blocks[Target])
  /\ Stop("abort")

Move(b, from, to, vacant) == [blk |-> b, old |-> from, new |-> to, vacant |-> vacant]
NextMember ==
  /\ mover' = [mover EXCEPT !.next = @ + 1]
  /\ phase' = IF mover.next = Len(mover.unit) THEN "assess" ELSE "moving"
  /\ UNCHANGED <<is_fixed, grid_blocks, usage>>

MoveToEmpty ==
  /\ phase = "moving" /\ Allowed
  /\ grid_blocks[Target] = EMPTY
  /\ block_locs' = [block_locs EXCEPT ![Member] = Target]
  /\ moved' = Append(moved, Move(Member, block_locs[Member], Target, TRUE))
  /\ NextMember

SwapWith_LeavesOther(c) ==
  /\ phase = "moving" /\ Allowed
  /\ c = grid_blocks[Target] /\ c # EMPTY /\ ~HitsMacro(c)
  /\ block_locs' = [block_locs EXCEPT ![Member] = Target]
  /\ moved' = Append(moved, Move(Member, block_locs[Member], Target, FALSE))
  /\ NextMember

SwapWith(c) ==
  /\ phase = "moving" /\ Allowed
  /\ c = grid_blocks[Target] /\ c # EMPTY /\ ~HitsMacro(c)
  /\ block_locs' = [block_locs EXCEPT ![c] = block_locs[Member], ![Member] = Target]
  /\ moved' = moved \o <<Move(Member, block_locs[Member], Target, FALSE),
                         Move(c, Target, block_locs[Member], FALSE)>>
  /\ NextMember

-----------------------------------------------------------------------------
(* The end of a move.                                                      *)

Last(I)   == CHOOSE i \in I : \A k \in I : k <= i
EndOfMove == moved' = <<>> /\ mover' = NoMove /\ phase' = "anneal"

\* Blocks go back in the order they were moved: the last record decides.
Undone == [b \in Blocks |->
             LET I == {i \in DOMAIN moved : moved[i].blk = b}
             IN  IF I = {} THEN block_locs[b] ELSE moved[Last(I)].old]
Undo ==
  /\ block_locs' = Undone
  /\ EndOfMove
  /\ UNCHANGED <<is_fixed, grid_blocks, usage>>

\* The grid after the loop over the moved blocks: each puts itself on its new
\* site and, if it moved to an empty one, clears its old site.
Cleared(i) == IF moved[i].vacant THEN {moved[i].old} ELSE {}
Committed_LeavesOld == [s \in Sites |->
  LET I == {i \in DOMAIN moved : s = moved[i].new}
  IN  IF I = {} THEN grid_blocks[s] ELSE moved[Last(I)].blk]

Committed == [s \in Sites |->
  LET I == {i \in DOMAIN moved : s = moved[i].new \/ s \in Cleared(i)}
  IN  IF I = {} THEN grid_blocks[s]
      ELSE IF s \in Cleared(Last(I)) THEN EMPTY
      ELSE moved[Last(I)].blk]

Accept_UsageStays ==
  /\ phase = "assess"
  /\ grid_blocks' = Committed
  /\ EndOfMove
  /\ UNCHANGED <<block_locs, is_fixed, usage>>

Accept ==
  /\ phase = "assess"
  /\ grid_blocks' = Committed
  /\ usage' = [t \in Tiles |->
       usage[t] + Cardinality({i \in DOMAIN moved : moved[i].vacant /\ Tile(moved[i].new) = t})
                - Cardinality({i \in DOMAIN moved : moved[i].vacant /\ Tile(moved[i].old) = t})]
  /\ EndOfMove
  /\ UNCHANGED <<block_locs, is_fixed>>

Reject == phase = "assess" /\ Undo
Abort  == phase = "abort" /\ Undo

PlaceInitially ==
  \/ \E m \in DOMAIN Macros : \E head \in HeadSites(m) : PlaceMacro(m, head) \/ MacroOverruns(m, head)
  \/ \E b \in Blocks : \E s \in LegalPos(BlockType[b]) : PlaceBlock(b, s)
  \/ PlacementFails

Next ==
  \/ PlaceInitially
  \/ StartAnnealing
  \/ FinishAnnealing
  \/ \E b \in Blocks : \E to \in LegalPos(BlockType[b]) : Propose(b, to)
  \/ LeaveChip
  \/ HitMacro
  \/ MoveToEmpty
  \/ \E c \in Blocks : SwapWith(c)
  \/ Accept
  \/ Reject
  \/ Abort

Spec == Init /\ [][Next]_vars

\* try_place up to its first consistency check.
InitialPlacement == Init /\ [][PlaceInitially \/ StartAnnealing]_vars

-----------------------------------------------------------------------------
(* Properties.                                                             *)

Phases  == {"initial", "anneal", "moving", "assess", "abort", "done", "error", "undefined"}
Vectors == Int \X Int \X Int
Moves   == [blk : Blocks, old : Sites, new : Sites, vacant : BOOLEAN]

Annealing == phase \in {"anneal", "moving", "assess", "abort", "done"}

Types ==
  /\ block_locs \in [Blocks -> Sites \cup {NoSite}]
  /\ is_fixed \in [Blocks -> BOOLEAN]
  /\ grid_blocks \in [Sites -> Blocks \cup {EMPTY}]
  /\ moved \in Seq(Moves)
  /\ mover \in [unit : Seq(Blocks), next : Nat, offset : Vectors]
  /\ phase \in Phases

\* Every variable has its type: a block is on a site of the chip or nowhere, and
\* no tile counts more blocks than it holds.
TypeOK ==
  /\ Types
  /\ usage \in [Tiles -> Nat]
  /\ \A t \in Tiles : usage[t] <= Capacity[TileType[t]]

\* Once the first placement has been checked, no two blocks are ever on one
\* site, not even while a macro is being moved member by member and the blocks
\* in its way are put on the sites it leaves (setup_blocks_affected decides
\* from the grid, which is behind block_locs).
SitesDistinct ==
  Annealing => \A a, b \in Blocks : block_locs[a] = block_locs[b] => a = b

\* A block that is placed, moved, or displaced by a move, is on a tile of its
\* type: find_affected_blocks tests it for every member of a macro.
OnLegalSites == \A b \in Blocks : Placed(b) => block_locs[b] \in LegalPos(BlockType[b])

\* The grid says where the blocks were when the move began: undoing the move
\* from blocks_affected, at any point, makes block_locs and the grid agree.
GridAgrees ==
  Annealing => \A b \in Blocks, s \in Sites : grid_blocks[s] = b <=> Undone[b] = s

\* Annealing never breaks what check_place checks (usage counts, grid, macros):
\* the check that ends try_place finds no error after any sequence of moves.
EndsWell == [][phase = "anneal" => phase' # "error"]_vars

\* While blocks are first placed, in whatever order sites are drawn, locations,
\* grid and usage counts tell the same, and the members of a macro that is
\* placed are on the tiles its direct connection leads to (try_place_macro looks
\* at each of them, macros may be in one another's way).  What check_place has
\* to complain of, in a macro and when all is placed, is a z offset and nothing
\* else: the code adds it to the head of a macro as well (place_macro.cpp:231).
InLine(m) ==
  LET d == Macros[m].direct
  IN  \A i \in DOMAIN Members(m) :
        Tile(block_locs[Members(m)[i]])
          = Tile(Plus(block_locs[Members(m)[1]], <<(i - 1) * d[1], (i - 1) * d[2], 0>>))
FirstPlacementExact ==
  phase = "initial" =>
    /\ \A b \in Blocks, s \in Sites : grid_blocks[s] = b <=> block_locs[b] = s
    /\ \A t \in Tiles : usage[t] = Cardinality(OnTile(t))
    /\ \A m \in DOMAIN Macros : Placed(Members(m)[1]) =>
         InLine(m) /\ (AtOffsets(m) <=> Macros[m].direct[3] = 0)
    /\ (\A b \in Blocks : Placed(b)) =>
         (CheckPlace <=> \A m \in DOMAIN Macros : Macros[m].direct[3] = 0)

\* Blocks fixed in place are not moved by the annealer (vpr_types.h:664).
FixedNeverMove ==
  phase \in {"moving", "assess"} => \A i \in DOMAIN moved : ~is_fixed[moved[i].blk]

\* A kept move is one exchange: the unit moves by an offset and the blocks in
\* its way by the opposite one; anything else leaves every block in place.
Exchange     == INSTANCE BlockExchange WITH Nowhere <- NoSite, loc <- Undone
ExchangeSpec == Exchange!Spec
=============================================================================
