----------------------------- MODULE MCPlacement -----------------------------
(* Chips and circuits for Placement.  Columns of pads on the left and the  *)
(* right, an area of logic blocks between them, empty tiles elsewhere.     *)
EXTENDS Placement

Macro(members, dx, dy, dz) == [members |-> members, direct |-> <<dx, dy, dz>>]
PadType == {"io"}

(* A chip with three columns of three logic blocks, where a tile of two    *)
(* pads takes the place of one block and another tile is empty, and a tile *)
(* of pads on the left; a macro of two blocks, one above the other, two    *)
(* single blocks and pads.                                                 *)
MidTypes == <<"clb", "clb", "clb", "clb", "io", "io">>
MidMacros == <<Macro(<<1, 2>>, 0, 1, 0)>>
MidTiles == [t \in (0..4) \X (0..4) |->
  IF t \in {<<0, 1>>, <<3, 1>>} THEN "io"
  ELSE IF t[1] \in 1..3 /\ t[2] \in 1..3 /\ t # <<2, 1>> THEN "clb" ELSE "empty"]
MidCapacity == [type \in {"clb", "io", "empty"} |->
  IF type = "io" THEN 2 ELSE IF type = "clb" THEN 1 ELSE 0]

(* Pads joined by a direct connection, on a chip with a full column of     *)
(* pads on the right.                                                      *)
PadTypes == <<"io", "io", "io", "clb">>
PadMacros == <<Macro(<<1, 2>>, 0, 1, 0)>>
PadTiles == [t \in (0..2) \X (0..3) |->
  IF t[1] = 2 /\ t[2] \in 1..3 THEN "io" ELSE IF t[1] = 1 /\ t[2] = 2 THEN "clb" ELSE "empty"]
PadCapacity == MidCapacity

(* Direct connections with an offset within the tile, after macros that     *)
(* may leave no room for one another in a column of four.                  *)
HighTypes == <<"clb", "clb", "clb", "clb", "io", "io", "io", "io">>
HighMacros == <<Macro(<<1, 2>>, 0, 1, 0), Macro(<<3, 4>>, 0, 1, 0),
                Macro(<<5, 6>>, 0, 1, 1)>>
HighTiles == [t \in (0..2) \X (0..5) |->
  IF t[1] = 1 /\ t[2] \in 1..4 THEN "clb"
  ELSE IF t[1] = 0 /\ t[2] \in 1..4 THEN "io" ELSE "empty"]
HighCapacity == MidCapacity
=============================================================================
