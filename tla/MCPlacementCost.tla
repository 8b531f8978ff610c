--------------------------- MODULE MCPlacementCost ---------------------------
(***************************************************************************)
(* The first circuit of MCPlacement with its nets: "wide" has as many      *)
(* sinks as make a box updateable and is driven by a member of the macro;  *)
(* "loop" feeds its driver's block, and another block with two pins;       *)
(* "small" is computed afresh in every move; "clk" is global.              *)
(***************************************************************************)
EXTENDS PlacementCost, MCPlacement

MidNets == {"wide", "loop", "small", "clk"}
MidPins == [net \in MidNets |->
  CASE net = "wide"  -> <<1, 2, 3, 4, 5>>
    [] net = "loop"  -> <<3, 3, 4, 4, 6>>
    [] net = "small" -> <<5, 6, 2>>
    [] net = "clk"   -> <<6, 1, 4>>]
MidBlockPins == [b \in 1..6 |->
  CASE b = 1 -> <<<<"wide", 1>>, <<"clk", 2>>>>
    [] b = 2 -> <<<<"wide", 2>>, <<"small", 3>>>>
    [] b = 3 -> <<<<"wide", 3>>, <<"loop", 2>>, <<"loop", 1>>>>
    [] b = 4 -> <<<<"wide", 4>>, <<"loop", 3>>, <<"loop", 4>>, <<"clk", 3>>>>
    [] b = 5 -> <<<<"wide", 5>>, <<"small", 1>>>>
    [] b = 6 -> <<<<"small", 2>>, <<"loop", 5>>, <<"clk", 1>>>>]
MidCriticalities == {[net \in MidNets |-> IF net = "wide" THEN 1 ELSE 3],
                     [net \in MidNets |-> IF net = "loop" THEN 2 ELSE 0]}
=============================================================================
