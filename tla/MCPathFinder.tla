---------------------------- MODULE MCPathFinder ----------------------------
(***************************************************************************)
(* Two nets compete for three wires, two of which are shorted together.    *)
(* The first net has two sinks and is routed incrementally, the second has *)
(* one and is always ripped up; a third is global.  The class that drives  *)
(* the first net has two output pins and reserves one for a local          *)
(* connection, so that the net has to give way to it or it to the net.     *)
(***************************************************************************)
EXTENDS PathFinder

MCNode == {"S1", "S2", "A1", "A2", "B1", "W1", "W2", "W3", "W4",
           "P1", "P2", "P3", "K1", "K2", "K3"}
MCType ==
  [n \in MCNode |->
     CASE n \in {"S1", "S2"} -> "SOURCE"
       [] n \in {"A1", "A2", "B1"} -> "OPIN"
       [] n \in {"P1", "P2", "P3"} -> "IPIN"
       [] n \in {"K1", "K2", "K3"} -> "SINK"
       [] OTHER -> "CHAN"]
MCCapacity == [n \in MCNode |-> IF n = "S1" THEN 2 ELSE 1]
MCShort == {<<"W2", "W3">>, <<"W3", "W2">>}
MCEdge ==
  MCShort \cup
  {<<"S1", "A1">>, <<"S1", "A2">>, <<"S2", "B1">>,
   <<"A1", "W1">>, <<"A1", "W2">>, <<"A2", "W4">>,
   <<"B1", "W1">>, <<"B1", "W3">>,
   <<"W1", "P1">>, <<"W1", "P2">>, <<"W2", "P1">>, <<"W3", "P2">>,
   <<"W4", "P1">>, <<"W1", "P3">>, <<"W2", "P3">>,
   <<"P1", "K1">>, <<"P2", "K2">>, <<"P3", "K3">>}
MCSortedNets == <<"clk", "n1", "n2">>
MCSource == [m \in {"clk", "n1", "n2"} |-> IF m = "n1" THEN "S1" ELSE "S2"]
MCSinks == [m \in {"clk", "n1", "n2"} |->
              IF m = "n1" THEN {"K1", "K2"} ELSE {"K3"}]
MCBox == [m \in {"clk", "n1", "n2"} |-> MCNode]
MCClassSource == [c \in {"a"} |-> "S1"]
MCNumLocalOpins == [c \in {"a"} |-> 1]
=============================================================================
