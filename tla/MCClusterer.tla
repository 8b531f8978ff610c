---------------------------- MODULE MCClusterer ----------------------------
(***************************************************************************)
(* A logic block holds three elements; each is a LUT with a flip-flop or, in *)
(* its other mode, one bit of a carry chain.  An i/o block is an input or  *)
(* an output.  There are a LUT and its flip-flop, a lone LUT, a carry      *)
(* chain of two bits that continues one of another block, and an output.   *)
(***************************************************************************)
EXTENDS Clusterer

MCPb == {"e1", "e2", "e3", "lut1", "ff1", "add1", "lut2", "ff2", "add2",
         "lut3", "ff3", "add3", "in", "out", "outb"}
MCParent == [p \in MCPb |-> CASE p \in {"e1", "e2", "e3"} -> "clb"
                              [] p \in {"lut1", "ff1", "add1"} -> "e1"
                              [] p \in {"lut2", "ff2", "add2"} -> "e2"
                              [] p \in {"lut3", "ff3", "add3"} -> "e3"
                              [] OTHER -> "io"]
MCAbove == [n \in MCPb \cup {"clb", "io"} |->
              IF n \notin MCPb THEN <<>>
              ELSE IF MCParent[n] \notin MCPb THEN <<MCParent[n]>>
              ELSE <<MCParent[n], MCParent[MCParent[n]]>>]
MCModeOf == [p \in MCPb |-> IF p \in {"add1", "add2", "add3", "out", "outb"} THEN 1 ELSE 0]
MCKind == [p \in MCPb |-> CASE p \in {"lut1", "lut2", "lut3"} -> "lut"
                            [] p \in {"ff1", "ff2", "ff3"} -> "ff"
                            [] p = "outb" -> "out"
                            [] p \in {"add1", "add2", "add3"} -> "add"
                            [] OTHER -> p]
MCNumModes == [t \in {"clb", "io"} |-> IF t = "io" THEN 2 ELSE 1]

MCMolecule == {"pair", "lone", "chain", "output"}
MCAtomsOf == [m \in MCMolecule |-> CASE m = "pair" -> <<"l1", "f1">>
                                     [] m = "lone" -> <<"l2">>
                                     [] m = "chain" -> <<"c1", "c2">>
                                     [] OTHER -> <<"o">>]
MCSites == [m \in MCMolecule |->
              CASE m = "pair" -> {<<"lut1", "ff1">>, <<"lut2", "ff2">>, <<"lut3", "ff3">>}
                [] m = "lone" -> {<<"lut1">>, <<"lut2">>, <<"lut3">>}
                [] m = "chain" -> {<<"add1", "add2">>, <<"add2", "add3">>}
                [] OTHER -> {<<"out">>, <<"outb">>}]
MCRoot == [m \in MCMolecule |-> 1]
MCChainStarts == [m \in MCMolecule |->
                    IF m = "chain" THEN {"add1"} ELSE MCPb]
MCCandidates == [m \in MCMolecule |->
                   IF m = "output" THEN {"io"} ELSE {"clb"}]
=============================================================================
