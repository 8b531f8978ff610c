----------------------------- MODULE LogicGates -----------------------------
(***************************************************************************)
(* What the nodes of ODIN II's netlists compute: the three-valued logic of *)
(* compute_and_store_value (ODIN_II/SRC/SIM_TOOLS/simulate_blif.cpp), one  *)
(* function from the values of the input pins to that of the output pin    *)
(* per kind of node without a memory.                                      *)
(***************************************************************************)
EXTENDS Integers, Sequences, FiniteSets, SequencesExt

Unknown == 0 - 1
Value == {Unknown, 0, 1}

Dominated(s, v, out, other) ==
  IF v \in ToSet(s) THEN out ELSE IF Unknown \in ToSet(s) THEN Unknown ELSE other

And(s)  == Dominated(s, 0, 0, 1)
Or(s)   == Dominated(s, 1, 1, 0)
Nand(s) == Dominated(s, 0, 1, 0)
Nor(s)  == Dominated(s, 1, 0, 1)

Ones(s) == Cardinality({i \in DOMAIN s : s[i] = 1})
Known(s, out) == IF Unknown \in ToSet(s) THEN Unknown ELSE out

Xor(s)   == Known(s, Ones(s) % 2)
Xnor(s)  == Known(s, 1 - (Ones(s) % 2))
Lt(s)    == Known(s, IF s = <<0, 1, 0>> THEN 1 ELSE 0)
Gt(s)    == Known(s, IF s = <<1, 0, 0>> THEN 1 ELSE 0)
Carry(s) == Known(s, IF Ones(s) >= 2 THEN 1 ELSE 0)

\* The first half of the inputs selects from the second, the first selector
\* that is 1 wins; an unknown selector keeps the value held before.  (The
\* default clauses of Verilog's if and case are not modelled.)
Mux2(s, held) ==
  LET half   == Len(s) \div 2
      chosen == {i \in 1..half : s[i] = 1}
  IN  IF Unknown \in {s[i] : i \in 1..half} THEN held
      ELSE IF chosen = {} THEN Unknown
      ELSE s[half + (CHOOSE i \in chosen : \A j \in chosen : i <= j)]

GateKind == {"AND", "OR", "NAND", "NOR", "NOT", "XOR", "XNOR", "LT", "GT",
             "ADDER_FUNC", "CARRY_FUNC", "MUX_2", "OUTPUT", "GND", "VCC", "PAD"}

\* The output of a gate, from its inputs of this cycle and the value it had.
Gate(kind, s, held) ==
  CASE kind = "AND" -> And(s)
    [] kind = "OR" -> Or(s)
    [] kind = "NAND" -> Nand(s)
    [] kind \in {"NOR", "NOT"} -> Nor(s)
    [] kind \in {"XOR", "ADDER_FUNC"} -> Xor(s)
    [] kind = "XNOR" -> Xnor(s)
    [] kind = "LT" -> Lt(s)
    [] kind = "GT" -> Gt(s)
    [] kind = "CARRY_FUNC" -> Carry(s)
    [] kind = "MUX_2" -> Mux2(s, held)
    [] kind = "OUTPUT" -> s[1]
    [] kind \in {"GND", "PAD"} -> 0
    [] kind = "VCC" -> 1
=============================================================================
