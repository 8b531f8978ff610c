------------------------- MODULE MCStagedSimulation -------------------------
(***************************************************************************)
(* Small circuits for the simulator.                                       *)
(***************************************************************************)
EXTENDS StagedSimulation

MakeCircuit(kind, in, start) ==
  [kind |-> kind, in |-> in, start |-> start,
   initial |-> [n \in DOMAIN kind |-> Unknown]]

\* A shift register of two flip-flops, of which the clock's list of children
\* may name the second first, and a memory written with what the first held.
Registers ==
  MakeCircuit(
    [a |-> "INPUT", clk |-> "CLOCK", f1 |-> "FF", f2 |-> "FF",
     mem |-> "MEMORY", x |-> "XOR", o |-> "OUTPUT"],
    [a |-> <<>>, clk |-> <<>>, f1 |-> <<"a", "clk">>, f2 |-> <<"f1", "clk">>,
     mem |-> <<"clk", "a", "f1", "f2">>, x |-> <<"mem", "a">>, o |-> <<"x">>],
    <<"a", "clk">>)

\* A flip-flop behind a loop of gates, which nothing ever computes.
Loop ==
  MakeCircuit(
    [a |-> "INPUT", clk |-> "CLOCK", g |-> "NAND", h |-> "NOT", f |-> "FF",
     o |-> "OUTPUT"],
    [a |-> <<>>, clk |-> <<>>, g |-> <<"a", "h">>, h |-> <<"g">>,
     f |-> <<"h", "clk">>, o |-> <<"f">>],
    <<"a", "clk">>)

\* A flip-flop that holds and toggles, a constant, a pin without a driver, and
\* a loop that only an output hangs on.
Toggle ==
  MakeCircuit(
    [a |-> "INPUT", clk |-> "CLOCK", vcc |-> "VCC", f |-> "FF", m |-> "MUX_2",
     u |-> "OR", l |-> "AND", p |-> "OUTPUT", o |-> "OUTPUT"],
    [a |-> <<>>, clk |-> <<>>, vcc |-> <<>>, f |-> <<"m", "clk">>,
     m |-> <<"a", "vcc", "f", "u">>, u |-> <<"a", "none">>,
     l |-> <<"l", "a">>, p |-> <<"l">>, o |-> <<"m">>],
    <<"a", "clk", "vcc">>)

MCCircuits == [registers |-> Registers, loop |-> Loop, toggle |-> Toggle]
=============================================================================
