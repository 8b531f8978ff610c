------------------------- MODULE SynchronousCircuit -------------------------
(***************************************************************************)
(* What the simulator of ODIN II promises: cycle after cycle, every node   *)
(* of the circuit has the value its gate, flip-flop or memory gives it,    *)
(* whatever the order and the threads it was computed in.                  *)
(*                                                                         *)
(* A circuit is a record: kind[n] of each node, in[n] the drivers of its   *)
(* input pins in order, initial[n] the value it has before the first cycle *)
(* and start, the top-level inputs and the constants in the order in which *)
(* the simulator is given them.                                            *)
(***************************************************************************)
EXTENDS LogicGates

CONSTANTS
  Circuits,       \* [name -> circuit]
  Undriven,       \* the "driver" of a pin that has none
  UndrivenValue,  \* sim_initial_value, what such a pin reads
  NumCycles       \* two per test vector

VARIABLES
  name,     \* the circuit simulated
  cycle,    \* cycles completed
  value,    \* [Node -> Value]: values in the last completed cycle
  store,    \* [Node -> [0..1 -> Value]]: contents of memories
  outputs,  \* Seq([Outputs -> Value]): the output vectors so far
  status    \* "running", "done" or "error"

vars == <<name, cycle, value, store, outputs, status>>

Node(c) == DOMAIN c.kind
IsStart(c, n) == n \in ToSet(c.start)
OfKind(c, kinds) == {n \in Node(c) : c.kind[n] \in kinds}

\* Inputs of which the value of the cycle before is used: D of a flip-flop
\* <<D, clk>>; we and data of a memory <<clk, we, data, addr>>.
EarlyPins(c, n) ==
  CASE c.kind[n] = "FF" -> {1}
    [] c.kind[n] = "MEMORY" -> {2, 3}
    [] OTHER -> {}

\* The nodes that read one of known, and all they read late from those.
Follow(c, known) ==
  {n \in Node(c) :
     /\ known \cap (ToSet(c.in[n]) \ {Undriven}) # {}
     /\ {c.in[n][i] : i \in DOMAIN c.in[n] \ EarlyPins(c, n)} \subseteq known \cup {Undriven}}

\* The nodes that can be put in an order of computation: those on or behind a
\* loop without a flip-flop cannot, nor those nothing leads to.
Computable(c) ==
  LET reached[k \in 0..Cardinality(Node(c))] ==
        IF k = 0 THEN ToSet(c.start)
        ELSE reached[k - 1] \cup Follow(c, reached[k - 1])
  IN  reached[Cardinality(Node(c))]
ComputableIn == [c \in DOMAIN Circuits |-> Computable(Circuits[c])]

\* Some node would for ever read a value that nothing computes.
ReadsUncomputed(c, computable) ==
  \E n \in computable : ~(ToSet(c.in[n]) \subseteq computable \cup {Undriven})

-----------------------------------------------------------------------------
Circuit == Circuits[name]

Now(d)     == IF d = Undriven THEN UndrivenValue ELSE value'[d]
Before(n, d) == IF cycle = 0 THEN Circuit.initial[n]
                ELSE IF d = Undriven THEN UndrivenValue ELSE value[d]
RisingEdge(n, clk) == Now(clk) = 1 /\ Before(n, clk) # 1

\* A memory is written on a rising edge, with what its inputs were before it.
Written(n) ==
  LET pin  == Circuit.in[n]
      addr == Before(n, pin[4])
  IN  IF RisingEdge(n, pin[1]) /\ addr # Unknown /\ Before(n, pin[2]) # 0
      THEN [store[n] EXCEPT ![addr] = Before(n, pin[3])]
      ELSE store[n]

Correct(n) ==
  LET pin  == Circuit.in[n]
      kind == Circuit.kind[n]
  IN  CASE kind = "INPUT"  -> cycle % 2 = 1 => value'[n] = value[n]
        [] kind = "CLOCK"  -> value'[n] = cycle % 2
        [] kind = "FF"     -> value'[n] = IF RisingEdge(n, pin[2])
                                          THEN Before(n, pin[1]) ELSE value[n]
        [] kind = "MEMORY" -> value'[n] = IF Now(pin[4]) = Unknown THEN Unknown
                                          ELSE store'[n][Now(pin[4])]
        [] OTHER -> value'[n] = Gate(kind, [i \in DOMAIN pin |-> Now(pin[i])],
                                     value[n])

Init == /\ name \in DOMAIN Circuits
        /\ cycle = 0
        /\ value = Circuit.initial
        /\ store = [n \in OfKind(Circuit, {"MEMORY"}) |->
                      [a \in 0..1 |-> Unknown]]
        /\ outputs = <<>>
        /\ status = "running"

Step ==
  /\ status = "running"
  /\ cycle < NumCycles
  /\ cycle' = cycle + 1
  /\ value' \in [Node(Circuit) -> Value]
  /\ store' = [n \in DOMAIN store |->
                IF n \in ComputableIn[name] THEN Written(n) ELSE store[n]]
  /\ \A n \in Node(Circuit) :
       IF n \in ComputableIn[name] THEN Correct(n) ELSE value'[n] = value[n]
  /\ outputs' = Append(outputs,
                  [o \in OfKind(Circuit, {"OUTPUT"}) |-> value'[o]])
  /\ cycle = 3 => ~ReadsUncomputed(Circuit, ComputableIn[name])
  /\ status' = IF cycle' = NumCycles THEN "done" ELSE "running"
  /\ UNCHANGED name

\* The fourth cycle notices that a value is missing.
Complain ==
  /\ status = "running"
  /\ cycle = 3
  /\ ReadsUncomputed(Circuit, ComputableIn[name])
  /\ status' = "error"
  /\ UNCHANGED <<name, cycle, value, store, outputs>>

Next == Step \/ Complain

Spec == Init /\ [][Next]_vars /\ <>(status # "running")
=============================================================================
