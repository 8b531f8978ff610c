------------------------------- MODULE Circuit -------------------------------
(***************************************************************************)
(* Reading and cleaning a circuit: the callbacks of read_blif.cpp build an *)
(* AtomNetlist statement by statement, then process_circuit() of           *)
(* read_circuit.cpp absorbs buffer LUTs, drops the net and block 'unconn', *)
(* sweeps what dangles (atom_netlist_utils.cpp), splits clocks used as     *)
(* data, compresses the netlist and verifies it.                           *)
(*                                                                         *)
(* The file is a subsequence of the constant Statements: pos is the last   *)
(* statement read.  The program is sequential, so each statement, each     *)
(* buffer, each sweep pass and each later stage is one action.  sound is a *)
(* history variable: what Sound says of the circuit when it has been read. *)
(*                                                                         *)
(* Not modelled: black-box models, truth tables beyond what is_buffer_lut  *)
(* and net_is_constant ask of them, attributes and parameters, .subckt     *)
(* with several outputs, models whose outputs generate clocks, and .conn   *)
(* of a net to itself.                                                     *)
(*                                                                         *)
(* An operator called X_Y is a wrong X, which the properties tell from X.  *)
(***************************************************************************)
EXTENDS AtomNetlist

CONSTANTS Statements,  \* the statements the file may hold, in file order
          Options      \* command-line settings of the clean-up

Ops == {"inputs", "outputs", "names", "latch", "subckt", "conn", "cname"}

StatementsAssumption ==
    /\ Statements \in Seq([op : Ops, ins : Seq(Base), out : Base, table : Table])
    /\ \A i \in DOMAIN Statements : LET s == Statements[i] IN
          /\ s.op \in {"outputs", "subckt", "conn"} => Len(s.ins) >= 1
          /\ s.op = "latch" => Len(s.ins) >= 2
          /\ s.op = "conn" => s.out # s.ins[1]
ASSUME StatementsAssumption

VARIABLES nl, pos, cur, phase, luts, opts, sound
vars == <<nl, pos, cur, phase, luts, opts, sound>>

Running == nl.error = "none"

-----------------------------------------------------------------------------
(* The callbacks.  Connect puts a new pin of block b on the net called x.  *)

Connect(n0, b, pn, bit, x, const) ==
    LET made == CreateNet(CreatePort(n0, b, pn), Plain(x))
    IN  CreatePin(made, FindPort(made, b, pn), bit, made.netOf[Plain(x)], const)

Inputs(n0, s) ==
    LET made == CreateBlock(n0, Plain(s.out), "input", "other")
    IN  Connect(made, made.blockOf[Plain(s.out)], "out", 0, s.out, FALSE)

Outputs(n0, s) ==
    LET made == CreateBlock(n0, OutPad(s.ins[1]), "output", "other")
    IN  Connect(made, made.blockOf[OutPad(s.ins[1])], "in", 0, s.ins[1], FALSE)

\* The input port exists even without inputs.  A cover without rows, or
\* without inputs, makes a constant.
Names(n0, s) ==
    LET made == CreateBlock(n0, Plain(s.out), "names", s.table)
        b == made.blockOf[Plain(s.out)]
        inputs[i \in 0..Len(s.ins)] ==
            IF i = 0 THEN CreatePort(made, b, "in")
            ELSE Connect(inputs[i - 1], b, "in", i - 1, s.ins[i], FALSE)
    IN  IF Len(s.ins) > LutInputs THEN Fail(n0, "throw")
        ELSE Connect(inputs[Len(s.ins)], b, "out", 0, s.out,
                     s.table = "empty" \/ s.ins = <<>>)

Latch(n0, s) ==
    LET made == CreateBlock(n0, Plain(s.out), "latch", "other")
        b == made.blockOf[Plain(s.out)]
        d == Connect(made, b, "in", 0, s.ins[1], FALSE)
    IN  Connect(Connect(d, b, "out", 0, s.out, FALSE), b, "clk", 0, s.ins[2], FALSE)

Subckt(n0, s) ==
    LET made == CreateBlock(n0, Plain(s.out), "subckt", "other")
        b == made.blockOf[Plain(s.out)]
    IN  Connect(Connect(made, b, "in", 0, s.ins[1], FALSE), b, "out", 0, s.out, FALSE)

Conn(n0, s) ==
    LET made == CreateNet(CreateNet(n0, Plain(s.ins[1])), Plain(s.out))
    IN  MergeNets(made, made.netOf[Plain(s.ins[1])], made.netOf[Plain(s.out)])

Cname(n0, s) ==
    IF cur = 0 THEN Fail(n0, "assert") ELSE SetBlockName(n0, cur, Plain(s.out))

Callback(n0, s) == CASE s.op = "inputs" -> Inputs(n0, s)
                     [] s.op = "outputs" -> Outputs(n0, s)
                     [] s.op = "names" -> Names(n0, s)
                     [] s.op = "latch" -> Latch(n0, s)
                     [] s.op = "subckt" -> Subckt(n0, s)
                     [] s.op = "conn" -> Conn(n0, s)
                     [] s.op = "cname" -> Cname(n0, s)

\* set_curr_block(): the block a later .cname applies to
CurrBlock(n1, s) == IF s.op \in {"names", "latch", "subckt"}
                    THEN n1.blockOf[Plain(s.out)]
                    ELSE IF s.op = "cname" THEN cur ELSE 0

\* mark_constant_generator_subckts(): rounds until no subcircuit is marked
ConstantSubckts(n0) ==
    LET Blocks == {b \in Valid(n0.blocks) : n0.blocks[b].model = "subckt"}
        DrivenBy(M, n) == Driver(n0, n) # 0 /\ PinBlock(n0, Driver(n0, n)) \in M
        Next1(M) == {b \in Blocks : \A p \in BlockPins(n0, b, "in") :
                       \/ n0.pins[p].net = 0
                       \/ IsConstant(n0, n0.pins[p].net)
                       \/ DrivenBy(M, n0.pins[p].net)}
        round[k \in 0..Cardinality(Blocks)] ==
            IF k = 0 THEN {} ELSE Next1(round[k - 1])
    IN  round[Cardinality(Blocks)]

MarkConstants(n0) ==
    [n0 EXCEPT !.pins = [p \in DOMAIN @ |->
        IF /\ ~IsSink(n0, p) /\ PinBlock(n0, p) \in ConstantSubckts(n0)
        THEN [@[p] EXCEPT !.const = TRUE] ELSE @[p]]]

-----------------------------------------------------------------------------
(* Buffer LUTs.                                                            *)

\* Both ports exist and carry one connected pin each; the truth table is only
\* looked at then.
OneInOneOut(n0, b) ==
    /\ n0.blocks[b].model = "names"
    /\ \A pn \in {"in", "out"} :
          Cardinality({p \in BlockPins(n0, b, pn) : n0.pins[p].net # 0}) = 1

IsBufferLut(n0, b) == OneInOneOut(n0, b) /\ n0.blocks[b].table = "identity"

BufferPin(n0, b, pn) == CHOOSE p \in BlockPins(n0, b, pn) : TRUE
PadIn(n0, pins, model) == \E p \in pins : n0.blocks[PinBlock(n0, p)].model = model

\* The sinks of the two nets but for the buffer's own
MergedSinks_OutputOnly(n0, inPin, outPin) == Sinks(n0, n0.pins[outPin].net)
MergedSinks(n0, inPin, outPin) ==
    Without(Sinks(n0, n0.pins[inPin].net), {inPin}) \o Sinks(n0, n0.pins[outPin].net)

\* Which of the two nets gives the merged net its name
NamingNet_Output(inNet, outNet, fromPad, toPad) == outNet
NamingNet(inNet, outNet, fromPad, toPad) ==
    IF fromPad /\ ~toPad THEN inNet ELSE outNet

\* remove_buffer_lut(): a new net joins the driver of the input net with the
\* sinks; a buffer from an input pad to an output pad stays.
RemoveBufferLut(n0, b) ==
    LET inPin == BufferPin(n0, b, "in")
        outPin == BufferPin(n0, b, "out")
        inNet == n0.pins[inPin].net
        outNet == n0.pins[outPin].net
        driver == Driver(n0, inNet)
        sinks == MergedSinks(n0, inPin, outPin)
        fromPad == PadIn(n0, {driver}, "input")
        toPad == PadIn(n0, ToSet(sinks), "output")
        name == n0.nets[NamingNet(inNet, outNet, fromPad, toPad)].name
        bare == RemoveNets(RemoveNets(RemoveBlocks(n0, {b}), {inNet}), {outNet})
    IN  IF driver = 0 THEN Fail(n0, "range")     \* pin_type(INVALID())
        ELSE IF fromPad /\ toPad THEN n0
        ELSE AddNet(bare, name, driver, sinks)

-----------------------------------------------------------------------------
(* Sweeping.                                                               *)

NoFanout(n0, b) == \A p \in BlockPins(n0, b, "out") : n0.pins[p].net = 0
NoFanin(n0, b) == \A p \in BlockPins(n0, b, "in") : n0.pins[p].net = 0
OfModel(n0, M) == {b \in Valid(n0.blocks) : n0.blocks[b].model \in M}

SweepInputs(n0) ==
    RemoveBlocks(n0, {b \in OfModel(n0, {"input"}) : NoFanout(n0, b)})
SweepOutputs(n0) ==
    RemoveBlocks(n0, {b \in OfModel(n0, {"output"}) : NoFanin(n0, b)})
SweepBlocks(n0) ==
    RemoveBlocks(n0, {b \in OfModel(n0, Model \ {"input", "output"}) : NoFanout(n0, b)})
SweepNets_NeedTwoSinks(n0) ==
    RemoveNets(n0, {n \in Valid(n0.nets) : Driver(n0, n) = 0 \/ Len(Sinks(n0, n)) < 2})
SweepNets(n0) ==
    RemoveNets(n0, {n \in Valid(n0.nets) : Driver(n0, n) = 0 \/ Sinks(n0, n) = <<>>})
SweepConstantOutputs(n0) ==
    RemoveBlocks(n0, {b \in OfModel(n0, {"output"}) :
        \A p \in BlockPins(n0, b, "in") :
            n0.pins[p].net # 0 => IsConstant(n0, n0.pins[p].net)})

\* One pass of sweep_iterative()
SweepPass(n0) ==
    LET ios == IF opts.ios THEN SweepOutputs(SweepInputs(n0)) ELSE n0
        blks == IF opts.blocks THEN SweepBlocks(ios) ELSE ios
        nts == IF opts.nets THEN SweepNets(blks) ELSE blks
    IN  IF opts.constants THEN SweepConstantOutputs(nts) ELSE nts

-----------------------------------------------------------------------------
(* Clocks used as data.                                                    *)

ClockPins(n0) == UNION {BlockPins(n0, b, "clk") :
                          b \in OfModel(n0, Model \ {"input", "output"})}
ClockNets(n0) == {n0.pins[p].net : p \in ClockPins(n0)}
DataSinks(n0, n) ==
    LET s == Sinks(n0, n)
    IN  Keep(s, {i \in DOMAIN s : n0.ports[n0.pins[s[i]].port].name # "clk"})

\* fix_clock_to_data_pins(): a latch without data input drives the data sinks.
SplitClock(n0, n) ==
    LET name == AsData(n0.nets[n].name[2])
        made == CreateBlock(n0, name, "latch", "other")
        b == made.blockOf[name]
        clocked == CreatePort(made, b, "clk")
        clkd == CreatePin(clocked, FindPort(clocked, b, "clk"), 0, n, FALSE)
        netted == CreateNet(CreatePort(clkd, b, "out"), name)
        driven == CreatePin(netted, FindPort(netted, b, "out"), 0,
                            netted.netOf[name], FALSE)
        data == DataSinks(n0, n)
        moved[k \in 0..Len(data)] ==
            IF k = 0 THEN driven
            ELSE SetPinNet(moved[k - 1], data[k], driven.netOf[name])
    IN  moved[Len(data)]

FixClocks_FirstOnly(n0) ==
    LET mixed == {n \in ClockNets(n0) : n # 0 /\ DataSinks(n0, n) # <<>>}
    IN  IF mixed = {} THEN n0 ELSE SplitClock(n0, CHOOSE n \in mixed : TRUE)

FixClocks(n0) ==
    LET mixed == {n \in ClockNets(n0) : DataSinks(n0, n) # <<>>}
        split[k \in 0..Cardinality(mixed)] ==
            IF k = 0 THEN n0 ELSE SplitClock(split[k - 1], Nth(mixed, k))
    IN  IF 0 \in ClockNets(n0) THEN Fail(n0, "assert") ELSE split[Cardinality(mixed)]

-----------------------------------------------------------------------------
(* What the code takes for granted of the circuit it is given.             *)

\* Buffers whose input net is the output of another buffer, or their own
FeedsBuffer(n0, b) ==
    LET n == n0.pins[BufferPin(n0, b, "in")].net
    IN  IF Driver(n0, n) = 0 THEN 0 ELSE PinBlock(n0, Driver(n0, n))
Buffers(n0) == {b \in Valid(n0.blocks) : IsBufferLut(n0, b)}
InBufferLoop(n0, S) == S # {} /\ \A b \in S : FeedsBuffer(n0, b) \in S

Sound(n0) ==
    /\ \A b \in Valid(n0.blocks) : OneInOneOut(n0, b) => n0.blocks[b].table # "empty"
    /\ \A p \in Valid(n0.pins) : ValidId(n0.nets, n0.pins[p].net)
    /\ \A b \in Buffers(n0) : FeedsBuffer(n0, b) # 0
    /\ \A S \in SUBSET Buffers(n0) : ~InBufferLoop(n0, S)
    /\ \A n \in IF opts.nets THEN ClockNets(n0) ELSE Valid(n0.nets) : Driver(n0, n) # 0

-----------------------------------------------------------------------------
Init == /\ nl = NoNetlist
        /\ pos = 0
        /\ cur = 0
        /\ phase = "read"
        /\ luts = <<>>
        /\ opts \in Options
        /\ sound = FALSE

ReadStatement ==
    /\ phase = "read" /\ Running
    /\ \E i \in pos + 1..Len(Statements) :
          /\ pos' = i
          /\ nl' = Callback(nl, Statements[i])
          /\ cur' = CurrBlock(nl', Statements[i])
    /\ UNCHANGED <<phase, luts, opts, sound>>

\* end_model(); process_circuit() starts
EndModel ==
    /\ phase = "read" /\ Running
    /\ nl' = MarkConstants(nl)
    /\ cur' = 0
    /\ sound' = Sound(nl')
    /\ phase' = IF opts.absorb THEN "identify" ELSE "unconn"
    /\ UNCHANGED <<pos, luts, opts>>

\* identify_buffer_luts()
IdentifyBuffers ==
    /\ phase = "identify" /\ Running
    /\ IF \E b \in Valid(nl.blocks) : OneInOneOut(nl, b) /\ nl.blocks[b].table = "empty"
       THEN nl' = Fail(nl, "assert") /\ UNCHANGED luts
       ELSE luts' = Ascending(Buffers(nl)) /\ UNCHANGED nl
    /\ phase' = "absorb"
    /\ UNCHANGED <<pos, cur, opts, sound>>

AbsorbBuffer ==
    /\ phase = "absorb" /\ Running
    /\ luts # <<>>
    /\ nl' = RemoveBufferLut(nl, Head(luts))
    /\ luts' = Tail(luts)
    /\ UNCHANGED <<pos, cur, phase, opts, sound>>

\* The net and the block called 'unconn' stand for unconnected pins.
DropUnconn ==
    /\ \/ phase = "unconn"
       \/ phase = "absorb" /\ luts = <<>>
    /\ Running
    /\ LET x == Plain("unconn")
           Found(id) == IF x \in Name THEN {id[x]} \ {0} ELSE {}
           bare == RemoveNets(nl, Found(nl.netOf))
       IN  nl' = RemoveBlocks(bare, Found(bare.blockOf))
    /\ phase' = "sweep"
    /\ UNCHANGED <<pos, cur, luts, opts, sound>>

\* Sweeping goes on until a pass finds nothing to remove.
Sweep_OnePass ==
    /\ phase = "sweep" /\ Running
    /\ nl' = SweepPass(nl)
    /\ phase' = "fix"
    /\ UNCHANGED <<pos, cur, luts, opts, sound>>

Sweep ==
    /\ phase = "sweep" /\ Running
    /\ nl' = SweepPass(nl)
    /\ phase' = IF nl' = nl THEN "fix" ELSE "sweep"
    /\ UNCHANGED <<pos, cur, luts, opts, sound>>

FixClockToData ==
    /\ phase = "fix" /\ Running
    /\ nl' = FixClocks(nl)
    /\ phase' = "compress"
    /\ UNCHANGED <<pos, cur, luts, opts, sound>>

RemoveAndCompress ==
    /\ phase = "compress" /\ Running
    /\ nl' = Compress(RemoveUnused(nl))
    /\ phase' = "verify"
    /\ UNCHANGED <<pos, cur, luts, opts, sound>>

VerifyCircuit ==
    /\ phase = "verify" /\ Running
    /\ nl' = Verify(nl)
    /\ phase' = "done"
    /\ UNCHANGED <<pos, cur, luts, opts, sound>>

Next == \/ ReadStatement \/ EndModel \/ IdentifyBuffers \/ AbsorbBuffer
        \/ DropUnconn \/ Sweep \/ FixClockToData \/ RemoveAndCompress
        \/ VerifyCircuit

Spec == Init /\ [][Next]_vars

-----------------------------------------------------------------------------
(* Properties.                                                             *)

\* Every id names an entry of its table, wherever it is kept (netlist.h's
\* tables), and the reader and the clean-up keep to their stages.
TypeOK ==
    /\ NetlistType(nl)
    /\ pos \in 0..Len(Statements) /\ cur \in {0} \cup DOMAIN nl.blocks
    /\ phase \in {"read", "identify", "absorb", "unconn", "sweep", "fix",
                  "compress", "verify", "done"}
    /\ ToSet(luts) \subseteq DOMAIN nl.blocks
    /\ opts \in Options /\ sound \in BOOLEAN

\* Blocks, ports, pins and nets point at each other consistently and names find
\* what bears them, after every statement and every clean-up step, removed
\* entries included or not: the cross-references verify_refs() and
\* verify_lookups() check at the end hold all along, unless .conn lost a sink.
RefsAgree ==
    Running /\ (phase # "read" => sound) =>
        /\ OwnersAgree(nl) /\ BitsAscend(nl)
        /\ NetsAgree(nl) /\ LookupsAgree(nl) /\ PortLookupsAgree(nl)

\* pin_net_indices_ is exact while nothing was removed (not dirty_): the index
\* create_pin() and add_net() hand out is the pin's place in its net.
CleanIndices == Running /\ ~nl.dirty => IndicesAgree(nl)

\* A circuit that meets the clean-up's assumptions goes through all of
\* process_circuit() without a failed assertion, an access outside a vector, or
\* an inconsistency that the final verify() would report.
SoundCircuitsSurvive == sound => Running

\* When every sweep is on, what is left after process_circuit() is in use: each
\* net has a driver and a sink, each block that is no output pad drives a net.
NothingDangles ==
    (phase = "done" /\ Running
        /\ opts = [absorb |-> TRUE, ios |-> TRUE, blocks |-> TRUE,
                   nets |-> TRUE, constants |-> TRUE])
    => /\ \A n \in DOMAIN nl.nets : Driver(nl, n) # 0 /\ Sinks(nl, n) # <<>>
       /\ \A b \in DOMAIN nl.blocks :
             nl.blocks[b].model # "output" => ~NoFanout(nl, b)

\* Once clocks are fixed, a net with a clock pin feeds clock pins only: "such
\* connections break the clusterer" (read_circuit.cpp).
ClocksOnlyClock ==
    (phase \in {"compress", "verify", "done"} /\ Running) =>
        \A n \in ClockNets(nl) : n # 0 => DataSinks(nl, n) = <<>>

\* The net of an input pad still bears the pad's name after buffers were
\* absorbed ("we don't want to change PI/PO names", remove_buffer_lut()).
InputNamesKept ==
    (phase \notin {"read", "identify"} /\ Running) =>
        \A b \in OfModel(nl, {"input"}) : \A p \in BlockPins(nl, b, "out") :
            nl.pins[p].net # 0 =>
                nl.nets[nl.pins[p].net].name = nl.blocks[b].name

\* The source of a sink pin, looking through buffer LUTs
Source(n0, q) ==
    LET Up(p) == IF n0.pins[p].net = 0 THEN 0 ELSE Driver(n0, n0.pins[p].net)
        from[k \in 0..Len(n0.blocks)] ==
            IF k = 0 THEN Up(q)
            ELSE LET d == from[k - 1] IN
                 IF d # 0 /\ IsBufferLut(n0, PinBlock(n0, d))
                 THEN Up(BufferPin(n0, PinBlock(n0, d), "in")) ELSE d
    IN  from[Len(n0.blocks)]

SinkPins(n0) == {p \in Valid(n0.pins) : IsSink(n0, p)}

\* Absorbing a buffer leaves every remaining sink with the source it had.
AbsorbKeepsLogic ==
    [][(phase = "absorb" /\ phase' = "absorb" /\ sound /\ Running /\ Running') =>
          \A q \in SinkPins(nl') : Source(nl', q) = Source(nl, q)]_vars

\* Sweeping never takes the driver away from a sink that stays: what an output
\* that stays depends on stays too.
SweepKeepsDrivers ==
    [][(phase = "sweep" /\ Running /\ Running') =>
          \A q \in SinkPins(nl') :
             (nl.pins[q].net # 0 /\ Driver(nl, nl.pins[q].net) # 0) =>
                nl'.pins[q].net = nl.pins[q].net
                /\ Driver(nl', nl.pins[q].net) = Driver(nl, nl.pins[q].net)]_vars

\* Renumbering every id changes no connection: the same pins of the same blocks
\* are on the nets of the same names, as drivers and as sinks.
CompressKeepsConnections ==
    [][(phase = "compress" /\ Running /\ Running') =>
          Connections(nl') = Connections(nl)]_vars

-----------------------------------------------------------------------------
(* What comments and assertions of the code say, and the code does not do. *)

\* merge_nets() moves every sink: no pin is left naming a net that is gone.
MergeKeepsSinks ==
    Running => \A p \in Valid(nl.pins) :
        nl.pins[p].net # 0 => ValidId(nl.nets, nl.pins[p].net)

\* Absorbing keeps primary-output names as it keeps primary-input names: the
\* net that feeds the pad of output x is the net x.
OutputNamesKept ==
    (phase \in {"absorb", "sweep"} /\ Running) =>
        \A b \in OfModel(nl, {"output"}) : \A p \in BlockPins(nl, b, "in") :
            nl.pins[p].net # 0 =>
                OutPad(nl.nets[nl.pins[p].net].name[2]) = nl.blocks[b].name
=============================================================================
