-------------------------- MODULE StagedSimulation --------------------------
(***************************************************************************)
(* The cycle simulator of ODIN II (ODIN_II/SRC/SIM_TOOLS/simulate_blif.cpp).*)
(*                                                                         *)
(* Simulation goes in waves of WaveLength cycles: the input vectors of the *)
(* whole wave are written to the input pins first, then its cycles are     *)
(* simulated, then its output vectors are written to the file.  All pins   *)
(* of a net share one ring of WaveLength values, and one number, the cycle *)
(* the net was last updated for.                                           *)
(*                                                                         *)
(* The first cycle finds an order in which the nodes can be computed, and  *)
(* cuts it into stages.  In later cycles the nodes of a stage are computed *)
(* one after the other or, when OpenMP is there and measurements of the    *)
(* first wave say so, by threads: a thread that computes a node reads its  *)
(* inputs, later writes its output, and other threads may be in between.   *)
(***************************************************************************)
EXTENDS LogicGates

CONSTANTS
  Circuits,       \* [name -> circuit], as in SynchronousCircuit
  Undriven,       \* the "driver" of a pin that has none
  UndrivenValue,  \* sim_initial_value
  InputValues,    \* what a test vector may hold
  NumVectors,     \* num_vectors
  WaveLength      \* SIM_WAVE_LENGTH, 16 in the code

NumCycles == 2 * NumVectors

ASSUME SizeAssumption ==
  /\ NumVectors \in Nat \ {0}
  /\ WaveLength \in {2 * k : k \in 2..8}
  /\ UndrivenValue \in Value
  /\ InputValues \subseteq Value

\* What the netlists handed to the simulator have in common.  The top-level
\* inputs and the constants, which nothing drives, are where the first cycle
\* starts; the nodes that clock flip-flops are marked as clocks
\* (look_for_clocks, rb_look_for_clocks).
IsCircuit(c) ==
  LET nodes == DOMAIN c.kind
  IN  /\ IsFiniteSet(nodes) /\ Undriven \notin nodes
      /\ c.kind \in [nodes -> GateKind \cup {"INPUT", "CLOCK", "FF", "MEMORY"}]
      /\ c.in \in [nodes -> Seq(nodes \cup {Undriven})]
      /\ c.initial \in [nodes -> Value]
      /\ c.start \in Seq(nodes) /\ IsInjective(c.start)
      /\ \A n \in nodes : c.kind[n] = "INPUT" => n \in ToSet(c.start)
      /\ \A n \in ToSet(c.start) : c.in[n] = <<>>
      /\ \A n \in nodes : /\ c.kind[n] = "OUTPUT" => Len(c.in[n]) = 1
                          /\ c.kind[n] = "MEMORY" => Len(c.in[n]) = 4
                          /\ c.kind[n] = "FF" => Len(c.in[n]) = 2
      /\ \A n \in nodes :
           c.kind[n] = "FF" => \/ c.in[n][2] = Undriven
                               \/ c.kind[c.in[n][2]] = "CLOCK"

ASSUME CircuitAssumption == \A c \in DOMAIN Circuits : IsCircuit(Circuits[c])

VARIABLES
  name,      \* the circuit simulated
  cycle,     \* the cycle being simulated
  phase,     \* what the simulator is doing
  ring,      \* [Node -> [0..WaveLength-1 -> Value]]: nnet_t.values
  stamp,     \* [Node -> Int]: nnet_t.cycle
  store,     \* [memories -> [0..1 -> Value]]: nnode_t.memory_data
  queue,     \* the nodes ready in the first cycle
  ordered,   \* ordered_nodes
  stages,    \* Seq(Seq(Node))
  stage,     \* position in stages
  faster,    \* the stages measured to be faster in parallel
  pending,   \* nodes of the stage no thread has begun
  inFlight,  \* [nodes being computed -> what their threads will write]
  inFile,    \* input vectors used, cycle by cycle
  outFile,   \* output vectors written, cycle by cycle
  stored     \* auxiliary: store when the cycle began

vars == <<name, cycle, phase, ring, stamp, store, queue, ordered, stages,
          stage, faster, pending, inFlight, inFile, outFile, stored>>

Circuit == Circuits[name]
Node == DOMAIN Circuit.kind
OfKind(kinds) == {n \in Node : Circuit.kind[n] \in kinds}
Inputs == OfKind({"INPUT"})
Outputs == OfKind({"OUTPUT"})
Memories == OfKind({"MEMORY"})
Pins(n) == Circuit.in[n]
Drivers(n) == ToSet(Pins(n)) \ {Undriven}

Written == [value : Value, store : [0..1 -> Value] \cup {<<>>}]

TypeOK ==
  /\ name \in DOMAIN Circuits
  /\ cycle \in 0..NumCycles
  /\ phase \in {"vectors", "first", "stage", "done", "error"}
  /\ ring \in [Node -> [0..(WaveLength - 1) -> Value]]
  /\ stamp \in [Node -> -1..(NumCycles - 1)]
  /\ store \in [Memories -> [0..1 -> Value]] /\ stored \in [Memories -> [0..1 -> Value]]
  /\ queue \in Seq(Node)
  /\ ordered \in Seq(Node) /\ IsInjective(ordered)
  /\ stages \in Seq(Seq(Node))
  /\ faster \subseteq DOMAIN stages
  /\ phase = "stage" => stage \in DOMAIN stages
  /\ pending \subseteq Node
  /\ DOMAIN inFlight \subseteq Node /\ \A n \in DOMAIN inFlight : inFlight[n] \in Written
  /\ inFile \in Seq([Inputs -> InputValues])
  /\ outFile \in Seq([Outputs -> Value])

-----------------------------------------------------------------------------
(***************************************************************************)
(* Pins.                                                                   *)
(***************************************************************************)

Offset(c) == (c + WaveLength) % WaveLength

\* get_pin_value for a pin of node n that hangs on the net of driver d.
Read(n, d, c) ==
  IF c < 0 THEN Circuit.initial[n]
  ELSE IF d = Undriven THEN UndrivenValue
  ELSE ring[d][Offset(c)]

IsPosedge(n, d, c) == Read(n, d, c) = 1 /\ Read(n, d, c - 1) # 1

PinCycle(d) == IF d = Undriven THEN cycle ELSE stamp[d]

\* The cycle up to which the driver of a node's pin must have been computed.
\* A memory's pins are <<clk, we, data, addr>>, a flip-flop's <<D, clk>>.
NeededFor_NoEarlyPins(n, i) == cycle
NeededFor(n, i) ==
  IF \/ Circuit.kind[n] = "FF" /\ i = 1
     \/ Circuit.kind[n] = "MEMORY" /\ i \in {2, 3}
  THEN cycle - 1 ELSE cycle

IsReady(n, at) ==
  \A i \in DOMAIN Pins(n) : Pins(n)[i] # Undriven => at[Pins(n)[i]] >= NeededFor(n, i)

-----------------------------------------------------------------------------
(***************************************************************************)
(* Computing a node.                                                       *)
(***************************************************************************)

FlipFlop_DataOfThisCycle(n) ==
  IF IsPosedge(n, Pins(n)[2], cycle) THEN Read(n, Pins(n)[1], cycle)
  ELSE Read(n, n, cycle - 1)
FlipFlop(n) ==
  IF IsPosedge(n, Pins(n)[2], cycle) THEN Read(n, Pins(n)[1], cycle - 1)
  ELSE Read(n, n, cycle - 1)

\* compute_single_port_memory, for words of one bit and addresses of one.
MemoryWrite(n, contents) ==
  LET addr == Read(n, Pins(n)[4], cycle - 1)
  IN  IF /\ IsPosedge(n, Pins(n)[1], cycle)
         /\ addr # Unknown
         /\ Read(n, Pins(n)[2], cycle - 1) # 0
      THEN [contents EXCEPT ![addr] = Read(n, Pins(n)[3], cycle - 1)]
      ELSE contents
MemoryRead(n, contents) ==
  LET addr == Read(n, Pins(n)[4], cycle)
  IN  IF addr = Unknown THEN Unknown ELSE contents[addr]

\* What the thread that reads now will write: compute_and_store_value, for a
\* memory that holds contents.
ComputedFrom(n, contents) ==
  LET kind == Circuit.kind[n] IN
  CASE kind = "INPUT" -> [value |-> Read(n, n, cycle), store |-> <<>>]
    [] kind = "CLOCK" -> [value |-> cycle % 2, store |-> <<>>]
    [] kind = "FF" -> [value |-> FlipFlop(n), store |-> <<>>]
    [] kind = "MEMORY" ->
         LET after == MemoryWrite(n, contents)
         IN  [value |-> MemoryRead(n, after), store |-> after]
    [] OTHER ->
         [value |-> Gate(kind, [i \in DOMAIN Pins(n) |-> Read(n, Pins(n)[i], cycle)],
                         Read(n, n, cycle - 1)),
          store |-> <<>>]
Computed(n) == ComputedFrom(n, store[n])

\* update_pin_value; an input is left alone.
Store(n, w) ==
  /\ ring' = IF n \in Inputs THEN ring
             ELSE [ring EXCEPT ![n][Offset(cycle)] = w.value]
  /\ stamp' = IF n \in Inputs THEN stamp ELSE [stamp EXCEPT ![n] = cycle]
  /\ store' = IF n \in Memories THEN [store EXCEPT ![n] = w.store] ELSE store

\* update_undriven_input_pins: in the fourth cycle everything the node reads
\* should have been updated in this cycle or the one before.
MissesInput(n) ==
  /\ cycle = 3
  /\ \E d \in ToSet(Pins(n)) : PinCycle(d) < cycle - 1

-----------------------------------------------------------------------------
(***************************************************************************)
(* Stages.                                                                 *)
(***************************************************************************)

\* get_children_of, without the repetitions.
Children(n) == {m \in Node : n \in Drivers(m)}

\* The loop of stage_ordered_nodes: a node that is a child or a parent of one
\* of the last stage starts a new stage.
Staged_ParentsOnly(soFar, n) ==
  IF Children(n) \cap ToSet(soFar[Len(soFar)]) # {}
  THEN Append(soFar, <<n>>)
  ELSE [soFar EXCEPT ![Len(soFar)] = Append(@, n)]
Staged(soFar, n) ==
  LET last == ToSet(soFar[Len(soFar)])
  IN  IF (\E m \in last : n \in Children(m)) \/ Children(n) \cap last # {}
      THEN Append(soFar, <<n>>)
      ELSE [soFar EXCEPT ![Len(soFar)] = Append(@, n)]

StageOrdered(order) ==
  LET soFar[i \in 0..Len(order)] ==
        IF i = 0 THEN << <<>> >> ELSE Staged(soFar[i - 1], order[i])
  IN  soFar[Len(order)]

\* Half of the cycles 1..WaveLength-2 measures the stages sequentially, the
\* other half in parallel; afterwards the faster way is taken.
SequentialTest == cycle \in 1..((WaveLength - 2) \div 2)
ParallelTest == cycle \in ((WaveLength - 2) \div 2 + 1)..(WaveLength - 2)
InParallel == ParallelTest \/ (~SequentialTest /\ stage \in faster)

-----------------------------------------------------------------------------
Init ==
  /\ name \in DOMAIN Circuits
  /\ cycle = 0
  /\ phase = "vectors"
  /\ ring = [n \in Node |-> [i \in 0..(WaveLength - 1) |-> Circuit.initial[n]]]
  /\ stamp = [n \in Node |-> -1]
  /\ store = [n \in Memories |-> [a \in 0..1 |-> Unknown]]
  /\ stored = store
  /\ queue = <<>> /\ ordered = <<>> /\ stages = <<>>
  /\ stage = 0 /\ faster = {} /\ pending = {} /\ inFlight = <<>>
  /\ inFile = <<>> /\ outFile = <<>>

\* Last cycle of the wave that cycle begins.
WaveEnd == IF cycle + WaveLength < NumCycles
           THEN cycle + WaveLength - 1 ELSE NumCycles - 1

\* The vectors of a wave are put on the input pins; every second cycle gets a
\* new one.  In the first wave the nodes that are ready are queued next, in
\* the others the first stage begins.
ReadVectors ==
  /\ phase = "vectors"
  /\ \E v \in [{c \in cycle..WaveEnd : c % 2 = 0} -> [Inputs -> InputValues]] :
       LET At(c) == v[c - (c % 2)]
       IN  /\ ring' = [n \in Node |->
                         IF n \in Inputs
                         THEN [i \in 0..(WaveLength - 1) |->
                                 IF cycle + i <= WaveEnd
                                 THEN At(cycle + i)[n] ELSE ring[n][i]]
                         ELSE ring[n]]
           /\ inFile' = inFile \o [i \in 1..(WaveEnd - cycle + 1) |-> At(cycle + i - 1)]
  /\ stamp' = [n \in Node |-> IF n \in Inputs THEN WaveEnd ELSE stamp[n]]
  /\ IF cycle = 0
     THEN /\ phase' = "first"
          /\ queue' = Circuit.start
          /\ UNCHANGED <<stage, pending>>
     ELSE /\ phase' = "stage"
          /\ stage' = 1 /\ pending' = ToSet(stages[1])
          /\ UNCHANGED queue
  /\ UNCHANGED <<name, cycle, store, ordered, stages, faster, inFlight, outFile,
                 stored>>

\* The first cycle: a node is taken from the queue and computed; its children
\* that are ready by now, not queued and not computed yet, are queued.
SimulateFirst_CompleteIgnored ==
  /\ phase = "first" /\ queue # <<>>
  /\ LET n == Head(queue)
         kids == {m \in Children(n) \ ToSet(queue) : IsReady(m, stamp')}
     IN  /\ Store(n, Computed(n))
         /\ ordered' = Append(ordered, n)
         /\ queue' = Tail(queue) \o SetToSeq(kids)
  /\ UNCHANGED <<name, cycle, phase, stages, stage, faster, pending, inFlight,
                 inFile, outFile, stored>>
SimulateFirst ==
  /\ phase = "first" /\ queue # <<>>
  /\ LET n == Head(queue)
         kids == {m \in Children(n) \ ToSet(queue) :
                    IsReady(m, stamp') /\ stamp'[m] < cycle}
     IN  /\ Store(n, Computed(n))
         /\ ordered' = Append(ordered, n)
         /\ \E order \in SetToSeqs(kids) : queue' = Tail(queue) \o order
  /\ UNCHANGED <<name, cycle, phase, stages, stage, faster, pending, inFlight,
                 inFile, outFile, stored>>

\* The output vectors of cycles from to to - 1, which are in the ring.
OutputVectors(from, to) ==
  [i \in 1..(to - from) |-> [o \in Outputs |-> ring[o][Offset(from + i - 1)]]]

\* What happens between two cycles: at the end of a wave its output vectors
\* are written.
EndCycle(st) ==
  LET next == cycle + 1
      ends == next = NumCycles \/ next % WaveLength = 0
  IN  /\ cycle' = next
      /\ stored' = store
      /\ outFile' = IF ~ends THEN outFile
                    ELSE outFile \o OutputVectors(Len(outFile), next)
      /\ phase' = IF next = NumCycles THEN "done"
                  ELSE IF ends THEN "vectors" ELSE "stage"
      /\ IF ends THEN stage' = 0 /\ pending' = {}
         ELSE stage' = 1 /\ pending' = ToSet(st[1])

OrganiseStages ==
  /\ phase = "first" /\ queue = <<>>
  /\ stages' = StageOrdered(ordered)
  /\ faster' \in SUBSET DOMAIN stages'
  /\ EndCycle(stages')
  /\ UNCHANGED <<name, ring, stamp, store, queue, ordered, inFlight, inFile>>

\* A thread takes a node: the only one, in the order of the stage, or one of
\* several.
Begin(n) ==
  /\ phase = "stage"
  /\ n \in pending
  /\ ~InParallel => /\ inFlight = <<>>
                    /\ n = SelectSeq(stages[stage], LAMBDA m : m \in pending)[1]
  /\ IF MissesInput(n)
     THEN phase' = "error" /\ UNCHANGED <<pending, inFlight>>
     ELSE /\ pending' = pending \ {n}
          /\ inFlight' = [m \in DOMAIN inFlight \cup {n} |->
                            IF m = n THEN Computed(n) ELSE inFlight[m]]
          /\ UNCHANGED phase
  /\ UNCHANGED <<name, cycle, ring, stamp, store, queue, ordered, stages, stage,
                 faster, inFile, outFile, stored>>

Finish(n) ==
  /\ phase = "stage"
  /\ n \in DOMAIN inFlight
  /\ Store(n, inFlight[n])
  /\ inFlight' = Restrict(inFlight, DOMAIN inFlight \ {n})
  /\ UNCHANGED <<name, cycle, phase, queue, ordered, stages, stage, faster,
                 pending, inFile, outFile, stored>>

\* The stage is over when all threads are done with it.
StageOver == phase = "stage" /\ pending = {} /\ inFlight = <<>>

NextStage ==
  /\ StageOver
  /\ stage < Len(stages)
  /\ stage' = stage + 1
  /\ pending' = ToSet(stages[stage + 1])
  /\ UNCHANGED <<name, cycle, phase, ring, stamp, store, queue, ordered, stages,
                 faster, inFlight, inFile, outFile, stored>>

NextCycle ==
  /\ StageOver
  /\ stage = Len(stages)
  /\ EndCycle(stages)
  /\ UNCHANGED <<name, ring, stamp, store, queue, ordered, stages, faster,
                 inFlight, inFile>>

Done == phase \in {"done", "error"} /\ UNCHANGED vars

SimulatorStep ==
  \/ ReadVectors
  \/ SimulateFirst
  \/ OrganiseStages
  \/ \E n \in Node : Begin(n) \/ Finish(n)
  \/ NextStage
  \/ NextCycle

Next == SimulatorStep \/ Done

\* The program and its threads run until they are done (this is weak fairness
\* of SimulatorStep, which before that can always be taken).
Fairness == <>[](phase \in {"done", "error"}) \/ []<><<SimulatorStep>>_vars

Spec == Init /\ [][Next]_vars /\ Fairness

-----------------------------------------------------------------------------
(***************************************************************************)
(* Properties.                                                             *)
(***************************************************************************)

\* The nodes that threads may be computing at the same time do not read one
\* another's nets: no thread can see a value or a cycle number while another
\* one is writing it (the "parallel for" of simulate_cycle takes no locks).
ThreadsApart ==
  phase = "stage" =>
    \A n, m \in pending \cup DOMAIN inFlight : n # m => n \notin Drivers(m)

\* What the input file says input d was in cycle c.
Given(n, d, c) == IF c < 0 THEN Circuit.initial[n] ELSE inFile[c + 1][d]

Abstract ==
  INSTANCE SynchronousCircuit WITH
    value   <- [n \in Node |->
                  IF n \in Inputs
                  THEN Given(n, n, cycle - 1)
                  ELSE ring[n][Offset(cycle - 1)]],
    store   <- stored,
    outputs <- outFile \o OutputVectors(Len(outFile), cycle),
    status  <- IF phase \in {"done", "error"} THEN phase ELSE "running"

\* The order the first cycle finds, the stages, the threads, the ring of
\* values and the waves are invisible: cycle by cycle every node has the value
\* the circuit gives it, the output vectors are those values, a value nothing
\* computes is reported in the fourth cycle, and the simulation ends.
SimulatesCircuit == Abstract!Spec
=============================================================================
