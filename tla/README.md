# Verification models of VTR (vpr)

TLA+ models of parts of this repository, the TLC runs that check them on small
instances, and TLAPS proofs of what holds for every instance. Paths below are
relative to the repository; `src/` is its root.

## The system

VTR compiles Verilog for an FPGA described by an architecture file: ODIN II
elaborates and maps Verilog to BLIF, ABC optimises the logic, and VPR packs,
places and routes it. VPR carries the program's own core logic; its netlist,
packer, placer, router and channel-width search are modelled, and of ODIN II
the simulator, the one place where this repository's own code runs threads.

| Component | Code | State it keeps | Operations | Interacts with |
|---|---|---|---|---|
| Netlist database | `vpr/src/base/netlist.tpp`, `netlist_utils.h`, `atom_netlist.cpp` | tables of blocks, ports, pins and nets that hold ids of one another, name look-ups, a dirty flag | create, add, merge, rename, rewire, remove, remove_unused, compress, verify | every later stage reads it; reader, clean-up and packer change it |
| BLIF reader | `vpr/src/base/read_blif.cpp` | the netlist of the current model, the current block | one callback per statement | called by the parser in file order |
| Circuit clean-up | `read_circuit.cpp`, `atom_netlist_utils.cpp` | the netlist | absorb buffers, drop `unconn`, sweep, split clocks, compress, verify | reads and changes the netlist |
| Clusterer | `vpr/src/pack/cluster.cpp`, `cluster_placement.cpp`, `cluster_router.cpp` | partial clusters, atom-to-cluster look-up, lists of primitives, intra-cluster routing | place a molecule speculatively, revert, commit, undo a whole cluster | netlist, architecture |
| Placer | `vpr/src/place/place.cpp` | block locations, grid occupancy, costs and cached bounding boxes | propose, judge, commit or undo a move | clustered netlist, grid |
| Router | `vpr/src/route/route_common.cpp`, `route_timing.cpp`, `route_breadth_first.cpp`, `route_tree_timing.cpp`, `check_route.cpp` | traces, occupancy and congestion cost of every routing resource, a heap | rip up, route a sink, update costs, iterate | placement, routing-resource graph |
| Channel-width search | `vpr/src/base/place_and_route.cpp` | bounds, guess, working and saved routing | attempt, save, verify, restore | calls the router, rebuilds the routing-resource graph |
| ODIN II simulator | `ODIN_II/SRC/SIM_TOOLS/simulate_blif.cpp` | a ring of values per net and the cycle it was updated for | read a wave of vectors, find an order, evaluate stages of nodes in parallel, write the wave | ODIN netlist |
| ODIN II shift registers | `ODIN_II/SRC/LFSR.cpp` | a counter, the global netlist | read a BLIF file, graft it in, rename it | ODIN reader, partial mapper |
| Timing analysis, graph generation, power, drawing, file parsing, ABC, ACE, scripts | see `PROJECT.json` | | | not modelled, with the reasons there |

What makes each correct, and hard:

* *Netlist*: the four tables agree with each other after every operation,
  although removal leaves holes until `compress()` renumbers everything. A
  single missed reference shows up stages later.
* *Reader and clean-up*: passes make work for each other; the list of buffers
  is computed before the netlist it refers to is rewritten; nothing an output
  depends on may be removed, names of primary inputs and outputs are meant to
  stay.
* *Channel-width search*: routability is not monotone in the width ("router
  flukiness"), so successes and failures come in any order, and the routing,
  the graph and the width that are returned must be of the same attempt.
* *Router, placer, clusterer*: incremental accounting (occupancy, costs, pins
  used) must equal what a computation from scratch would give, after undo too.
* *ODIN II simulator*: threads share the values of nets without locks; a ring
  of values is overwritten while older cycles are still looked at; loops without
  a flip-flop must be noticed, or the order is never complete.

VPR is one process, sequential except for the ODIN II simulator, and persists
nothing between stages but files. There are no messages, retries over a network
or restarts; the hard behaviours are long sequences of legal operations, state
that is stale when used, undo, and numeric edges.

## Modules

| Module | What it is |
|---|---|
| `ChannelWidthSearch` | the search for the minimum channel width and the ownership of routings |
| `MCChannelWidthSearch` | its instances |
| `ChannelWidthSearchProofs` | its theorems and their proofs |
| `AtomNetlist` | the netlist database: a netlist is a value, an operation an operator on netlists |
| `Circuit` | the state machine that reads a circuit and cleans it, on top of `AtomNetlist` |
| `MCCircuit` | its instances: the statements a file may hold |
| `AtomNetlistProofs` | what each operation of the database keeps and does, for every netlist |
| `CircuitProofs` | the theorems on `Circuit`, on top of these |
| `BlockExchange` | what placing promises: blocks one to a site, moved by exchanges |
| `Placement` | the placer's state machine: initial placement, moves member by member, undo, commit, `check_place` |
| `MCPlacement` | its instances: chips, blocks and macros |
| `PlacementCost` | `Placement` with the costs moves are judged by, kept by differences |
| `MCPlacementCost` | its instance: the first chip of `MCPlacement` with four nets |
| `PlacementProofs` | the theorems on `Placement` and `PlacementCost`, and their proofs |
| `LegalRouting` | what a router promises: it ends, with a legal routing or a failure |
| `PathFinder` | both routers: rip-up, pruning, branches, occupancies, iterations |
| `MCPathFinder` | its instance: a small routing graph and three nets |
| `PathFinderProofs` | its theorems and their proofs |
| `Clustering` | what packing promises: clusters of whole molecules, none lost |
| `Clusterer` | the packer: seeds, types, modes, lists of primitives, undo |
| `MCClusterer` | its instance: a logic block, an i/o block, four molecules |
| `ClustererProofs` | its theorems and their proofs |
| `LogicGates` | the values a pin may have and what each kind of node computes |
| `SynchronousCircuit` | what simulation promises: every node right in every cycle |
| `StagedSimulation` | the simulator: waves, ring of values, stages, threads |
| `MCStagedSimulation` | its instances: three circuits |
| `StagedSimulationProofs` | its theorems, the refinement among them, and their proofs |
| `Induction` | induction over the natural numbers, for the proofs about lists and repeated steps |

An operator called `X_Y` is a wrong version of `X` (a dropped guard, a missing
reset); putting it in place of `X` makes the property it is paired with in
`PROJECT.json` fail, which shows that the property depends on the code.

### ChannelWidthSearch

The variables are the locals of `binary_search_place_and_route()` (`current`,
`low`, `high`, `final`, `attempt_count`, `prev_success`, `prev2_success`), the
width the routing-resource graph was last built for, the router's working
routing (`route_ctx.trace_head`) and the saved one (`best_routing`). A routing
is a record of the attempt that made it, its width and whether it is legal.
`live` is the set of routings whose trace elements are allocated and `rejected`
the widths that failed in the current phase; both are history variables.

| Action | Code |
|---|---|
| `SearchSuccess`, `SearchFailure` | one iteration of the loop: `try_route()`, then the new bounds and guess |
| `GiveUp` | the exception above width 1000, or above four times a fixed width |
| `EndSearch` | the loop ends, on a final width or below `Fs` |
| `VerifyTry`, `EndVerify` | the verification loop |
| `Restore` | the graph is built for the final width, the saved routing is loaded |

`try_route()` is one step that may end either way at any width: it frees the
working routing, builds the graph and leaves a new routing. 1.1 is a `float` in
the code; dividing by it is `(10 * w) \div 11`, which truncates the same way in
the widths up to the limit. Reading the code against the model showed that

* the branch that sets `current = high + udsd_multiplier` after a failure
  without upper bound (`place_and_route.cpp:278`, where `high` is -1) cannot be
  reached; `NoAssertFailure` is proved, so its wrong variable does no harm;
* the verification loop does not stop below `Fs` as the search does;
* a search that ends without an answer still builds the graph for width -1
  before it returns failure;
* `place_freq = PLACE_ALWAYS` is not reachable from the command line
  (`SetupVPR.cpp`) and is left out; a fixed width reaches this function only
  through the programming interface.

Runs: `CWS_Search` (one-way wires, a hint, no verification, limit 60) and
`CWS_Verify` (two-way wires, `Fs` = 6, a hint, verification, limit 18). The
limit stands for the code's 1000; it is far above the widths at which rounding,
minimum steps and the bound of `Fs` interact, and nothing else depends on its
value, as the proofs confirm. Searching at a fixed width is covered by the
proofs only, and so is `NoAssertFailure`: the assertions on the guess hold.

| Property | Says |
|---|---|
| `TypeOK` | every variable stays in its type |
| `BestIsBound` | the saved routing is the one of the width that would be returned |
| `ReturnedConsistent` | width, graph and loaded routing are of the same attempt |
| `OneOwner` | no routing is in two places, none is lost |
| `Bracketed` | the guess is strictly inside the bounds: no width is tried twice |
| `SearchIsTight` | one step below the answer failed, or could not be tried |
| `VerifiedTwoBelow` | with verification, two widths in a row below the answer failed |
| `FinalOnlyShrinks` | an answer is only replaced by a smaller one |
| `Terminates` | the function ends |

Fairness: `WF_vars(Next)`. One thread runs the loops, and `try_route()` returns
(its own iteration limit is `max_router_iterations`).

### AtomNetlist and Circuit

A netlist is a record of four sequences; an id is a position, 0 is `INVALID()`.
A removed entry stays with `valid = FALSE` until `Compress`, as in the code. A
pin's `idx` is its entry in `pin_net_indices_`; the first place of a net's pins
is its driver. `error` records how the program ended: an exception, a failed
assertion, or an access outside a vector (undefined unless safe assertions are
on, where it stops; the model stops there too). Names are `Plain(x)`, the pad
name `OutPad(x)` and the split clock `AsData(x)`: the two prefixes of the code.
A truth table is `identity`, `empty` or `other`, which is all the modelled code
asks of it.

`Circuit` reads a file and cleans the netlist, one action per statement
(`ReadStatement`), per buffer (`AbsorbBuffer`), per sweep pass (`Sweep`) and per
stage (`EndModel`, `IdentifyBuffers`, `DropUnconn`, `FixClockToData`,
`RemoveAndCompress`, `VerifyCircuit`). The file is any subsequence of the
constant `Statements`, so one run covers every file that leaves some out:
undriven nets, unused outputs, blocks defined before or after their inputs.

`Sound` says what the clean-up takes for granted of a circuit, found by taking
away one conjunct at a time and looking at the counterexample:

* a single-input LUT has a truth-table row (an assertion in `is_buffer_lut()`);
* no `.conn` lost a sink (below);
* buffer LUTs have a driver, and no ring of them feeds itself: otherwise
  `remove_buffer_lut()` asks for the type of an invalid pin, or removes a net
  twice;
* clock nets are driven: otherwise the sweep removes the net and
  `find_netlist_physical_clock_nets()` asserts;
* every net is driven when nets are not swept: otherwise `rebuild_pin_refs()`
  uses an invalid id as an index, although `netlist.h` allows undriven nets.

The history variable `sound` remembers what `Sound` said when reading ended.

| Property | Says |
|---|---|
| `TypeOK` | every id names an entry of its table |
| `RefsAgree` | all cross-references and look-ups agree, after every step |
| `CleanIndices` | `pin_net_indices_` is exact whenever nothing was removed |
| `SoundCircuitsSurvive` | a sound circuit passes every assertion and the final `verify()` |
| `NothingDangles` | with every sweep on, what is left is in use |
| `ClocksOnlyClock` | after the split, clock nets feed clock pins only |
| `InputNamesKept` | absorbing keeps the net names of primary inputs |
| `AbsorbKeepsLogic` | every sink keeps its source, seen through buffers |
| `SweepKeepsDrivers` | sweeping takes no driver from a sink that stays |
| `CompressKeepsConnections` | renumbering changes no connection |

Runs: `NL_Clean` (12 statements, default options: buffer chains, a clock used as
data, constants, subcircuits), `NL_Wires` (12 statements with `.conn`, `.cname`
and `unconn`, each of the 32 settings of the clean-up). Two places per LUT and
four to six names are enough for every case the code distinguishes: a net with
no, one and several sinks, a chain of two buffers, a name used twice.

Two runs show where the code does not do what its comments say:

* `NL_Merge`: `merge_nets()` walks the sinks of a net while `set_pin_net()`
  erases from that vector; with three sinks or more some are skipped and keep
  naming the net that is then removed (`netlist.tpp:894`).
* `NL_PadNames`: when the output pad hangs on the input net of an absorbed
  buffer, the merged net is still named after the output net, so the output
  changes its name (`atom_netlist_utils.cpp:555`).

The end of the sweep is not a run: each pass that does not end it removes an
entry, and nothing adds one.

Not modelled: black boxes and several `.model` sections, subcircuits with more
than one input or output, attributes and parameters, `.conn` of a net to itself,
models that generate clocks, the BLIF writer.

### Placement and BlockExchange

A site is `<<x, y, z>>`; `block_locs` says where each block is, `grid_blocks`
which block each site holds, `usage` how many each tile holds. During a move
`block_locs` runs ahead: `try_swap()` writes it member by member and leaves the
grid alone until the move is accepted. `moved` is the list `blocks_affected`,
and `mover` stands for the local variables of `find_affected_blocks()`: the
unit that moves (a block or a macro), the member it looks at, the offset.
`phase` says where `try_place()` is; `error` is an error message that stops
VPR, `undefined` an access outside an array.

| Action | Code |
|---|---|
| `PlaceMacro`, `MacroOverruns` | `try_place_macro()`; `check_macro_can_be_placed()` reads a place the tile does not have |
| `PlaceBlock` | `initial_placement_blocks()` |
| `PlacementFails` | no site is left for a macro or a block |
| `StartAnnealing`, `FinishAnnealing` | `check_place()` before and after the annealing |
| `Propose` | `pick_from_block()` and `find_to()` |
| `LeaveChip`, `HitMacro` | one member in `find_affected_blocks()`: the move is given up |
| `MoveToEmpty`, `SwapWith` | one member in `find_affected_blocks()`: `setup_blocks_affected()` |
| `Accept`, `Reject` | `try_swap()` after `assess_swap()` |
| `Abort` | `try_swap()` when `find_affected_blocks()` gave up |

The cost of a move (see `PlacementCost`) only decides between `Accept` and
`Reject`; both are allowed.
The range limit of `find_to()` only rules moves out; any site of the type in
another tile is allowed. A placement that stops part way because of an error is
final, so deadlock is not checked in these runs. What the model keeps, because
it is easy to get wrong:

* the grid a member's target is looked up in is the one from before the move,
  although other members and displaced blocks have already changed places;
* undoing writes the old locations of the list in its order, committing writes
  each record's new site and clears its old one only if the target was empty;
* the offset of a macro's member is a multiple of the direct connection's in x
  and y, but its z offset is given as it is, to the head as well
  (`place_macro.cpp:231`), and z is not held against the tile's capacity when
  a macro is first placed;
* `find_affected_blocks()` tests the tile type and the borders of the chip for
  every member, but not whether a displaced block may be moved.

`BlockExchange` states what this amounts to for the locations alone: first
blocks are put down, then a unit moves by an offset while single blocks that
were in its way move by the opposite offset, all at once. `Placement`
implements it under the mapping that takes a location to what undoing the
current move would restore (`Undone`): the members' steps are then stutters and
`Accept` is the exchange.

| Property | Says |
|---|---|
| `TypeOK` | types, and no tile counts more blocks than it holds |
| `SitesDistinct` | no two blocks on one site, in the middle of a move too |
| `OnLegalSites` | a placed block is on a tile and a place of its type |
| `GridAgrees` | the grid is what undoing the move would give, at any point |
| `EndsWell` | the final `check_place()` finds no error |
| `ExchangeSpec` | the refinement of `BlockExchange` |
| `FirstPlacementExact` | while blocks are first placed, locations, grid and counts tell the same and macros are in line; `check_place()` complains of a z offset and of nothing else |

Runs: `PL_Anneal` (a chip of 5 by 5 tiles with an area of 3 by 3 logic blocks,
one of which is a tile of two pads and one is empty; a macro of two blocks one above the other,
two single blocks, two pads) covers a macro that moves into a column with the
tile of pads, off the area, onto single blocks, and one tile up, so that a
member's target is the other member's old site. It runs `Placement` with its
costs (`CostSpec`, next section). With one macro `HitMacro` is reached by
single blocks and by the macro itself. `PL_ZOffset` (`InitialPlacement`, since no
placement of it is accepted) has two macros of logic blocks that can stand in each
other's way or take each other's only room, and a macro of pads with a z offset,
whose placements are refused, overrun a tile or end without room. All sites are
tried in all orders; after each step `FirstPlacementExact` compares locations,
grid and counts, and for each placed macro whether `check_place()` would accept
it with whether its direct connection has a z offset.

`PL_Fixed` shows that a block that is locked does move: with
`pad_loc_type = RANDOM` pads are fixed once placed, but a macro of pads displaces
them, since only the target of the block picked first is looked up
(`place.cpp:1750`).

Not modelled: the annealing schedule, pads placed by a user's file, types larger
than one tile, block types that share a tile.

### PlacementCost

`PlacementCost` extends `Placement` by what `try_swap()` judges a move by. `bb`
is the bounding box of each net (`bb_coords`) with, for nets of `SMALL_NET`
sinks or more, the number of pins on each side (`bb_num_on_edges`); `p2p` is the
delay and the timing cost of each connection; `crit` the criticalities in force;
`costs` the sums `bb_cost`, `delay_cost` and `timing_cost`. `judged` is the
work of the current move: `bb_updated_before`, `ts_bb_coord_new` with
`ts_bb_edge_new`, the temporary point-to-point costs and the two differences.

| Action | Code |
|---|---|
| `StartWithCosts` | `comp_bb_cost(NORMAL)`, first criticalities, `comp_td_costs()`, `check_place()` |
| `MoveBlocks` | the steps of `Placement` that find the blocks a move affects |
| `MoveCosts` | `find_affected_nets_and_update_costs()`, pin by pin |
| `KeepMove`, `RejectMove` | both ends of `try_swap()`, with `update_td_cost()` |
| `RecomputeCriticalities` | `comp_td_costs()` after a timing analysis, in the outer or the inner loop |
| `RecomputeCosts` | the recomputation after many moves, which stops VPR if the costs have drifted |
| `FinishWithCosts` | `check_place()`, which writes boxes and connection costs anew |

The box of a large net is updated once per pin of a moved block: from the box
before the move for the first pin, from the new box for the next ones. When the
last pin leaves a side the box is computed from scratch, from locations that
are already those after the whole move, and the pins still to come must then
change nothing. The delays are due at the pin of each moved sink, unless the
driver moves too: then all of them are, once, at the driver's pin.

`CostsExact`, which `PlacementProofs` proves for all instances: after any sequence of moves, kept or not, boxes, counts, connection
costs and sums are those of the placement (while a move is under way, of the
placement before it), and a move is judged by what it really changes. It is
checked in `PL_Anneal`, on nets chosen for the cases above: `wide` has four
sinks, is driven by a member of the macro and reaches the other one; `loop`
feeds back into its driver's block and twice into another; `small` is computed
afresh; `clk` is global. Two functions of criticalities take turns at any time
between moves. `SMALL_NET` is 4, as in the code.

A net costs the half-perimeter of its box: the weights for fan-out and channel
width are factors of the same box. A delay is a function of the two distances,
as `get_delta_delay()` is. Costs are whole numbers, so `ERROR_TOL` is zero: the
model says that the updates are right, not how fast rounding drifts. The choice
of a bounding-box-only placement leaves out the timing part and nothing else,
so the timing-driven one is modelled.

Seen while modelling: `bb_updated_before` is never set for a small net, so its
box is computed once per pin of a moved block, not 'Only once per-net' as
`place.cpp:1623` says; the result is the same. The recomputation after many
moves corrects `bb_cost` and `timing_cost` but keeps `delay_cost`
(`place.cpp:627`).

### PathFinder and LegalRouting

`trace` is `route_ctx.trace_head`, a list of branches per net; `occ` is
`rr_node_route_inf[].occ()`; `forced` the flags of `connections_inf`; `opins`
is `clb_opins_used_locally`. `turn` is the place in the sorted nets,
`remaining` the SINKs the current net still needs, `grown` whether this call
has already routed one. `phase` says where the iteration is. Costs are left
out: a search may find any path that its expansion rules allow within the net's
`route_bb`, which covers every cost, delay target, budget and heap order.

| Action | Code |
|---|---|
| `SkipNet` | `try_timing_driven_route_net()`: a global net, or `should_route_net()` finds it legal |
| `RipUpNet` | `setup_routing_resources()` for a small net, `pathfinder_update_path_cost(-1)` in the breadth-first router |
| `PruneNet` | `setup_routing_resources()` for a large one: traceback to tree, `prune_route_tree()`, and back |
| `RouteSink` | `timing_driven_route_sink()` / `breadth_first_route_net()`: a path, the nodes shorted to it, `update_traceback()`, occupancies |
| `NoPath` | the heap is empty |
| `FinishNet` | the checks after the last SINK |
| `ReserveLocalOpins` | `reserve_locally_used_opins()`: give back, choose again |
| `Succeed`, `GiveUp`, `NextIteration` | the end of an iteration, with the forced reroutes of the next |

A traceback repeats the branch point at the head of each branch, and a walk
counts a node unless it follows the end of a branch. `Walkable` guards the
walks: on any other list they run off the end, so that a list that is not
becomes a deadlock of the model. The guard of `FinishNet` is the assertion that
a SOURCE is never congested.

| Property | Says |
|---|---|
| `TypeOK` | types; in particular no occupancy is negative |
| `OccupancyExact` | each counter is what counting all traces and reserved pins from scratch gives, after every step |
| `TracesLegal` | every traceback, finished or not, is a tree of graph edges from the SOURCE, with shorted nodes taken whole, that ends in just the SINKs done |
| `PruneIsExact` | pruning keeps a connection, unchanged, exactly when nothing on its way is overused or flagged |
| `RoutesLegally` | the refinement of `LegalRouting`: one net changes at a time, and the end comes, with a failure or a routing `check_route()` accepts |

`RT_Route` has 15 nodes, two nets that compete for three wires of which two are
shorted together, a global net, and a pin class that reserves one of two output
pins for a local connection. Both routers run on it. `MinIncrementalFanout` is
2 so that one net is pruned and the other ripped up; `OpinLockIteration` is 1
(5 in the code) and `MaxIterations` 4, so that the lock is met with iterations
on both sides. With these the nets share wires, give way to the reserved pin or
it to them, are pruned to nothing, to one branch or left alone, and the routers
succeed and fail in every iteration.

Fairness: the router takes step after step until it is done; one thread runs
it. (Written without ENABLED; the check for deadlock shows there always is a
step.) The same holds for the packer and the simulator.

Reading the code against the model showed that

* two pins of one net that enter one SINK node (equivalent pins) break the
  traceback-to-tree conversion of incremental rerouting, which
  `route_common.cpp:816` warns about and
  `route_breadth_first.cpp:303` works around for the other router; the model
  takes the SINKs of a net to be distinct, as they are when a net enters a class
  once;
* shorts are taken to be symmetric and free of cycles: a cycle would violate
  the assertion at `route_common.cpp:723`;
* the flag that forces a connection's reroute is said to be reset "during tree
  pruning" (`route_timing.cpp:1945`), but nothing resets it before the flags of
  the next iteration are computed;
* after iteration 5 the rule of one output pin per net is not applied to the
  first SINK after pruning, since the target counter starts at 0 again;
* "return false" is explained as a disconnected graph, but it also happens when
  all branches are shut in and the SOURCE may not be expanded again (`NoPath`);
* `check_locally_used_clb_opins()` overwrites its loop variable
  (`check_route.cpp:639`), so it may look at a pin twice and at another never;
  `LegalRouting` states the check as meant.

Not modelled: costs, delays and budgets, the predictor that gives up early, the
bins of high-fanout nets, reading a routing from a file, drawing.

### Clusterer and Clustering

A cluster is a tree of physical blocks (pbs). `tree` says which exist, with
their mode and number of atoms; `router` what the cluster's router was told and
the routing it saved; `queue` is, per type, the buckets of primitives with the
lists `tried`, `in_flight` and `invalid` of `cluster_placement_stats`, `usable`
the `valid` flags of primitives. `at` and `clb` are the atom look-up, `valid`
the molecules still to be packed, `search` the candidate list, `intra` the
finished routings and `used` the clusters by type. `pc` is where
`do_clustering()` is; `stage` is 1 while a cluster is filled without routing
and 2 when every molecule is routed.

| Action | Code |
|---|---|
| `NextSeed`, `Finish` | the outer loop, `get_highest_gain_seed_molecule()` |
| `NextType`, `NextMode`, `NoMode`, `NoType` | `start_new_cluster()` |
| `FindSite`, `NoSite` | `get_next_primitive_list()` |
| `PlaceAtom` | `try_place_atom_block_rec()` for one atom |
| `Reject`, `Revert` | pins or routing fail; `revert_place_atom_block()` atom by atom, from the first |
| `Accept` | `commit_primitive()`, `update_cluster_stats()`, the valid flags |
| `LookAtConnected`, `LookAtFanout`, `LookAtTransitive` | the three ways to list candidates |
| `ChooseCandidate`, `ChooseUnrelated`, `ChooseNone` | `get_molecule_for_cluster()` |
| `CloseCluster`, `UndoCluster` | the end of a cluster: saved, or emptied and filled again with routing |

Which molecule is attractive and which primitive cheapest is left open;
`Congested` names the types whose pins or wires may run out. The code's
assertions are guards, so a failed one is a deadlock; `alive` is lost when a
revert would use a pb that was freed.

| Property | Says |
|---|---|
| `PrimitivesTracked` | each primitive is in exactly one list, and between attempts the valid flags are those the modes in force allow |
| `NothingLeftBehind` | between attempts, tree, router, look-up, valid molecules, kept routings and counts tell of the accepted atoms only |
| `PacksEveryAtom` | the refinement of `Clustering`: whole molecules, finished clusters untouched, one undo at most, and an end with every atom in one cluster or an error |

`PK_Pack` has a logic block of three elements, each a LUT and a flip-flop or, in
its other mode, a bit of a carry chain, and an i/o block with two modes of its
root, one input or two outputs; pins and wires of both may run out at any time.
The molecules are a LUT with its flip-flop, a lone LUT, a chain that has to
start at the first bit, so that its placing is refused half way, and an output
that only fits the second mode, where it may be refused and try the other place.
Unrelated molecules may be packed. That is enough for clusters that are undone
with the seed or with later molecules in them, for a second try that ends
differently, and for clusters left with every number of free elements.

Reading the code against the model showed that

* when the root's type has two modes that both fit an atom and its pins may run
  out, the second mode is tried with the children of the first still there and
  the assertion at `cluster.cpp:1435` fails, the case the comment at
  `cluster.cpp:1526` worries about; in the run no atom fits two modes of a root;
* when a seed is taken back, `revert_place_atom_block()` sets the router's mode
  of the root to 0 (`cluster.cpp:1523`) but leaves the root its children. The
  next attempt finds children and does not set the mode again (`cluster.cpp:1397`
  to 1406), so a cluster whose root is in another mode than 0 goes on with the
  router told it is in mode 0. `NothingLeftBehind` holds with this exception
  only, which is written into it;
* an atom that is refused has lost its name before the pbs are freed, so that
  the recursive walk skips it (`PlaceAtom`'s `named`);
* the primitives that were tried for a molecule are hidden from
  `exists_free_primitive_for_atom_block()`, which costs quality, not legality;
* the loop of a cluster ends when it is offered the molecule it just failed to
  place, even if others are left.

Not modelled: the pre-packer (molecules come as they are, disjoint, as
`prepack.cpp` ensures), gains, pin counting, the routing inside a cluster, and
that memory slices of one cluster are siblings, where `find_memory_sibling()`
(`vpr_utils.cpp:852`) only looks at the first child of each list.

### StagedSimulation, LogicGates and SynchronousCircuit

`ring` and `stamp` are the values of a net and the cycle it was last updated
for, shared by all its pins; `store` the memories; `ordered` and `stages` the
order of evaluation and its cut; `pending` are the nodes of the stage that no
thread has begun and `inFlight` what threads have read and computed but not yet
written. `inFile` and `outFile` are the vectors so far, `faster` the outcome of
the time measurements (any), `stored` is auxiliary.

| Action | Code |
|---|---|
| `ReadVectors` | a wave of input vectors is written to the input pins |
| `SimulateFirst` | `simulate_first_cycle()`: nodes are taken from a queue when complete |
| `OrganiseStages` | `stage_ordered_nodes()`: a new stage where a node depends on the stage |
| `Begin`, `Finish` | `compute_and_store_value()`: a thread reads its inputs, later writes its output |
| `NextStage`, `NextCycle` | the barrier at the end of the "parallel for"; the end of a cycle and of a wave |

The children of a node come in any order, as the fan-out lists do.

| Property | Says |
|---|---|
| `TypeOK` | types, and stages that hold each ordered node once |
| `ThreadsApart` | nodes that may be computed at the same time do not read one another |
| `SimulatesCircuit` | the refinement of `SynchronousCircuit`: in every cycle every node has the value of its gate, flip-flop or memory, errors are reported just for circuits with a loop that is read, and the simulation ends |

`SIM_Threads` runs a shift register that feeds a memory, a flip-flop behind a
loop of gates, and a toggling multiplexer with a constant, an undriven pin and a
loop only an output reads. `WaveLength` is 4 (16 in the code) and there are 3
vectors, so two waves: the first, where stages are made and measured, and one
that wraps the ring and is not full. `Begin` and `Finish` of all nodes of a
stage interleave freely.

Reading the code against the model showed that

* flip-flops never look back over the boundary of a wave because
  `look_for_clocks()` makes the driver of every flip-flop's clock a clock node,
  whose rising edges are at odd cycles. A memory clocked by a plain top-level
  input does look back, when the inputs of the next wave have already
  overwritten the ring: the comments around lines 787 and 1449 of
  `simulate_blif.cpp` promise otherwise. In the run the clock of the memory clocks
  flip-flops too and is a clock node;
* a loop without a flip-flop that only outputs read is never reported;
* a memory whose write enable is unknown is written.

Not modelled: the writes of undriven pins (`update_undriven_input_pins()`, which
a constant stands for; pins of one undriven net share their storage, so threads
of a stage may write it at once), arithmetic, generic and hard-IP nodes, dual-port memories, wider
memories than two words of a bit, default clauses of multiplexers, clocks of
other ratios and output edges other than both, coverage and activity counts,
parsing of vector files, pins chosen by name.

### Shift registers

`ODIN_II/SRC/LFSR.cpp` is left out: it runs once, inside the elaboration that
is not modelled, and what it keeps is a counter for names. (An exception
other than `VtrError` while it has swapped the global netlist would leave it
swapped, line 88.)

## Proofs

`ChannelWidthSearchProofs` proves, for every value of the constants that meets
the assumptions of `ChannelWidthSearch`:

| Theorem | Establishes |
|---|---|
| `TypeCorrect` | `TypeOK` |
| `SavedRouting` | `BestIsBound` |
| `ReturnedRouting` | `ReturnedConsistent` |
| `Ownership` | `OneOwner` |
| `GuessInsideBounds` | `Bracketed` |
| `AssertionsHold` | `NoAssertFailure` |
| `AnswerIsTight` | `SearchIsTight` |
| `VerifiedAnswer` | `VerifiedTwoBelow` |
| `FinalShrinks` | `FinalOnlyShrinks` |
| `FixedIsFloor` | the graph is never narrower than a fixed width |

None of these is inductive by itself. The inductive invariant adds that widths
are even when wires have one direction (otherwise rounding could move the guess
onto a bound), where the bounds and the guess stand in each phase, that ids of
routings in use are not newer than the attempts made (otherwise a new routing
could be equal to a saved one), and which widths next to the answer are in
`rejected`. `InitInv` and one lemma per action show it is kept; each theorem
then follows from it.

Assumptions used: the widths are positive and even where `CheckSetup.cpp`
demands it, a hint is used only without a fixed width, `WidthLimit` and `Fs`
are natural numbers.

`PlacementProofs` proves, first for `Placement` and every chip, set of blocks and
set of macros that meets `GridAssumption` and `MacroAssumption` (a block is in one macro at most,
the members of a macro are of one type, and the direct connection it follows
has an offset in x or in y, as `validate_macros()`, the form of direct
connections and `ProcessDirects()` in `read_xml_arch_file.cpp`, line 3219, ensure):

| Theorem | Establishes |
|---|---|
| `NoTwoBlocksOnOneSite` | `SitesDistinct` |
| `PlacementLegal` | `OnLegalSites` |
| `GridAndLocationsAgree` | `GridAgrees` |
| `PlacementInductive` | the invariant they follow from |

The inductive invariant `IInv` describes a move that is half done. `StartLegal`
says that the locations it would be undone to are a legal placement with whole
macros. `Gone` is the set of members that have moved, `InWay` holds of a block
that stands where one of them went. `GoalsLegal` says that a member that moved went to a
legal site which held no macro and nothing of the unit; `Located` gives the
present location of every block from these; `Recorded` says that `blocks_affected`
holds exactly the blocks that moved, once each, with the flag that decides
whether the old site is cleared. From it:

* no two blocks meet (`MidMove`): members all move by one offset, displaced
  blocks come to sites that members left, and no member goes to such a site;
* committing does not depend on the order of the records (`CommitAgrees`): each
  site is changed by one record at most;
* a member's place within the tile exists although it is not tested
  (`TargetFacts`): members of one macro are all at one height, and the block
  that was picked goes to a legal site.

From there it goes on to what `check_place()` counts:

| Theorem | Establishes |
|---|---|
| `UsageCountsExact` | at any time, `usage` of a tile is the number of blocks the grid holds there |
| `FirstPlacementCorrect` | `FirstPlacementExact`: without a z offset the first `check_place()` finds no error, with one it always does |
| `PlacementTypesCorrect` | `TypeOK`, with its bound on the counts |
| `CheckPlacePasses` | `EndsWell` |
| `PlacementExchanges` | `ExchangeSpec`: the placer implements `BlockExchange` |

`try_swap()` changes the counts from the flags of the moved blocks alone: plus
one where a block came to an empty site, minus one where it left one. That this
is right for a macro whose members follow one another needs `Recorded` again:
the records that clear a site and those that fill one, counted per tile, are
the sites the grid lost and gained there (`Replaced`). For the
first placement `Anchored` adds to `IInv` that a placed macro is at its offsets
from some site, the one `try_place_macro()` drew; with a z offset that is not the
head's (`AnchoredMacro`), without one it is, and `CheckHolds` gives the rest. For the
refinement, an accepted move is one exchange: `AcceptStep` shows that the
blocks that moved take the sites that these blocks, or nothing, held before.

`PathFinderProofs` proves, for every routing graph, netlist, choice of paths
and limit that meets the assumptions of `PathFinder` (finite sets, a SOURCE and
SINKs per net that are nodes, capacities that are natural numbers):

| Theorem | Establishes |
|---|---|
| `OccupancyCorrect` | `OccupancyExact` |
| `RouterTypes` | `TypeOK`; occupancies never go below zero |
| `SuccessIsUncongested` | on success no node is over its capacity, counted from scratch |
| `Bookkeeping` | the invariant they follow from |

`OccupancyExact` alone is not inductive. `IInv` adds that every traceback ends
a branch (`WellEnded`), since otherwise a walk that starts at a new branch would
not count what a walk over the whole list counts, and that no pin is reserved
before the first reservation (`NothingReserved`), since the first one gives
nothing back. `SplitUses` divides the uses of a node into those of one net and
of the others; `Recounted`, `TakenOff`, `GrownUncounted` and `PutOnTheBooks`
are the four ways in which a step changes them, and `CountAppended` is the one
fact about walks: a walk over a longer list counts what the walk over the old
part and the walk from the branch on count.

`StagedSimulationProofs` proves, for every set of circuits that meets
`CircuitAssumption`, every number of vectors and every wave length from 4 to 16:

| Theorem | Establishes |
|---|---|
| `SimulatorTypesCorrect` | `TypeOK` |
| `ThreadsNeverMeet` | `ThreadsApart` |
| `SimulatorValues` | the two inductive invariants, `IInv` and `VInv` |
| `SimulatorImplementsCircuit` | the safety part of `SimulatesCircuit`, `Abstract!Init` and `[][Abstract!Next]` |

`CircuitAssumption` says what the first cycle relies on: inputs and constants
are where it starts (`simulate_first_cycle()`, lines 369 to 383) and read
nothing, pins are as many as the kind of node has, and what clocks a flip-flop
is a clock node (`look_for_clocks()` in `netlist_create_from_ast.cpp`, line 403,
`rb_look_for_clocks()` in `read_blif.cpp`, line 1114).

The proof has three levels.

* *Stages.* `StageOrderedGood` is an induction over the order that the first
  cycle found: after each node the stages so far hold just the nodes so far,
  each once, no stage has a node and one it reads, and what a node awaits is in
  an earlier stage. A node may read one of its own stage or a later one only
  through a pin whose value of the cycle before it uses, and then not of its
  own, which is what `stage_ordered_nodes()` looks at the children for. `IInv`
  carries this from the first cycle on (`Searched`, `Staging`).
* *Values.* `DoneNow` are the nodes computed in the cycle under way. `VInv`
  says that each of them has on its net what `compute_and_store_value()` would
  give it now, although its inputs were read earlier and perhaps by other
  threads in between (`ValuesInPlace`): `OutcomeSteady` shows that the write of
  another node that may run now changes nothing it reads. `WaveOnRing` says
  where the vectors of the wave are, `Untouched` what is on nets nothing
  computes, `SearchComplete` that the first cycle finds exactly the nodes that
  can be ordered, `Stamped` how late the cycle number of a net can be.
  `ComputableFacts` shows that the recursive definition of those nodes in
  `SynchronousCircuit` is the least set closed under `Follow`.
* *Refinement.* `StepAtEnd`: the step that ends a cycle is `Step` of the
  circuit; `ErrorComplains`: the error of `update_undriven_input_pins()` is
  `Complain`, which needs that the node it stops at reads a net nothing
  computes; every other step stutters (`WritesStutter`: no write of this cycle
  reaches the place on the ring of the one before, or of output vectors that are not
  in the file yet).

`SimulatorImplementsCircuit` has the hypothesis `MemoriesAreClocked`: what
clocks a memory is a clock node too. The code does not ensure it, and without
it the statement is false (see the memory clocked by a plain input above); the
circuits of the run meet it. Flip-flops need no such hypothesis, which
`EdgeAtEnd` proves: a wave begins with an even cycle, where no clock rises.

`ClustererProofs` proves, for every set of molecules and sites that meets
`NetlistAssumption`, every set of trees that meets `TreeAssumption`, every choice
of congested types, chains and root modes:

| Theorem | Establishes |
|---|---|
| `PackerLeavesNothingBehind` | `NothingLeftBehind` |
| `PackerTracksPrimitives` | `PrimitivesTracked` |
| `PackerKeepsPromise` | the safety part of `PacksEveryAtom`, `Promise!Init` and `[][Promise!Next]` |
| `PackerInvariant` | the two invariants they follow from, `IInv` and `QInv` |

`NetlistAssumption` says that molecules are disjoint, hold every atom and have a
root and a candidate type, as `prepack.cpp` leaves them; `TreeAssumption` that
the way up from a pb is that of its parent with the parent in front, and that a
site gives each atom of the molecule a primitive, all of one type, and is
determined by where the root atom goes, as `try_place_molecule()` makes it.
That the primitives of a site differ, as `try_place_molecule()` also checks, is
not assumed: `PlaceAtom` has the assertion of `try_place_atom_block_rec()` that
the primitive is free.

`NothingLeftBehind` speaks of the moments between attempts and says nothing of
a molecule that is half placed or half taken back. The invariant divides the atoms
of the open cluster into those of the molecule on trial (`Trial`) and those of
molecules accepted before (`Accepted`):

* `Trees`: counts are of accepted atoms, modes are those that any atom needs,
  and a pb other than a root is there just if an atom is below it;
  `Lookups`, `Valids`, `Routers` and `Books` say the same of the look-ups, the
  valid flags, the router and the counts of clusters; `Control` ties them to
  where the program is; `Seeds` says that an atom seen as a seed is in a
  finished cluster or in the one looked after now, so that none is lost in front of
  `seedindex`.
* `Reverting` is the invariant in the middle of taking a molecule back, with the
  atoms that are left and the part of the way up that is left: a pb is there
  because it holds an accepted atom, because an atom left is below it, or
  because the walk has yet to come to it (`MadeFor`). `ReleaseKeeps`,
  `WalkKeeps`, `RevertAtomKeeps` and `RevertedKeeps` carry it through a pb, a
  walk, an atom and a molecule. It is where freeing an inner pb with the atoms
  that were placed next to the first, which then have no pb left, is shown to be
  right, and where it turns out that a revert never uses a pb that was
  freed.
* `QInv` says of each type that a bucket holds one kind, that each primitive is
  in one list, and (`Usables`) which flags are set: those of the root's mode that
  no accepted atom blocks. `BucketFree` is why `requeue_primitive()` never
  fails: there are as many buckets as kinds, and a kind that is in none leaves
  one empty. `UsableIsReachable` turns the atoms that block into the modes of
  the pbs, as `PrimitivesTracked` states it.
* For the refinement, the atoms on trial count as outside (`PackedIs`); then
  `Accept` adds a whole molecule, `CloseCluster` and `UndoCluster` are the steps
  of their names, and all others stutter.

On `PlacementCost`, `PlacementProofs` proves, for every chip, placement and netlist that meets
`PinAssumption` besides the assumptions of `Placement`, every `SMALL_NET` and
every set of criticalities:

| Theorem | Establishes |
|---|---|
| `PlacementCostsExact` | `CostsExact` |
| `CostsImplementPlacement` | placing with costs is placing: `CostSpec => Spec` |
| `CostsNeverDrift` | `EndsWell` with costs |

`PinAssumption` says that the pins of the blocks and those of the nets are the
same pins, each once (the cross-references of the clustered netlist, which
`verify()` checks), that nets are finitely many and have a driver, and that
criticalities are not negative. `CostsImplementPlacement` carries every theorem
on `Placement` over to the placer with costs, and holds because the checks of the
costs, which could stop VPR, never do: it needs `CostsExact`.

The invariant is short. `Kept` says that boxes, connection costs and sums are
those of the placement the current move would be undone to, which no step of a
move changes (`Undone` of `IInv`); `JudgedRight` says that a judged move has the new box
of every affected net, the new cost of every connection with a moved end, and
the sums of the changes of those. The work is in `find_affected_nets_and_update_costs()`:

* *One pin, one coordinate.* A side is right for the positions `p` of the pins
  of a net (`IsSide`) when it has their ends and, for large nets, how many
  are there. `ShiftedSide` shows that `update_bb()` makes the side of `p` with one
  position changed from that of `p`, for any old and new position: also when
  the pin leaves an end that has others, passes the other end or stays put.
  `WidenedSide` is the same for the loop of `get_bb_from_scratch()`, and
  `NonUpdateableSide` for clipping the box instead of the pins.
* *Pin after pin.* `BoxRight` relates the new box of a net to the pins looked at
  so far: it is the box of the old positions of the others and the new ones of these
  (`Mixed`), or that of the new positions of all, if it was computed from
  scratch on the way. That pins come once each (`MovedPinsFacts`) is why this ends with the
  new box; that every block is in one record of the move is why.
* *Connection after connection.* `Charged` are the connections that the pins
  so far were charged with; `ChargedStep` shows that no connection is charged
  twice, and `ChargedAll` that in the end they are those with a moved end, and no
  others, although `Due` decides by the driver alone. `TakenOverExact` shows
  that `update_td_cost()` never takes a temporary cost it has marked as taken.
* *Sums.* `SumChange`: the sum of a function that differs from another on a
  part is the other's sum and the sum of the differences on the part.

The loops of the code over lists are recursive functions in `PlacementCost`; each
is shown to keep a claim by induction on how far it has come.

`AtomNetlistProofs` and `CircuitProofs` prove, for every list of statements (so
for every file), every set of names, size of look-up table and setting of the
clean-up:

| Theorem | Establishes |
|---|---|
| `TypeCorrect` | `TypeOK` |
| `RefsCorrect` | `RefsAgree`, as long as no merge of nets has lost a sink |
| `SoundRefsCorrect` | from the end of reading on, in a circuit that is `Sound`, no merge loses one, and `RefsAgree` holds |
| `IndicesCorrect` | `CleanIndices` |
| `InputNamesCorrect` | `InputNamesKept` |
| `ClocksCorrect` | `ClocksOnlyClock` |
| `SweepCorrect` | `SweepKeepsDrivers` |
| `CompressCorrect` | `CompressKeepsConnections` |
| `CircuitInvariant` | the invariant they follow from |

`StatementsAssumption` says which statements the parser hands to the callbacks:
an output, a subcircuit and a connection name at least one net, a latch two, and
`.conn` does not connect a net to itself.

`AtomNetlistProofs` has one lemma per operation, on netlists of any size. Each
shows that the operation keeps `Good`, and what it does beside that. `Good` is
`Typed` and, unless the program has ended, `Refs`:

* `Structure`: blocks list exactly their ports and pins, ports their pins, by
  bit. It is about removed entries too, since nothing but `compress()` changes
  it; this is why pins can be disconnected, in any order, after their block is gone.
* `Owned`: a valid entry has a valid owner.
* `Netted`: a valid net lists each pin once, the driver first, and these pins name
  it. A valid pin that names a net is on it, *or the net is gone and has no
  pins*. The last case are the sinks that `merge_nets()` skips while
  `set_pin_net()` erases from the vector it walks. Without it the invariant is not
  inductive, since a file may merge nets in that way before the clean-up begins.
* `BlocksNamed`, `NetsNamed`: look-ups find the valid entries and nothing else.
* `Indexed`: unless dirty, `pin_net_indices_` is exact. `merge_nets()` and
  `remove_net_pin()` leave it stale, and both mark the netlist dirty.

What each stage relies on is in `Staged`: while the file is read nothing was
removed, every pin names a net, every block has a pin between statements, and
ports fit the model of their block (`ReadOK`); while buffers are absorbed the
list of buffers left holds each once, and those on it are still buffers
(`Absorbable`); from then on valid blocks own valid entries only (`Clean`), which
is why `remove_unused()` may drop ports and pins by their owner; `Plainly` says
that all nets bear names of the file, so that the name `AsData(x)` of a split
clock is new; after the split no net feeds a clock pin and a data pin
(`ClocksApart`); and a compressed netlist has no removed entry and no
lost pin (`Full`, `Whole`).

The hard operations are `RemoveBufferLut`, `SplitClock` and `Compress`. Absorbing a
buffer (`BareEffect`, `JoinedNetsKeep`, `RemoveBufferLutEffect`) removes two nets
and a block and makes a net of what is left, which is right only because the two
nets differ; a buffer that feeds itself ends the program instead. Splitting a
clock (`LatchMadeEffect`, `SplitClockEffect`, `FixContinues`) is shown for one net
and then by induction on how many of the mixed clock nets are done: those still to
come are untouched. `Compress` renumbers the four tables and everything that
refers to them (`CompressPacks`, `PackedIsGood`, `PackedConnections`): ids keep
their order, so bits still ascend and a connection between named pins stays.
That sweeping takes no driver away (`SweepStep`) follows from what
`remove_block()` is called for: a block without used outputs, or an output pad.

The library's induction theorems take operators as parameters. Induction over
the numbers is done here with `NatSetInduction`, a consequence of the
well-ordering of intervals stated for a set, and a recursive function over an
interval of numbers is unfolded with `RecursiveFunction`, or is shown to exist
by induction on the end of the interval. `SetInduction` and `PartialSums` do the same for
finite sets and for the sums of the community module `Functions`. Recursion over
graphs is still out of reach.

What stays with TLC: the liveness in `Terminates` and in the refinements, which
is out of the prover's reach; `TracesLegal`, `PruneIsExact` and `RoutesLegally`,
whose definitions recurse over trees of branches; that packing ends, and that no
assertion of the packer fails on the instance (where it would, the model stops);
and three properties of `Circuit`: `AbsorbKeepsLogic`, which follows sources
through chains of buffers and is a recursion over the netlist;
`SoundCircuitsSurvive`, which needs that none of the many failed assertions and
exceptions is ever reached, where the theorems above say what holds when none
was; and `NothingDangles`.

## Plan

Done: the channel-width search, the placer with its moves and costs, the router's
books, the simulator, the packer, and the netlist with its reader and clean-up,
modelled, checked and proved.

Left:

1. Proofs of `NothingDangles` and `SoundCircuitsSurvive`.
2. `TracesLegal`: the traces of a net stay one tree through pruning and branches.
3. Rounding of the placer's costs between two recomputations; pads at a user's
   places.
4. Nets with several pins on one SINK, where the two routers differ.
5. The pre-packer and the siblings of memories; dual-port memories in the
   simulator.
