----------------------------- MODULE PathFinder -----------------------------
(***************************************************************************)
(* The PathFinder router of VPR (vpr/src/route): both algorithms route     *)
(* every net in turn, letting nets share wires at a price, and try again   *)
(* until no routing resource is overused or an iteration limit is met.     *)
(*                                                                         *)
(*   try_timing_driven_route   rips a net up as a whole when it is small,  *)
(*                             prunes it down to its legal part when it is *)
(*                             large, and leaves it alone when all of it   *)
(*                             is legal;                                   *)
(*   try_breadth_first_route   rips every net up in every iteration.       *)
(*                                                                         *)
(* A net's routing is its "traceback": a list of branches, each of which   *)
(* starts at a node of an earlier branch and ends in an element whose      *)
(* switch is OPEN.  Occupancies are kept by walks over that list, +1 when  *)
(* a branch is added and -1 when the net is ripped up, and never computed  *)
(* afresh while the router runs.                                           *)
(*                                                                         *)
(* Costs are abstracted: a search may return any path of the graph that    *)
(* its expansion rules allow.                                              *)
(***************************************************************************)
EXTENDS Integers, Sequences, FiniteSets, SequencesExt

CONSTANTS
  Node,                \* nodes of the routing-resource graph
  Type,                \* [Node -> NodeType]
  Capacity,            \* [Node -> Nat]
  Edge,                \* edges of the graph, pairs of nodes
  Short,               \* the edges that are not configurable
  Net,                 \* nets of the clustered netlist
  SortedNets,          \* the order in which an iteration routes them
  GlobalNets,          \* nets that are not routed
  Source,              \* [Net -> Node]: net_rr_terminals[net][0]
  Sinks,               \* [Net -> SUBSET Node]: net_rr_terminals[net][1..]
  Box,                 \* [Net -> SUBSET Node]: the nodes in its route_bb
  Class,               \* the DRIVER pin classes of the placed blocks
  ClassSource,         \* [Class -> Node]: rr_blk_source
  NumLocalOpins,       \* [Class -> Nat]: size of clb_opins_used_locally
  MinIncrementalFanout,\* min_incremental_reroute_fanout
  OpinLockIteration,   \* 5 in the code: after it a net keeps to one OPIN
  MaxIterations,       \* max_router_iterations
  Algorithms           \* the router algorithms to consider

NodeType == {"SOURCE", "SINK", "OPIN", "IPIN", "CHAN"}
TraceElem == [node : Node, open : BOOLEAN]
Connections == {c \in Net \X Node : c[2] \in Sinks[c[1]]}

(***************************************************************************)
(* What the rest of VPR guarantees of a graph and of a netlist.            *)
(***************************************************************************)
ASSUME GraphAssumption ==
  /\ IsFiniteSet(Node) /\ IsFiniteSet(Net) /\ IsFiniteSet(Class)
  /\ Type \in [Node -> NodeType]
  /\ Capacity \in [Node -> Nat]
  /\ Edge \subseteq Node \X Node
  /\ Short \subseteq Edge
ASSUME NetAssumption ==
  /\ SortedNets \in Seq(Net)
  /\ \A net \in Net : \E i \in DOMAIN SortedNets : SortedNets[i] = net
  /\ GlobalNets \subseteq Net
  /\ Source \in [Net -> Node]
  /\ Sinks \in [Net -> SUBSET Node]
  /\ Box \in [Net -> SUBSET Node]
  /\ \A net \in Net : Sinks[net] # {}
ASSUME ClassAssumption ==
  /\ ClassSource \in [Class -> Node]
  /\ NumLocalOpins \in [Class -> Nat]
ASSUME OptionAssumption ==
  /\ MinIncrementalFanout \in Int
  /\ OpinLockIteration \in Nat
  /\ MaxIterations \in Nat \ {0}
  /\ Algorithms \subseteq {"TIMING_DRIVEN", "BREADTH_FIRST"}

VARIABLES
  algorithm,  \* router_algorithm
  itry,       \* the routing iteration
  phase,      \* where in the iteration the router is
  turn,       \* position in SortedNets of the net being routed
  remaining,  \* SINKs that net still has to reach
  grown,      \* itarget > 0: this call has already reached a SINK
  trace,      \* [Net -> Seq(TraceElem)]: the tracebacks
  occ,        \* [Node -> Int]: rr_node_route_inf[].occ
  forced,     \* forcible_reroute_connection_flag: flagged connections
  opins       \* [Class -> SUBSET Node]: clb_opins_used_locally

vars == <<algorithm, itry, phase, turn, remaining, grown, trace, occ, forced,
          opins>>

Phase == {"net", "sinks", "reserve", "decide", "success", "failure"}

\* The net being routed.
Current == SortedNets[turn]

TypeOK ==
  /\ algorithm \in Algorithms
  /\ itry \in 1..MaxIterations
  /\ phase \in Phase
  /\ turn \in 1..(Len(SortedNets) + 1)
  /\ phase \in {"net", "sinks"} => turn \in DOMAIN SortedNets
  /\ remaining \subseteq Node
  /\ grown \in BOOLEAN
  /\ trace \in [Net -> Seq(TraceElem)]
  /\ occ \in [Node -> Nat]
  /\ forced \subseteq Connections
  /\ opins \in [Class -> SUBSET Node]

-----------------------------------------------------------------------------
(***************************************************************************)
(* Tracebacks.                                                             *)
(***************************************************************************)

\* A list the walks below can follow: its last element ends a branch.  They
\* run off the end of any other list.
Walkable(t) == t \in Seq(TraceElem) /\ (t # <<>> => t[Len(t)].open)

\* The positions a walk that starts at position k counts: after the end of a
\* branch it skips an element, the repeated branch point.
Visited(t, k) == {p \in k..Len(t) : p = k \/ ~t[p - 1].open}
Count(t, k, n) == Cardinality({p \in Visited(t, k) : t[p].node = n})

\* The occupancies o after the walk of t from position k with add_or_sub = 1,
\* and after the walk of all of t with add_or_sub = -1.
Added_FromBranchPoint(o, t, k) ==
  [n \in Node |-> o[n] + Count(t, IF k > 1 THEN k - 1 ELSE 1, n)]
Added(o, t, k) == [n \in Node |-> o[n] + Count(t, k, n)]
RippedUp(o, t) == [n \in Node |-> o[n] - Count(t, 1, n)]

Nodes(t) == {t[p].node : p \in DOMAIN t}
Links(t) == {p \in DOMAIN t : ~t[p].open}
EdgesOf(t) == {<<t[p].node, t[p + 1].node>> : p \in Links(t)}

Overused(n) == occ[n] > Capacity[n]

-----------------------------------------------------------------------------
(***************************************************************************)
(* Growing a route: a path found by a search, and the nodes that come with *)
(* it because they are shorted to it.                                      *)
(***************************************************************************)

\* Nodes joined to each node by edges that are not configurable, and itself.
ShortedTo ==
  LET Grow[k \in Nat] ==
        IF k = 0 THEN [n \in Node |-> {n}]
        ELSE LET set == Grow[k - 1]
             IN  [n \in Node |->
                    set[n] \cup {e[2] : e \in {f \in Short : f[1] \in set[n]}}]
  IN  Grow[Cardinality(Short)]

\* The paths a search can find: no node is repeated, and since a node is
\* reached together with the nodes shorted to it, a path that leaves such a
\* set of nodes does not come back to it.
PathsOfLength[k \in Nat] ==
  IF k <= 1 THEN {<<n>> : n \in Node}
  ELSE {Append(pe[1], pe[2][2]) : pe \in
          {x \in PathsOfLength[k - 1] \X Edge :
             /\ x[1][k - 1] = x[2][1]
             /\ \A i \in 1..(k - 1) :
                  /\ x[1][i] # x[2][2]
                  /\ x[2][2] \in ShortedTo[x[1][i]] => x[2] \in Short}}
AllPaths == UNION {PathsOfLength[k] : k \in 2..Cardinality(Node)}
PathsTo == [n \in Node |-> {p \in AllPaths : p[Len(p)] = n}]

\* What the search may expand from: the route so far, or the SOURCE when
\* there is none.  The timing-driven router does not expand SINKs and IPINs,
\* nor, in late iterations, the SOURCE of a net that this call has begun.
Expandable(t) ==
  IF algorithm = "BREADTH_FIRST"
  THEN IF t = <<>> THEN {Source[Current]} ELSE Nodes(t)
  ELSE {n \in Nodes(t) \cup {Source[Current]} :
          /\ Type[n] \notin {"SINK", "IPIN"}
          /\ n = Source[Current] => ~(grown /\ itry > OpinLockIteration)}

\* A path from the existing route to the SINK through nodes that are new to
\* the net and inside its bounding box.
IsBranch(p, sink) ==
  /\ p \in Seq(Node) /\ Len(p) > 1
  /\ p[1] \in Expandable(trace[Current])
  /\ p[Len(p)] = sink
  /\ \A i \in 2..Len(p) : p[i] \in Box[Current] \ Nodes(trace[Current])
  /\ \A i \in 2..(Len(p) - 1) : Type[p[i]] \notin {"SOURCE", "SINK"}
Branches(sink) == {p \in PathsTo[sink] : IsBranch(p, sink)}

\* traceback_branch: the elements of the path itself.
MainBranch(p) ==
  [i \in 1..Len(p) |-> [node |-> p[i], open |-> i = Len(p)]]

Concatenation(seqs) == FoldLeft(LAMBDA s, t : s \o t, <<>>, seqs)

\* add_trace_non_configurable_recurr: depth first from the node, along edges
\* that are not configurable, to nodes not yet in the trace.
Subtree[x \in Node \X SUBSET Node] ==
  LET n == x[1]
      unvisited == {m \in Node : <<n, m>> \in Short /\ m \notin x[2]}
  IN  IF unvisited = {} THEN <<[node |-> n, open |-> TRUE]>>
      ELSE Concatenation([i \in 1..Cardinality(unvisited) |->
             <<[node |-> n, open |-> FALSE]>>
               \o Subtree[<<SetToSeq(unvisited)[i], x[2] \cup {n}>>]])

\* add_trace_non_configurable for every new node of the path, last to first.
SideBranches_None(p, known) == <<>>
SideBranches(p, known) ==
  LET visited == known \cup ToSet(p)
      Side(n) == LET s == Subtree[<<n, visited>>]
                 IN  IF Len(s) = 1 THEN <<>> ELSE s
  IN  Concatenation([i \in 1..(Len(p) - 1) |-> Side(p[Len(p) + 1 - i])])

-----------------------------------------------------------------------------
(***************************************************************************)
(* Pruning a route: the timing-driven router turns the traceback into a    *)
(* tree, removes what is overused or flagged, and turns what is left into  *)
(* a traceback again.                                                      *)
(***************************************************************************)

\* The positions of the edges below n, in the order of its child list: a new
\* edge is put at the head.
ChildPositions(t, n) ==
  Reverse(SetToSortSeq({p \in Links(t) : t[p].node = n}, <))
IncomingPositions(t, n) == {p \in Links(t) : t[p + 1].node = n}

\* force_prune when prune_route_tree_recurr has looked at node n.
ForcePrune_NotInherited(t) ==
  [n \in Nodes(t) |-> Overused(n) \/ <<Current, n>> \in forced]
ForcePrune(t) ==
  LET force[n \in Nodes(t)] ==
        \/ Overused(n)
        \/ <<Current, n>> \in forced
        \/ \E p \in IncomingPositions(t, n) : force[t[p].node]
  IN  force

\* The nodes for which prune_route_tree_recurr returns the node.
KeptNodes(t) ==
  LET force == ForcePrune(t)
      kept[n \in Nodes(t)] ==
        IF Type[n] = "SINK" THEN ~force[n]
        ELSE \/ \E p \in Links(t) : t[p].node = n /\ kept[t[p + 1].node]
             \/ /\ ~force[n]
                /\ \E p \in IncomingPositions(t, n) : <<t[p].node, n>> \in Short
  IN  {n \in Nodes(t) : kept[n]}

\* traceback_from_route_tree_recurr on what is left of the tree of t.
Rebuilt(t, kept) ==
  LET from[n \in kept] ==
        LET kids == SelectSeq(ChildPositions(t, n),
                              LAMBDA p : t[p + 1].node \in kept)
        IN  IF kids = <<>> THEN <<[node |-> n, open |-> TRUE]>>
            ELSE Concatenation([i \in 1..Len(kids) |->
                   <<[node |-> n, open |-> FALSE]>> \o from[t[kids[i] + 1].node]])
  IN  IF kept = {} THEN <<>> ELSE from[Source[Current]]

-----------------------------------------------------------------------------
Init ==
  /\ algorithm \in Algorithms
  /\ itry = 1
  /\ phase = IF SortedNets = <<>> THEN "reserve" ELSE "net"
  /\ turn = 1
  /\ remaining = {}
  /\ grown = FALSE
  /\ trace = [n \in Net |-> <<>>]
  /\ occ = [n \in Node |-> 0]
  /\ forced = {}
  /\ opins = [c \in Class |-> {}]

\* On to the next net of this iteration.
NextNet_OneTooFar ==
  /\ turn' = turn + 1
  /\ phase' = IF turn <= Len(SortedNets) THEN "net" ELSE "reserve"
NextNet ==
  /\ turn' = turn + 1
  /\ phase' = IF turn < Len(SortedNets) THEN "net" ELSE "reserve"

\* should_route_net: there is no route yet, or the walk meets an overused node
\* or, at the end of a branch, a flagged SINK.
ShouldRoute ==
  LET t == trace[Current] IN
  \/ t = <<>>
  \/ \E p \in Visited(t, 1) : \/ Overused(t[p].node)
                              \/ t[p].open /\ <<Current, t[p].node>> \in forced

SkipNet ==
  /\ phase = "net"
  /\ \/ Current \in GlobalNets
     \/ algorithm = "TIMING_DRIVEN" /\ ~ShouldRoute
  /\ NextNet
  /\ UNCHANGED <<algorithm, itry, remaining, grown, trace, occ, forced, opins>>

\* setup_routing_resources decides by this whether to prune.
Incremental ==
  /\ algorithm = "TIMING_DRIVEN"
  /\ Cardinality(Sinks[Current]) >= MinIncrementalFanout
  /\ itry > 1

StartsRouting ==
  /\ phase = "net"
  /\ Current \notin GlobalNets
  /\ algorithm = "TIMING_DRIVEN" => ShouldRoute
  /\ phase' = "sinks"
  /\ grown' = FALSE

\* The whole net is ripped up (both algorithms); the timing-driven one also
\* forgets the flags of the net.
RipUpNet ==
  /\ StartsRouting
  /\ ~Incremental
  /\ occ' = RippedUp(occ, trace[Current])
  /\ trace' = [trace EXCEPT ![Current] = <<>>]
  /\ remaining' = Sinks[Current]
  /\ forced' = IF algorithm = "TIMING_DRIVEN"
               THEN {c \in forced : c[1] # Current} ELSE forced
  /\ UNCHANGED <<algorithm, itry, turn, opins>>

\* The net is pruned to its legal part.
PruneNet ==
  LET new == Rebuilt(trace[Current], KeptNodes(trace[Current])) IN
  /\ StartsRouting
  /\ Incremental
  /\ Walkable(new)
  /\ occ' = Added(RippedUp(occ, trace[Current]), new, 1)
  /\ trace' = [trace EXCEPT ![Current] = new]
  /\ remaining' = Sinks[Current] \ Nodes(new)
  /\ UNCHANGED <<algorithm, itry, turn, forced, opins>>

\* One SINK is reached.  The timing-driven router counts the new branch now,
\* from the first element that was not there before; the breadth-first router
\* counts the whole net when it is done with it.
RouteSink(sink) ==
  LET t == trace[Current] IN
  /\ phase = "sinks"
  /\ sink \in remaining
  /\ \E p \in Branches(sink) :
       LET side == SideBranches(p, Nodes(t))
           new  == t \o (MainBranch(p) \o side)
       IN  /\ Walkable(side)
           /\ trace' = [trace EXCEPT ![Current] = new]
           /\ occ' = IF algorithm = "BREADTH_FIRST" THEN occ
                     ELSE Added(occ, new, IF t = <<>> THEN 1 ELSE Len(t) + 2)
  /\ remaining' = remaining \ {sink}
  /\ grown' = TRUE
  /\ UNCHANGED <<algorithm, itry, phase, turn, forced, opins>>

\* What try_breadth_first_route_net does after breadth_first_route_net,
\* whether it reached every SINK or not.
CountedAfterNet ==
  occ' = IF algorithm = "BREADTH_FIRST" THEN Added(occ, trace[Current], 1) ELSE occ

\* The timing-driven router asserts that the SOURCE is not overused.
FinishNet ==
  /\ phase = "sinks"
  /\ remaining = {}
  /\ algorithm = "TIMING_DRIVEN" => ~Overused(Source[Current])
  /\ CountedAfterNet
  /\ NextNet
  /\ UNCHANGED <<algorithm, itry, remaining, grown, trace, forced, opins>>

\* The heap runs empty: no path to the SINK the timing-driven router is after,
\* or to none of those the breadth-first router would take.
NoPath ==
  /\ phase = "sinks"
  /\ remaining # {}
  /\ IF algorithm = "BREADTH_FIRST"
     THEN \A sink \in remaining : Branches(sink) = {}
     ELSE \E sink \in remaining : Branches(sink) = {}
  /\ CountedAfterNet
  /\ phase' = "failure"
  /\ UNCHANGED <<algorithm, itry, turn, remaining, grown, trace, forced, opins>>

-----------------------------------------------------------------------------
\* How often a local connection has reserved node n.
LocalUse(o, n) == Cardinality({c \in Class : n \in o[c]})

\* reserve_locally_used_opins: any OPINs of the class, as many as it needs,
\* after those of the iteration before have been given back.
LocalChoices ==
  LET Of(c) == {e[2] : e \in {f \in Edge : f[1] = ClassSource[c]}}
  IN  {o \in [Class -> SUBSET UNION {Of(c) : c \in Class}] :
         \A c \in Class : /\ o[c] \subseteq Of(c)
                          /\ Cardinality(o[c]) = NumLocalOpins[c]}

ReserveLocalOpins ==
  /\ phase = "reserve"
  /\ \E o \in LocalChoices :
       /\ opins' = o
       /\ occ' = [n \in Node |->
                    (occ[n] - IF itry > 1 THEN LocalUse(opins, n) ELSE 0)
                      + LocalUse(o, n)]
  /\ phase' = "decide"
  /\ UNCHANGED <<algorithm, itry, turn, remaining, grown, trace, forced>>

FeasibleRouting_WiresOnly ==
  \A n \in Node : Type[n] = "CHAN" => ~Overused(n)
FeasibleRouting == \A n \in Node : ~Overused(n)

Succeed ==
  /\ phase = "decide"
  /\ FeasibleRouting
  /\ phase' = "success"
  /\ UNCHANGED <<algorithm, itry, turn, remaining, grown, trace, occ, forced,
                 opins>>

\* The first iteration used too much wire, the predicted iteration of success
\* is too far (timing-driven only), or the iterations are used up.
GiveUp ==
  /\ phase = "decide"
  /\ ~FeasibleRouting
  /\ algorithm = "TIMING_DRIVEN" \/ itry = MaxIterations
  /\ phase' = "failure"
  /\ UNCHANGED <<algorithm, itry, turn, remaining, grown, trace, occ, forced,
                 opins>>

\* The next iteration.  Once the critical path has grown, each connection's
\* flag is set anew (forcibly_reroute_connections); otherwise it stays.
NextIteration ==
  /\ phase = "decide"
  /\ ~FeasibleRouting
  /\ itry < MaxIterations
  /\ itry' = itry + 1
  /\ phase' = IF SortedNets = <<>> THEN "reserve" ELSE "net"
  /\ turn' = 1
  /\ \/ forced' = forced
     \/ /\ algorithm = "TIMING_DRIVEN" /\ itry > 1
        /\ forced' \in SUBSET Connections
  /\ UNCHANGED <<algorithm, remaining, grown, trace, occ, opins>>

Done == phase \in {"success", "failure"} /\ UNCHANGED vars

RouterStep ==
  \/ SkipNet
  \/ RipUpNet
  \/ PruneNet
  \/ \E sink \in Node : RouteSink(sink)
  \/ FinishNet
  \/ NoPath
  \/ ReserveLocalOpins
  \/ Succeed
  \/ GiveUp
  \/ NextIteration

Next == RouterStep \/ Done

\* The router is a sequential program: it takes step after step until it is
\* done.  (This is WF_vars(RouterStep), written without ENABLED: before it is
\* done the router always has a step, as the check for deadlock shows.)
Fairness == <>[](phase \in {"success", "failure"}) \/ []<><<RouterStep>>_vars

Spec == Init /\ [][Next]_vars /\ Fairness

-----------------------------------------------------------------------------
(***************************************************************************)
(* Properties.                                                             *)
(***************************************************************************)

\* Nets whose traceback is counted in the occupancies: while the breadth-first
\* router is routing a net, that one is not.
CountedNets ==
  {m \in Net : ~(algorithm = "BREADTH_FIRST" /\ phase = "sinks" /\ m = Current)}

\* Every use of node n: the positions at which a walk counts it.
Uses(n) ==
  UNION {{m} \X {p \in Visited(trace[m], 1) : trace[m][p].node = n} :
           m \in CountedNets}

\* The occupancies, which are only ever changed by walks over parts of
\* tracebacks and by reservations of output pins (pathfinder_update_path_cost,
\* adjust_one_rr_occ_and_apcost), are at every moment what
\* recompute_occupancy_from_scratch would compute.
OccupancyExact ==
  \A n \in Node : occ[n] = Cardinality(Uses(n)) + LocalUse(opins, n)

\* The nodes on the way from the source to each node of a traceback.
WayTo(t) ==
  LET Extend(way, p) ==
        IF p > 1 /\ t[p - 1].open THEN way
        ELSE (t[p].node :> ({t[p].node} \cup IF p = 1 THEN {}
                                             ELSE way[t[p - 1].node])) @@ way
  IN  FoldLeft(Extend, <<>>, [i \in DOMAIN t |-> i])

Abstract ==
  INSTANCE LegalRouting WITH
    Net     <- Net \ GlobalNets,
    used    <- [m \in Net \ GlobalNets |-> EdgesOf(trace[m])],
    outcome <- IF phase \in {"success", "failure"} THEN phase ELSE "running"

\* A traceback, finished or not, is a tree of edges of the graph that starts
\* at the net's SOURCE, has every node shorted to one of its nodes, is counted
\* once per node by a walk, and reaches just the SINKs that are not remaining.
TracesLegal ==
  \A m \in Net : LET t == trace[m]
                     routing == /\ phase \in {"sinks", "failure"}
                                /\ turn \in DOMAIN SortedNets
                                /\ m = Current IN
    /\ t # <<>> =>
         /\ m \notin GlobalNets
         /\ Walkable(t)
         /\ t[1].node = Source[m]
         /\ EdgesOf(t) \subseteq Edge
         /\ \A n \in Nodes(t) : Count(t, 1, n) = 1
         /\ \A p \in 2..Len(t) : t[p - 1].open =>
              \E q \in 1..(p - 1) : t[q].node = t[p].node
         /\ Abstract!WholeShorts(m)
         /\ ~routing => Sinks[m] \subseteq Nodes(t)
    /\ routing /\ remaining # {} => Nodes(t) \cap Sinks[m] = Sinks[m] \ remaining

\* An incremental set-up keeps the connection to a SINK, with the way it took,
\* exactly when nothing on that way is overused or flagged, and what it leaves
\* is free of overuse.
PruneIsExact ==
  [][phase = "net" /\ phase' = "sinks" /\ Incremental =>
       LET old == trace[Current]
           new == trace'[Current]
           Fine(n) == ~Overused(n) /\ <<Current, n>> \notin forced
       IN  /\ \A s \in Sinks[Current] :
                /\ s \in Nodes(new) <=> \A n \in WayTo(old)[s] : Fine(n)
                /\ s \in Nodes(new) => WayTo(new)[s] = WayTo(old)[s]
           /\ \A n \in Nodes(new) : occ'[n] <= Capacity[n]]_vars

\* Both routers do what a router promises: nets are rerouted one at a time, and
\* the router ends, in a failure or in a routing that check_route accepts.
RoutesLegally == Abstract!Spec
=============================================================================
