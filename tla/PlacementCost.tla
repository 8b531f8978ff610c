---------------------------- MODULE PlacementCost ----------------------------
(***************************************************************************)
(* The costs by which the annealer judges moves (vpr/src/place/place.cpp). *)
(* The bounding box of every net, with the number of pins on its sides,    *)
(* the cost of every connection and the sums of both are kept from move to *)
(* move: a move is charged with the difference that the pins of the blocks *)
(* it moved make, pin by pin, and when it is kept these are written back.  *)
(*                                                                         *)
(* Placement is timing-driven.  A net costs the half-perimeter of its box, *)
(* without the weights for fan-out and channel widths, and costs are not   *)
(* rounded.  The pins of a block are on its tile.                          *)
(***************************************************************************)
EXTENDS Placement

CONSTANTS Nets,           \* nets of the clustered netlist
          Pins,           \* [Nets -> sequence of blocks], the driver's first
          BlockPins,      \* [Blocks -> sequence of its pins <<net, index>>]
          GlobalNets,     \* nets that span the whole chip and cost nothing
          SMALL_NET,      \* nets with fewer sinks have no incremental box
          Criticalities   \* what timing analysis may come to: [Nets -> Nat]

Seqs == INSTANCE SequencesExt
Sets == INSTANCE FiniteSetsExt
Funs == INSTANCE Functions

Routed      == Nets \ GlobalNets
Sinks(net)  == {net} \X (2..Len(Pins[net]))
Connections == UNION {Sinks(net) : net \in Routed}
Large(net)  == Len(Pins[net]) - 1 >= SMALL_NET

ASSUME PinAssumption ==
  /\ IsFiniteSet(Nets) /\ SMALL_NET \in Nat
  /\ \A net \in Nets : Pins[net] \in Seq(Blocks) /\ Pins[net] # <<>>
  /\ \A b \in Blocks : /\ BlockPins[b] \in Seq(UNION {{net} \X DOMAIN Pins[net] : net \in Nets})
                       /\ Seqs!IsInjective(BlockPins[b])
  /\ \A b \in Blocks : \A net \in Nets : \A i \in DOMAIN Pins[net] :
       Pins[net][i] = b <=> <<net, i>> \in Seqs!ToSet(BlockPins[b])
  /\ Criticalities \subseteq [Nets -> Nat]

VARIABLES bb,      \* [Routed -> box]: bb_coords and bb_num_on_edges
          p2p,     \* [Connections -> cost]: point_to_point_..._cost
          crit,    \* the criticalities in force
          costs,   \* bb_cost, delay_cost and timing_cost
          judged   \* what a move would change

costVars == <<bb, p2p, crit, costs, judged>>

\* A connection no delay has been computed for.
Undefined == [delay |-> -1, timing |-> -1]
NotJudged == [state |-> <<>>, box |-> <<>>, temp |-> <<>>, delay |-> 0, timing |-> 0]
Judged    == judged # NotJudged

-----------------------------------------------------------------------------
(* Bounding boxes: two sides, one along x and one along y, each with its   *)
(* ends and, in large nets, the number of pins at each end.                *)

Larger(a, b)  == IF a > b THEN a ELSE b
Smaller(a, b) == IF a < b THEN a ELSE b
\* Blocks on the border of the chip count as one tile further in.
Clipped(s) == <<Larger(Smaller(s[1], Width - 2), 1), Larger(Smaller(s[2], Height - 2), 1)>>

Widened(a, v) ==
  [lo  |-> Smaller(v, a.lo), nlo |-> IF v < a.lo THEN 1 ELSE IF v = a.lo THEN a.nlo + 1 ELSE a.nlo,
   hi  |-> Larger(v, a.hi),  nhi |-> IF v > a.hi THEN 1 ELSE IF v = a.hi THEN a.nhi + 1 ELSE a.nhi]

\* get_bb_from_scratch: the driver, then sink after sink.
FromScratch(net) ==
  LET at(i) == Clipped(block_locs[Pins[net][i]])
      side[i \in DOMAIN Pins[net]] == [k \in 1..2 |->
         IF i = 1 THEN [lo |-> at(1)[k], nlo |-> 1, hi |-> at(1)[k], nhi |-> 1]
         ELSE Widened(side[i - 1][k], at(i)[k])]
  IN  side[Len(Pins[net])]

\* get_non_updateable_bb: the ends are clipped after they are found.
NonUpdateable(net) ==
  LET at == {block_locs[b] : b \in Seqs!ToSet(Pins[net])}
      lo == Clipped([k \in 1..2 |-> Sets!Min({s[k] : s \in at})])
      hi == Clipped([k \in 1..2 |-> Sets!Max({s[k] : s \in at})])
  IN  [k \in 1..2 |-> [lo |-> lo[k], nlo |-> 0, hi |-> hi[k], nhi |-> 0]]

NetCost(box) == (box[1].hi - box[1].lo + 1) + (box[2].hi - box[2].lo + 1)

LosesEnd_MaxOnly(a, old, new) == new < old /\ old = a.hi /\ a.nhi = 1

\* The only pin at an end moves inwards: the side cannot be updated.
LosesEnd(a, old, new) ==
  \/ new < old /\ old = a.hi /\ a.nhi = 1
  \/ new > old /\ old = a.lo /\ a.nlo = 1

Shifted(a, old, new) ==
  [lo  |-> IF new < old THEN Smaller(new, a.lo) ELSE a.lo,
   nlo |-> CASE new < old /\ new < a.lo -> 1
             [] new < old /\ new = a.lo -> a.nlo + 1
             [] new > old /\ old = a.lo -> a.nlo - 1
             [] OTHER -> a.nlo,
   hi  |-> IF new > old THEN Larger(new, a.hi) ELSE a.hi,
   nhi |-> CASE new > old /\ new > a.hi -> 1
             [] new > old /\ new = a.hi -> a.nhi + 1
             [] new < old /\ old = a.hi -> a.nhi - 1
             [] OTHER -> a.nhi]

\* update_net_bb and update_bb, for a pin of a block with the move record m.
\* The box of a large net is updated from the box before the move first, from
\* the updated one then, and not any more once it was computed from scratch.
UpdatedBox(j, net, m) ==
  LET box == IF j.state[net] = "NOT_UPDATED_YET" THEN bb[net] ELSE j.box[net]
      old == Clipped(m.old)
      new == Clipped(m.new)
  IN  IF ~Large(net) THEN [j EXCEPT !.box[net] = NonUpdateable(net)]
      ELSE IF j.state[net] = "GOT_FROM_SCRATCH" THEN j
      ELSE IF \E k \in 1..2 : LosesEnd(box[k], old[k], new[k])
      THEN [j EXCEPT !.box[net] = FromScratch(net), !.state[net] = "GOT_FROM_SCRATCH"]
      ELSE [j EXCEPT !.box[net] = [k \in 1..2 |-> Shifted(box[k], old[k], new[k])],
                     !.state[net] = "UPDATED_ONCE"]

-----------------------------------------------------------------------------
(* Connections.                                                            *)

Distance(a, b) == IF a > b THEN a - b ELSE b - a
\* comp_td_point_to_point_delay: a function of the two distances.
Delay(c, locs) ==
  LET from == locs[Pins[c[1]][1]]
      to   == locs[Pins[c[1]][c[2]]]
  IN  Distance(to[1], from[1]) + 2 * Distance(to[2], from[2])
PointCost(c, locs, criticality) ==
  [delay |-> Delay(c, locs), timing |-> criticality[c[1]] * Delay(c, locs)]

DrivenByMovedBlock(net) == \E i \in DOMAIN moved : moved[i].blk = Pins[net][1]
\* The connections that are due when a pin of a moved block is looked at: when
\* the driver has moved they all are, once, at the driver's pin.
Due(net, i) == IF i = 1 THEN Sinks(net)
               ELSE IF DrivenByMovedBlock(net) THEN {} ELSE {<<net, i>>}

TotalBb(box)       == Funs!SumFunction([net \in Routed |-> NetCost(box[net])])
TotalDelay(point)  == Funs!SumFunction([c \in Connections |-> point[c].delay])
TotalTiming(point) == Funs!SumFunction([c \in Connections |-> point[c].timing])
\* comp_td_costs
PointCosts(criticality) == [c \in Connections |-> PointCost(c, block_locs, criticality)]

UpdatedDeltas(j, net, i) ==
  LET due == Due(net, i)
      new == [c \in due |-> PointCost(c, block_locs, crit)]
  IN  [j EXCEPT !.temp = [c \in Connections |-> IF c \in due THEN new[c] ELSE @[c]],
                !.delay = @ + Funs!SumFunction([c \in due |-> new[c].delay - p2p[c].delay]),
                !.timing = @ + Funs!SumFunction([c \in due |-> new[c].timing - p2p[c].timing])]

-----------------------------------------------------------------------------
(* Judging a move, keeping it and giving it up.                            *)

\* The pins of the moved blocks, in the order of the loops over them, each
\* with the record of the move.
PinsOf(m) == [k \in DOMAIN BlockPins[m.blk] |->
                [move |-> m, net |-> BlockPins[m.blk][k][1], pin |-> BlockPins[m.blk][k][2]]]
MovedPins ==
  LET upTo[i \in 0..Len(moved)] ==
        IF i = 0 THEN <<>> ELSE upTo[i - 1] \o PinsOf(moved[i])
  IN  upTo[Len(moved)]

\* find_affected_nets_and_update_costs, for one pin; those on global nets are
\* skipped.
PinJudged(j, x) == IF x.net \in Routed
                   THEN UpdatedDeltas(UpdatedBox(j, x.net, x.move), x.net, x.pin)
                   ELSE j

\* What an earlier move has left in the arrays of new boxes and temporary costs
\* is shown as empty: it is not read.
Unjudged == [state |-> [net \in Routed |-> "NOT_UPDATED_YET"],
             box   |-> [net \in Routed |-> <<>>],
             temp  |-> [c \in Connections |-> Undefined],
             delay |-> 0, timing |-> 0]
MoveJudged ==
  LET after[k \in 0..Len(MovedPins)] ==
        IF k = 0 THEN Unjudged ELSE PinJudged(after[k - 1], MovedPins[k])
  IN  after[Len(MovedPins)]

MoveCosts ==
  /\ phase = "assess" /\ ~Judged
  /\ judged' = MoveJudged
  /\ UNCHANGED <<vars, bb, p2p, crit, costs>>

AffectedNets ==
  {net \in Routed : \E i \in DOMAIN moved : moved[i].blk \in Seqs!ToSet(Pins[net])}
BbDelta == Funs!SumFunction([net \in AffectedNets |->
                               NetCost(judged.box[net]) - NetCost(bb[net])])
JudgedDelta == [bb |-> BbDelta, delay |-> judged.delay, timing |-> judged.timing]

\* update_td_cost takes the temporary costs over, and marks them as taken.
PinTaken(s, x) ==
  LET due == IF x.net \in Routed THEN Due(x.net, x.pin) ELSE {}
  IN  [p2p  |-> [c \in Connections |-> IF c \in due THEN s.temp[c] ELSE s.p2p[c]],
       temp |-> [c \in Connections |-> IF c \in due THEN Undefined ELSE s.temp[c]]]
TakenOver ==
  LET after[k \in 0..Len(MovedPins)] ==
        IF k = 0 THEN [p2p |-> p2p, temp |-> judged.temp]
        ELSE PinTaken(after[k - 1], MovedPins[k])
  IN  after[Len(MovedPins)]

KeepMove ==
  /\ Judged
  /\ Accept
  /\ bb' = [net \in Routed |-> IF net \in AffectedNets THEN judged.box[net] ELSE bb[net]]
  /\ p2p' = TakenOver.p2p
  /\ costs' = [k \in DOMAIN costs |-> costs[k] + JudgedDelta[k]]
  /\ judged' = NotJudged
  /\ UNCHANGED crit

RejectMove ==
  /\ Judged
  /\ Reject
  /\ judged' = NotJudged
  /\ UNCHANGED <<bb, p2p, crit, costs>>

-----------------------------------------------------------------------------
(* Costs from scratch, and the checks of the costs that were kept.         *)

\* The cost part of check_place, for the sums k.
CostsPass(k, criticality) ==
  /\ k.bb = TotalBb([net \in Routed |-> NonUpdateable(net)])
  /\ k.delay = TotalDelay(PointCosts(criticality))
  /\ k.timing = TotalTiming(PointCosts(criticality))
\* What it makes of the boxes: comp_bb_cost(CHECK) writes the ends of all of
\* them anew and leaves the numbers of pins on the sides as they were.
Checked(box) ==
  [net \in Routed |-> [k \in 1..2 |->
     [box[net][k] EXCEPT !.lo = NonUpdateable(net)[k].lo, !.hi = NonUpdateable(net)[k].hi]]]

\* comp_bb_cost(NORMAL), the first timing analysis, comp_td_costs, check_place.
StartWithCosts ==
  /\ phase = "initial" /\ \A b \in Blocks : Placed(b)
  /\ crit' \in Criticalities
  /\ p2p' = PointCosts(crit')
  /\ LET box == [net \in Routed |->
                  IF Large(net) THEN FromScratch(net) ELSE NonUpdateable(net)]
     IN  /\ costs' = [bb |-> TotalBb(box), delay |-> TotalDelay(p2p'),
                      timing |-> TotalTiming(p2p')]
         /\ bb' = Checked(box)
  /\ Stop(IF CheckPlace /\ CostsPass(costs', crit') THEN "anneal" ELSE "error")
  /\ UNCHANGED judged

\* The outer and the inner loop: new criticalities, costs from scratch.
RecomputeCriticalities ==
  /\ phase = "anneal"
  /\ crit' \in Criticalities
  /\ p2p' = PointCosts(crit')
  /\ costs' = [costs EXCEPT !.delay = TotalDelay(p2p'), !.timing = TotalTiming(p2p')]
  /\ UNCHANGED <<vars, bb, judged>>

\* The outer loop, after many moves: an exception if the costs have drifted.
RecomputeCosts ==
  /\ phase = "anneal"
  /\ p2p' = PointCosts(crit)
  /\ LET new == [bb |-> TotalBb(bb), delay |-> TotalDelay(p2p'), timing |-> TotalTiming(p2p')]
     IN  /\ costs' = [new EXCEPT !.delay = costs.delay]
         /\ Stop(IF new = costs THEN "anneal" ELSE "error")
  /\ UNCHANGED <<bb, crit, judged>>

FinishWithCosts ==
  /\ phase = "anneal"
  /\ Stop(IF CheckPlace /\ CostsPass(costs, crit) THEN "done" ELSE "error")
  /\ bb' = Checked(bb)
  /\ p2p' = PointCosts(crit)
  /\ UNCHANGED <<crit, costs, judged>>

CostInit ==
  /\ Init
  /\ bb = <<>> /\ p2p = <<>> /\ crit = <<>>
  /\ costs = [bb |-> 0, delay |-> 0, timing |-> 0]
  /\ judged = NotJudged

\* Steps that leave the costs alone.
MoveBlocks ==
  \/ \E b \in Blocks : \E to \in LegalPos(BlockType[b]) : Propose(b, to)
  \/ LeaveChip
  \/ HitMacro
  \/ MoveToEmpty
  \/ \E c \in Blocks : SwapWith(c)
  \/ Abort

CostNext ==
  \/ PlaceInitially /\ UNCHANGED costVars
  \/ StartWithCosts
  \/ MoveBlocks /\ UNCHANGED costVars
  \/ MoveCosts
  \/ KeepMove
  \/ RejectMove
  \/ RecomputeCriticalities
  \/ RecomputeCosts
  \/ FinishWithCosts

CostSpec == CostInit /\ [][CostNext]_<<vars, costVars>>

-----------------------------------------------------------------------------
(* Properties.                                                             *)

\* The side of a net's box along coordinate k, by its definition.
SideOf(net, k, locs) ==
  LET at(i) == Clipped(locs[Pins[net][i]])[k]
      all == {at(i) : i \in DOMAIN Pins[net]}
      NumAt(v) == IF Large(net) THEN Cardinality({i \in DOMAIN Pins[net] : at(i) = v}) ELSE 0
  IN  [lo |-> Sets!Min(all), nlo |-> NumAt(Sets!Min(all)),
       hi |-> Sets!Max(all), nhi |-> NumAt(Sets!Max(all))]
TrueCosts(locs) ==
  [bb     |-> TotalBb([net \in Routed |-> [k \in 1..2 |-> SideOf(net, k, locs)]]),
   delay  |-> Funs!SumFunction([c \in Connections |-> Delay(c, locs)]),
   timing |-> Funs!SumFunction([c \in Connections |-> crit[c[1]] * Delay(c, locs)])]

\* After any sequence of moves, kept or not, the boxes and the counts of pins
\* on their sides, the cost of each connection and the sums are those of the
\* placement, though each was only ever changed by differences (update_bb,
\* update_td_delta_costs); and a move is judged by what it really changes.
CostsExact ==
  phase \in {"anneal", "assess", "done"} =>
    /\ bb = [net \in Routed |-> [k \in 1..2 |-> SideOf(net, k, Undone)]]
    /\ p2p = [c \in Connections |-> PointCost(c, Undone, crit)]
    /\ costs = [bb |-> TotalBb(bb), delay |-> TotalDelay(p2p), timing |-> TotalTiming(p2p)]
    /\ Judged =>
         LET true == TrueCosts(block_locs)
         IN  \A k \in DOMAIN costs : costs[k] + JudgedDelta[k] = true[k]
=============================================================================
