---------------------------- MODULE LegalRouting ----------------------------
(***************************************************************************)
(* What a router promises, whatever algorithm it runs: one net at a time   *)
(* is given other wires, local connections are given output pins, and the  *)
(* end, which always comes, is either a failure or a legal routing.  Legal *)
(* is what check_route (vpr/src/route/check_route.cpp) accepts.            *)
(***************************************************************************)
EXTENDS Integers, FiniteSets

CONSTANTS
  Node, Capacity, Edge, Short,
  Net,            \* the nets to be routed
  Source, Sinks,
  Class, ClassSource, NumLocalOpins

VARIABLES
  used,     \* [Net -> SUBSET Edge]: the edges a net's routing takes
  opins,    \* [Class -> SUBSET Node]: the pins of local connections
  outcome   \* "running", "success" or "failure"

vars == <<used, opins, outcome>>

NodesUsed(m) == {e[1] : e \in used[m]} \cup {e[2] : e \in used[m]}

\* The net is one tree that hangs from its source and ends in all its sinks:
\* no node is entered twice, and no set of its nodes is cut off from the source.
Connected(m) ==
  /\ Sinks[m] \subseteq NodesUsed(m)
  /\ \A e, f \in used[m] : e[2] = f[2] => e = f
  /\ \A cut \in SUBSET (NodesUsed(m) \ {Source[m]}) :
       cut # {} => \E e \in used[m] : e[1] \notin cut /\ e[2] \in cut

\* Of wires that are shorted together a net takes all or none, and takes them
\* by the shorts.
WholeShorts(m) ==
  \A e \in Short : {e[1], e[2]} \cap NodesUsed(m) # {} =>
                     e \in used[m] \/ <<e[2], e[1]>> \in used[m]

\* recompute_occupancy_from_scratch.
Usage(n) == Cardinality({m \in Net : n \in NodesUsed(m)})
              + Cardinality({c \in Class : n \in opins[c]})

LocalOpinsRight ==
  \A c \in Class : /\ Cardinality(opins[c]) = NumLocalOpins[c]
                   /\ \A n \in opins[c] : <<ClassSource[c], n>> \in Edge

Legal ==
  /\ \A n \in Node : Usage(n) <= Capacity[n]
  /\ \A m \in Net : Connected(m) /\ WholeShorts(m)
  /\ LocalOpinsRight

Init == /\ used = [m \in Net |-> {}]
        /\ opins = [c \in Class |-> {}]
        /\ outcome = "running"

Reroute == /\ outcome = "running"
           /\ \E m \in Net : /\ used' = [used EXCEPT ![m] = used'[m]]
                             /\ used'[m] \subseteq Edge
           /\ UNCHANGED <<opins, outcome>>

ReserveOpins == /\ outcome = "running"
                /\ LocalOpinsRight'
                /\ UNCHANGED <<used, outcome>>

Succeed == /\ outcome = "running"
           /\ outcome' = "success"
           /\ Legal
           /\ UNCHANGED <<used, opins>>

Fail == /\ outcome = "running"
        /\ outcome' = "failure"
        /\ UNCHANGED <<used, opins>>

Next == Reroute \/ ReserveOpins \/ Succeed \/ Fail

Spec == Init /\ [][Next]_vars /\ <>(outcome # "running")
=============================================================================
