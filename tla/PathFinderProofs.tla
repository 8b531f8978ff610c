-------------------------- MODULE PathFinderProofs --------------------------
(***************************************************************************)
(* The books of the PathFinder router are right for every graph, netlist   *)
(* and limit: whatever nets are ripped up, pruned, branched and counted by *)
(* walks over parts of their tracebacks, the occupancy of a node is the    *)
(* number of uses a count from scratch would find.                         *)
(***************************************************************************)
EXTENDS PathFinder, FiniteSetTheorems, TLAPS

(* The inductive invariant.                                                *)

Types ==
  /\ algorithm \in Algorithms
  /\ itry \in 1..MaxIterations
  /\ phase \in Phase
  /\ turn \in 1..(Len(SortedNets) + 1)
  /\ phase \in {"net", "sinks"} => turn \in DOMAIN SortedNets
  /\ remaining \subseteq Node
  /\ grown \in BOOLEAN
  /\ trace \in [Net -> Seq(TraceElem)]
  /\ occ \in [Node -> Int]
  /\ forced \subseteq Connections
  /\ opins \in [Class -> SUBSET Node]

\* Every traceback ends a branch, so that the walks stay on it and a new
\* branch begins where they skip an element.
WellEnded == \A m \in Net : Walkable(trace[m])

\* reserve_locally_used_opins gives back nothing in the first iteration: there
\* is nothing yet.
NothingReserved ==
  itry = 1 /\ phase \in {"net", "sinks", "reserve"} =>
    opins = [c \in Class |-> {}]

IInv == Types /\ WellEnded /\ NothingReserved /\ OccupancyExact

-----------------------------------------------------------------------------
(* Uses of a node, as a function of the tracebacks and the nets counted.   *)

At(t, k, n)      == {p \in Visited(t, k) : t[p].node = n}
UsesOf(T, C, n)  == UNION {{m} \X At(T[m], 1, n) : m \in C}

LEMMA UsesUnfold ==
  ASSUME NEW n \in Node
  PROVE  Uses(n) = UsesOf(trace, CountedNets, n)
BY DEF Uses, UsesOf, At

LEMMA UsesUnfoldNext ==
  ASSUME NEW n \in Node, NEW T, trace' = T, NEW C, CountedNets' = C
  PROVE  Uses(n)' = UsesOf(T, C, n)
BY DEF Uses, UsesOf, At

\* A walk that starts on the list counts finitely many positions.
LEMMA AtFinite ==
  ASSUME NEW t \in Seq(TraceElem), NEW k \in Nat \ {0}, NEW n
  PROVE  /\ IsFiniteSet(At(t, k, n))
         /\ Count(t, k, n) = Cardinality(At(t, k, n))
         /\ Count(t, k, n) \in Nat
<1>1. IsFiniteSet(k..Len(t))
  BY FS_Interval
<1>2. At(t, k, n) \in SUBSET (k..Len(t))
  BY DEF At, Visited
<1>3. IsFiniteSet(At(t, k, n))
  BY <1>1, <1>2, FS_Subset
<1> QED
  BY <1>3, FS_CardinalityType DEF Count, At

LEMMA DisjointUnion ==
  ASSUME NEW S, IsFiniteSet(S), NEW T, IsFiniteSet(T), S \cap T = {}
  PROVE  Cardinality(S \cup T) = Cardinality(S) + Cardinality(T)
<1>1. /\ Cardinality(S) \in Nat /\ Cardinality(T) \in Nat
      /\ Cardinality(S \cap T) = 0
  BY FS_CardinalityType, FS_EmptySet
<1>2. Cardinality(S \cup T)
        = Cardinality(S) + Cardinality(T) - Cardinality(S \cap T)
  BY FS_Union
<1> QED
  BY <1>1, <1>2

LEMMA EmptyTrace ==
  ASSUME NEW n
  PROVE  Count(<<>>, 1, n) = 0
<1>1. {p \in Visited(<<>>, 1) : <<>>[p].node = n} = {}
  BY DEF Visited
<1> QED
  BY <1>1, FS_EmptySet DEF Count

LEMMA UsesFinite ==
  ASSUME NEW T \in [Net -> Seq(TraceElem)], NEW C \in SUBSET Net, NEW n
  PROVE  IsFiniteSet(UsesOf(T, C, n))
<1> DEFINE of(m) == {m} \X At(T[m], 1, n)
           all   == {of(m) : m \in C}
<1>1. IsFiniteSet(C)
  BY GraphAssumption, FS_Subset
<1>2. \A m \in C : IsFiniteSet(of(m))
  <2> SUFFICES ASSUME NEW m \in C PROVE IsFiniteSet(of(m))
    OBVIOUS
  <2>1. IsFiniteSet(At(T[m], 1, n))
    BY AtFinite
  <2> QED
    BY <2>1, FS_Singleton, FS_Product
<1>3. IsFiniteSet(all)
  <2> DEFINE g == [m \in C |-> of(m)]
  <2>1. g \in Surjection(C, all)
    BY DEF Surjection
  <2> QED
    BY <2>1, <1>1, FS_Surjection
<1>4. IsFiniteSet(UNION all)
  BY <1>2, <1>3, FS_UNION
<1> QED
  BY <1>4 DEF UsesOf

\* One net's uses can be told from those of the others.
LEMMA SplitUses ==
  ASSUME NEW T \in [Net -> Seq(TraceElem)], NEW C, NEW D, NEW k, NEW n,
         C \subseteq Net, k \in C, D = C \ {k}
  PROVE  /\ Cardinality(UsesOf(T, D, n)) \in Nat
         /\ Count(T[k], 1, n) \in Nat
         /\ Cardinality(UsesOf(T, C, n))
              = Cardinality(UsesOf(T, D, n)) + Count(T[k], 1, n)
<1> DEFINE rest == UsesOf(T, D, n)
           own  == {k} \X At(T[k], 1, n)
<1>1. UsesOf(T, C, n) = rest \cup own
  BY DEF UsesOf
<1>2. rest \cap own = {}
  BY DEF UsesOf
<1>3. IsFiniteSet(rest)
  <2>1. D \in SUBSET Net
    OBVIOUS
  <2> QED
    BY <2>1, UsesFinite
<1>4. T[k] \in Seq(TraceElem)
  OBVIOUS
<1>5. /\ IsFiniteSet(At(T[k], 1, n))
      /\ Count(T[k], 1, n) = Cardinality(At(T[k], 1, n))
      /\ Count(T[k], 1, n) \in Nat
  BY <1>4, AtFinite
<1>6. IsFiniteSet({k}) /\ Cardinality({k}) = 1
  BY FS_Singleton
<1>7. IsFiniteSet(own) /\ Cardinality(own) = 1 * Cardinality(At(T[k], 1, n))
  BY <1>5, <1>6, FS_Product
<1>8. Cardinality(own) = Count(T[k], 1, n)
  BY <1>5, <1>7
<1>9. Cardinality(rest) \in Nat
  BY <1>3, FS_CardinalityType
<1>10. Cardinality(rest \cup own) = Cardinality(rest) + Cardinality(own)
  BY <1>2, <1>3, <1>7, <1>8, <1>5, <1>9, DisjointUnion
<1> QED
  BY <1>1, <1>5, <1>8, <1>9, <1>10

LEMMA SplitAll ==
  \A T \in [Net -> Seq(TraceElem)] : \A k \in Net : \A n :
    /\ Cardinality(UsesOf(T, Net \ {k}, n)) \in Nat
    /\ Count(T[k], 1, n) \in Nat
    /\ Cardinality(UsesOf(T, Net, n))
         = Cardinality(UsesOf(T, Net \ {k}, n)) + Count(T[k], 1, n)
<1> TAKE T \in [Net -> Seq(TraceElem)]
<1> TAKE k \in Net
<1> TAKE n
<1> QED
  BY SplitUses

LEMMA OthersUnchanged ==
  ASSUME NEW T, NEW U, NEW C, NEW n,
         \A m \in C : U[m] = T[m]
  PROVE  UsesOf(U, C, n) = UsesOf(T, C, n)
BY DEF UsesOf

-----------------------------------------------------------------------------
(* A branch appended to a traceback.                                       *)

\* The walk over a lengthened list counts what it counted before, skips the
\* repeated branch point, and counts what a walk from behind it counts.
LEMMA CountAppended ==
  ASSUME NEW t \in Seq(TraceElem), Walkable(t), t # <<>>,
         NEW b \in Seq(TraceElem), Len(b) > 1, ~b[1].open,
         NEW n
  PROVE  Count(t \o b, 1, n) = Count(t, 1, n) + Count(t \o b, Len(t) + 2, n)
<1> DEFINE new == t \o b
           l   == Len(t)
           A   == At(t, 1, n)
           B   == At(new, l + 2, n)
<1>1. /\ new \in Seq(TraceElem)
      /\ l \in Nat \ {0}
      /\ Len(new) = l + Len(b)
      /\ \A p \in 1..l : new[p] = t[p]
      /\ new[l + 1] = b[1]
      /\ t[l].open
  BY DEF Walkable
<1>2. Len(b) \in Nat
  OBVIOUS
<1>3. At(new, 1, n) = A \cup B
  <2>1. ASSUME NEW p \in At(new, 1, n) PROVE p \in A \cup B
    <3>1. /\ p \in 1..(l + Len(b)) /\ new[p].node = n
          /\ p = 1 \/ ~new[p - 1].open
      BY <1>1 DEF At, Visited
    <3>2. CASE p <= l
      <4>1. p = 1 \/ new[p - 1] = t[p - 1]
        BY <1>1, <1>2, <3>1, <3>2
      <4> QED
        BY <1>1, <1>2, <3>1, <3>2, <4>1 DEF At, Visited
    <3>3. CASE p = l + 1
      BY <1>1, <1>2, <3>1, <3>3
    <3>4. CASE p > l + 1
      BY <1>1, <1>2, <3>1, <3>4 DEF At, Visited
    <3> QED
      BY <1>1, <1>2, <3>1, <3>2, <3>3, <3>4
  <2>2. ASSUME NEW p \in A PROVE p \in At(new, 1, n)
    <3>1. p \in 1..l /\ t[p].node = n /\ (p = 1 \/ ~t[p - 1].open)
      BY DEF At, Visited
    <3>2. p = 1 \/ new[p - 1] = t[p - 1]
      BY <1>1, <3>1
    <3> QED
      BY <1>1, <1>2, <3>1, <3>2 DEF At, Visited
  <2>3. ASSUME NEW p \in B PROVE p \in At(new, 1, n)
    <3>1. /\ p \in (l + 2)..(l + Len(b)) /\ new[p].node = n
          /\ p = l + 2 \/ ~new[p - 1].open
      BY <1>1 DEF At, Visited
    <3>2. CASE p = l + 2
      BY <1>1, <1>2, <3>1, <3>2 DEF At, Visited
    <3>3. CASE p # l + 2
      BY <1>1, <1>2, <3>1, <3>3 DEF At, Visited
    <3> QED
      BY <3>2, <3>3
  <2> QED
    BY <2>1, <2>2, <2>3
<1>4. A \cap B = {}
  BY <1>1, <1>2 DEF At, Visited
<1>5. /\ IsFiniteSet(A) /\ Count(t, 1, n) = Cardinality(A)
      /\ Count(t, 1, n) \in Nat
  BY AtFinite
<1>6. l + 2 \in Nat \ {0}
  BY <1>1
<1>7. /\ IsFiniteSet(B) /\ Count(new, l + 2, n) = Cardinality(B)
      /\ Count(new, l + 2, n) \in Nat
  BY <1>1, <1>6, AtFinite
<1>8. Count(new, 1, n) = Cardinality(At(new, 1, n))
  BY DEF Count, At
<1>9. Cardinality(A \cup B) = Cardinality(A) + Cardinality(B)
  BY <1>4, <1>5, <1>7, DisjointUnion
<1> QED
  BY <1>3, <1>5, <1>7, <1>8, <1>9

\* A branch of at least two nodes, and the nodes shorted to it.
LEMMA NewBranch ==
  ASSUME NEW p \in Seq(Node), Len(p) > 1, NEW side, Walkable(side)
  PROVE  LET b == MainBranch(p) \o side IN
         b \in Seq(TraceElem) /\ Len(b) > 1 /\ ~b[1].open /\ b[Len(b)].open
<1> DEFINE main == MainBranch(p)
<1> HIDE DEF main
<1>1. Len(p) \in Nat /\ Len(p) > 1
  OBVIOUS
<1>2. \A i \in 1..Len(p) : [node |-> p[i], open |-> i = Len(p)] \in TraceElem
  BY DEF TraceElem
<1>3. main \in [1..Len(p) -> TraceElem]
  BY <1>2 DEF MainBranch, main
<1>4. main \in Seq(TraceElem) /\ Len(main) = Len(p)
  BY <1>1, <1>3
<1>5. ~main[1].open /\ main[Len(main)].open
  <2>1. ASSUME NEW i \in 1..Len(p) PROVE main[i].open <=> i = Len(p)
    BY DEF MainBranch, main
  <2>2. 1 \in 1..Len(p) /\ Len(p) \in 1..Len(p)
    BY <1>1
  <2>3. 1 # Len(p)
    <3>1. \A k \in Nat : k > 1 => 1 # k
      OBVIOUS
    <3> QED
      BY <1>1, <3>1, Zenon
  <2>4. ~main[1].open
    BY <2>1, <2>2, <2>3
  <2>5. main[Len(p)].open
    BY <2>1, <2>2
  <2> QED
    BY <1>4, <2>4, <2>5
<1>6. /\ main \o side \in Seq(TraceElem)
      /\ Len(main \o side) = Len(p) + Len(side)
      /\ Len(side) \in Nat
      /\ (main \o side)[1] = main[1]
  BY <1>1, <1>4 DEF Walkable
<1>7. (main \o side)[Len(main \o side)].open
  <2>1. CASE side = <<>>
    BY <1>4, <1>5, <2>1
  <2>2. CASE side # <<>>
    BY <1>1, <1>4, <1>6, <2>2 DEF Walkable
  <2> QED
    BY <2>1, <2>2
<1> QED
  BY <1>1, <1>5, <1>6, <1>7 DEF main

LEMMA AppendedWalkable ==
  ASSUME NEW t \in Seq(TraceElem), NEW b \in Seq(TraceElem), Len(b) > 1,
         b[Len(b)].open
  PROVE  t \o b \in Seq(TraceElem) /\ Walkable(t \o b)
<1>1. /\ t \o b \in Seq(TraceElem) /\ Len(t \o b) = Len(t) + Len(b)
      /\ Len(t) \in Nat /\ Len(b) \in Nat
  OBVIOUS
<1>2. (t \o b)[Len(t \o b)] = b[Len(b)]
  BY <1>1
<1> QED
  BY <1>1, <1>2 DEF Walkable

-----------------------------------------------------------------------------
(* Every step keeps the invariant.                                         *)

LEMMA InitInv == Init => IInv
<1> SUFFICES ASSUME Init PROVE IInv
  OBVIOUS
<1>1. Len(SortedNets) \in Nat /\ DOMAIN SortedNets = 1..Len(SortedNets)
  BY NetAssumption
<1>2. Types
  <2>1. /\ algorithm \in Algorithms
        /\ phase \in Phase
        /\ remaining \subseteq Node
        /\ grown \in BOOLEAN
    BY DEF Init, Phase
  <2>2. phase \in {"net", "sinks"} => turn \in DOMAIN SortedNets
    <3>1. CASE SortedNets = <<>>
      BY <3>1 DEF Init
    <3>2. CASE SortedNets # <<>>
      BY <1>1, <3>2, NetAssumption DEF Init
    <3> QED
      BY <3>1, <3>2
  <2>3. trace \in [Net -> Seq(TraceElem)] /\ occ \in [Node -> Int]
    BY DEF Init
  <2>4. forced \subseteq Connections /\ opins \in [Class -> SUBSET Node]
    BY DEF Init
  <2>5. itry \in 1..MaxIterations
    BY OptionAssumption DEF Init
  <2>6. turn \in 1..(Len(SortedNets) + 1)
    BY <1>1 DEF Init
  <2> QED
    BY <2>1, <2>2, <2>3, <2>4, <2>5, <2>6 DEF Types
<1>3. WellEnded /\ NothingReserved
  BY DEF Init, WellEnded, NothingReserved, Walkable
<1>4. ASSUME NEW n \in Node
      PROVE  occ[n] = Cardinality(Uses(n)) + LocalUse(opins, n)
  <2>1. \A m \in Net : {p \in Visited(trace[m], 1) : trace[m][p].node = n} = {}
    BY DEF Init, Visited
  <2>2. Uses(n) = {}
    BY <2>1 DEF Uses, CountedNets
  <2>3. {c \in Class : n \in opins[c]} = {}
    BY DEF Init
  <2>4. Cardinality(Uses(n)) = 0 /\ LocalUse(opins, n) = 0
    BY <2>2, <2>3, FS_EmptySet DEF LocalUse
  <2>5. occ[n] = 0
    BY DEF Init
  <2> QED
    BY <2>4, <2>5
<1> QED
  BY <1>2, <1>3, <1>4 DEF IInv, OccupancyExact

\* What the invariant says of one node, in terms of UsesOf.
LEMMA ExactNow ==
  ASSUME IInv, NEW n \in Node
  PROVE  /\ occ[n] = Cardinality(UsesOf(trace, CountedNets, n)) + LocalUse(opins, n)
         /\ LocalUse(opins, n) \in Nat
         /\ Cardinality(UsesOf(trace, CountedNets, n)) \in Nat
<1>1. CountedNets \in SUBSET Net
  BY DEF CountedNets
<1>2. trace \in [Net -> Seq(TraceElem)]
  BY DEF IInv, Types
<1>3. Cardinality(UsesOf(trace, CountedNets, n)) \in Nat
  BY <1>1, <1>2, UsesFinite, FS_CardinalityType
<1>4. LocalUse(opins, n) \in Nat
  <2>1. {c \in Class : n \in opins[c]} \in SUBSET Class
    OBVIOUS
  <2> QED
    BY <2>1, GraphAssumption, FS_Subset, FS_CardinalityType DEF LocalUse
<1> QED
  BY <1>3, <1>4, UsesUnfold DEF IInv, OccupancyExact

\* While a net is routed by the breadth-first router it is not counted.
LEMMA WhoIsCounted ==
  ASSUME Types
  PROVE  /\ phase # "sinks" => CountedNets = Net
         /\ algorithm = "TIMING_DRIVEN" => CountedNets = Net
         /\ phase = "sinks" /\ algorithm = "BREADTH_FIRST" =>
              CountedNets = Net \ {Current}
BY DEF CountedNets

LEMMA CurrentIsNet ==
  ASSUME Types, phase \in {"net", "sinks"}
  PROVE  Current \in Net
BY NetAssumption DEF Types, Current

\* Steps that touch neither tracebacks nor occupancies.
LEMMA SameBooks ==
  ASSUME IInv, UNCHANGED <<trace, occ, opins>>, CountedNets' = CountedNets
  PROVE  OccupancyExact' /\ WellEnded'
<1>1. ASSUME NEW n \in Node
      PROVE  occ'[n] = Cardinality(Uses(n)') + LocalUse(opins', n)
  <2>1. Uses(n)' = UsesOf(trace, CountedNets, n)
    BY UsesUnfoldNext
  <2> QED
    BY <2>1, ExactNow
<1>2. WellEnded'
  BY DEF IInv, WellEnded
<1> QED
  BY <1>1, <1>2 DEF OccupancyExact, LocalUse

\* A new traceback, or none, for the current net, which is counted before.
LEMMA Recounted ==
  ASSUME IInv, NEW k \in Net, CountedNets = Net, CountedNets' = Net,
         UNCHANGED opins,
         NEW new \in Seq(TraceElem), Walkable(new),
         trace' = [trace EXCEPT ![k] = new],
         \A n \in Node :
           occ'[n] = (occ[n] - Count(trace[k], 1, n)) + Count(new, 1, n)
  PROVE  OccupancyExact' /\ WellEnded'
<1>1. trace \in [Net -> Seq(TraceElem)]
  BY DEF IInv, Types
<1> PICK upd : trace' = upd
  OBVIOUS
<1>2. /\ upd \in [Net -> Seq(TraceElem)]
      /\ \A m \in Net \ {k} : upd[m] = trace[m]
      /\ upd[k] = new
  BY <1>1
<1>3. ASSUME NEW n \in Node
      PROVE  occ'[n] = Cardinality(Uses(n)') + LocalUse(opins', n)
  <2> DEFINE Rest == Cardinality(UsesOf(trace, Net \ {k}, n))
             Old  == Count(trace[k], 1, n)
             New  == Count(new, 1, n)
             Opin == LocalUse(opins, n)
  <2>1. /\ Rest \in Nat /\ Old \in Nat
        /\ Cardinality(UsesOf(trace, Net, n)) = Rest + Old
    BY <1>1, SplitAll, ZenonT(30)
  <2>2. /\ Count(upd[k], 1, n) \in Nat
        /\ Cardinality(UsesOf(upd, Net, n))
             = Cardinality(UsesOf(upd, Net \ {k}, n)) + Count(upd[k], 1, n)
    <3>1. upd \in [Net -> Seq(TraceElem)] /\ k \in Net
      BY <1>2
    <3> QED
      BY ONLY <3>1, SplitAll, ZenonT(30)
  <2>3. UsesOf(upd, Net \ {k}, n) = UsesOf(trace, Net \ {k}, n)
    <3>1. \A m \in Net \ {k} : upd[m] = trace[m]
      BY <1>2
    <3> QED
      BY <3>1, OthersUnchanged
  <2>4. New \in Nat /\ Cardinality(Uses(n)') = Rest + New
    BY <1>2, <2>2, <2>3, UsesUnfoldNext
  <2>5. occ[n] = (Rest + Old) + Opin /\ Opin \in Nat
    BY <2>1, ExactNow
  <2>6. occ'[n] = (occ[n] - Old) + New
    OBVIOUS
  <2> HIDE DEF Rest, Old, New, Opin
  <2>7. occ'[n] = (Rest + New) + Opin
    BY <2>1, <2>4, <2>5, <2>6
  <2> QED
    BY <2>4, <2>7 DEF Opin
<1>4. WellEnded'
  BY <1>2 DEF IInv, WellEnded
<1> QED
  BY <1>3, <1>4 DEF OccupancyExact

\* The breadth-first router takes the current net off the books, ...
LEMMA TakenOff ==
  ASSUME IInv, NEW k \in Net, CountedNets = Net, CountedNets' = Net \ {k},
         UNCHANGED opins,
         trace' = [trace EXCEPT ![k] = <<>>],
         occ' = RippedUp(occ, trace[k])
  PROVE  OccupancyExact' /\ WellEnded'
<1>1. trace \in [Net -> Seq(TraceElem)]
  BY DEF IInv, Types
<1> PICK upd : trace' = upd
  OBVIOUS
<1>2. /\ upd \in [Net -> Seq(TraceElem)]
      /\ \A m \in Net \ {k} : upd[m] = trace[m]
      /\ upd[k] = <<>>
  <2>1. <<>> \in Seq(TraceElem)
    OBVIOUS
  <2> QED
    BY <1>1, <2>1
<1>3. ASSUME NEW n \in Node
      PROVE  occ'[n] = Cardinality(Uses(n)') + LocalUse(opins', n)
  <2> DEFINE Rest == Cardinality(UsesOf(trace, Net \ {k}, n))
             Old  == Count(trace[k], 1, n)
             Opin == LocalUse(opins, n)
  <2>1. /\ Rest \in Nat /\ Old \in Nat
        /\ Cardinality(UsesOf(trace, Net, n)) = Rest + Old
    BY <1>1, SplitAll, Zenon
  <2>2. UsesOf(upd, Net \ {k}, n) = UsesOf(trace, Net \ {k}, n)
    <3>1. \A m \in Net \ {k} : upd[m] = trace[m]
      BY <1>2
    <3> QED
      BY <3>1, OthersUnchanged
  <2>3. Cardinality(Uses(n)') = Rest
    BY <2>2, UsesUnfoldNext
  <2>4. occ[n] = (Rest + Old) + Opin /\ Opin \in Nat
    BY <2>1, ExactNow
  <2>5. occ'[n] = occ[n] - Old
    BY DEF RippedUp
  <2> HIDE DEF Rest, Old, Opin
  <2>6. occ'[n] = Rest + Opin
    BY <2>1, <2>4, <2>5
  <2> QED
    BY <2>3, <2>6 DEF Opin
<1>4. WellEnded'
  BY <1>2 DEF IInv, WellEnded, Walkable
<1> QED
  BY <1>3, <1>4 DEF OccupancyExact

\* ... grows it, uncounted, ...
LEMMA GrownUncounted ==
  ASSUME IInv, NEW k \in Net, CountedNets = Net \ {k}, CountedNets' = Net \ {k},
         UNCHANGED <<opins, occ>>,
         NEW new \in Seq(TraceElem), Walkable(new),
         trace' = [trace EXCEPT ![k] = new]
  PROVE  OccupancyExact' /\ WellEnded'
<1>1. trace \in [Net -> Seq(TraceElem)]
  BY DEF IInv, Types
<1> PICK upd : trace' = upd
  OBVIOUS
<1>2. /\ \A m \in Net \ {k} : upd[m] = trace[m]
      /\ upd[k] = new
  BY <1>1
<1>3. ASSUME NEW n \in Node
      PROVE  occ'[n] = Cardinality(Uses(n)') + LocalUse(opins', n)
  <2>1. UsesOf(upd, Net \ {k}, n) = UsesOf(trace, Net \ {k}, n)
    <3>1. \A m \in Net \ {k} : upd[m] = trace[m]
      BY <1>2
    <3> QED
      BY <3>1, OthersUnchanged
  <2>2. Cardinality(Uses(n)') = Cardinality(UsesOf(trace, CountedNets, n))
    BY <2>1, UsesUnfoldNext
  <2> QED
    BY <2>2, ExactNow
<1>4. WellEnded'
  BY <1>2 DEF IInv, WellEnded
<1> QED
  BY <1>3, <1>4 DEF OccupancyExact

\* ... and counts all of it when it is done.
LEMMA PutOnTheBooks ==
  ASSUME IInv, NEW k \in Net, CountedNets = Net \ {k}, CountedNets' = Net,
         UNCHANGED <<opins, trace>>,
         occ' = Added(occ, trace[k], 1)
  PROVE  OccupancyExact' /\ WellEnded'
<1>1. trace \in [Net -> Seq(TraceElem)]
  BY DEF IInv, Types
<1>2. ASSUME NEW n \in Node
      PROVE  occ'[n] = Cardinality(Uses(n)') + LocalUse(opins', n)
  <2> DEFINE Rest == Cardinality(UsesOf(trace, Net \ {k}, n))
             Own  == Count(trace[k], 1, n)
             Opin == LocalUse(opins, n)
  <2>1. /\ Rest \in Nat /\ Own \in Nat
        /\ Cardinality(UsesOf(trace, Net, n)) = Rest + Own
    BY <1>1, SplitUses
  <2>2. Cardinality(Uses(n)') = Rest + Own
    BY <2>1, UsesUnfoldNext
  <2>3. occ[n] = Rest + Opin /\ Opin \in Nat
    BY ExactNow
  <2>4. occ'[n] = occ[n] + Own
    BY DEF Added
  <2> HIDE DEF Rest, Own, Opin
  <2>5. occ'[n] = (Rest + Own) + Opin
    BY <2>1, <2>3, <2>4
  <2> QED
    BY <2>2, <2>5 DEF Opin
<1>3. WellEnded'
  BY DEF IInv, WellEnded
<1> QED
  BY <1>2, <1>3 DEF OccupancyExact

-----------------------------------------------------------------------------
(* One lemma per action.                                                   *)

\* The next net's turn, or the end of the iteration.
LEMMA NextNetTypes ==
  ASSUME Types, phase \in {"net", "sinks"}, NextNet
  PROVE  /\ phase' \in {"net", "reserve"}
         /\ turn' \in 1..(Len(SortedNets) + 1)
         /\ phase' = "net" => turn' \in DOMAIN SortedNets
<1>1. Len(SortedNets) \in Nat /\ DOMAIN SortedNets = 1..Len(SortedNets)
  BY NetAssumption
<1>2. turn \in 1..Len(SortedNets) /\ turn' = turn + 1
  BY <1>1 DEF Types, NextNet
<1> QED
  BY <1>1, <1>2 DEF NextNet

LEMMA SkipNetInv == IInv /\ SkipNet => IInv'
<1> SUFFICES ASSUME IInv, SkipNet PROVE IInv'
  OBVIOUS
<1>1. Types
  BY DEF IInv
<1>2. phase' \in {"net", "reserve"}
  BY <1>1, NextNetTypes DEF SkipNet
<1>3. Types'
  BY <1>1, NextNetTypes DEF SkipNet, Types, Phase
<1>4. CountedNets' = CountedNets
  BY <1>2 DEF CountedNets, SkipNet
<1>5. OccupancyExact' /\ WellEnded'
  BY <1>4, SameBooks DEF SkipNet
<1>6. NothingReserved'
  BY <1>2 DEF IInv, NothingReserved, SkipNet
<1> QED
  BY <1>3, <1>5, <1>6 DEF IInv

LEMMA RipUpNetInv == IInv /\ RipUpNet => IInv'
<1> SUFFICES ASSUME IInv, RipUpNet PROVE IInv'
  OBVIOUS
<1>1. Types /\ Current \in Net
  BY CurrentIsNet DEF IInv, RipUpNet, StartsRouting
<1>2. phase = "net" /\ phase' = "sinks" /\ UNCHANGED <<algorithm, turn, itry, opins>>
  BY DEF RipUpNet, StartsRouting
<1>3. Types'
  <2>1. trace' \in [Net -> Seq(TraceElem)]
    <3>1. <<>> \in Seq(TraceElem)
      OBVIOUS
    <3> QED
      BY <1>1, <3>1 DEF Types, RipUpNet
  <2>2. occ' \in [Node -> Int]
    <3>1. trace[Current] \in Seq(TraceElem)
      BY <1>1 DEF Types
    <3>2. \A n \in Node : Count(trace[Current], 1, n) \in Nat
      BY <3>1, AtFinite
    <3> QED
      BY <1>1, <3>2 DEF Types, RipUpNet, RippedUp
  <2>3. remaining' \subseteq Node
    BY <1>1, NetAssumption DEF RipUpNet
  <2>4. forced' \subseteq Connections /\ grown' \in BOOLEAN
    BY <1>1 DEF Types, RipUpNet, StartsRouting
  <2> QED
    BY <1>1, <1>2, <2>1, <2>2, <2>3, <2>4 DEF Types, Phase
<1>4. OccupancyExact' /\ WellEnded'
  <2>1. CountedNets = Net
    BY <1>1, <1>2, WhoIsCounted
  <2>2. occ' = RippedUp(occ, trace[Current])
        /\ trace' = [trace EXCEPT ![Current] = <<>>]
    BY DEF RipUpNet
  <2>3. CASE algorithm = "BREADTH_FIRST"
    <3>1. CountedNets' = Net \ {Current}
      BY <1>2, <2>3 DEF CountedNets, Current
    <3> QED
      BY <1>1, <1>2, <2>1, <2>2, <3>1, TakenOff
  <2>4. CASE algorithm # "BREADTH_FIRST"
    <3>1. CountedNets' = Net
      BY <1>2, <2>4 DEF CountedNets
    <3>2. <<>> \in Seq(TraceElem) /\ Walkable(<<>>)
      BY DEF Walkable
    <3>3. ASSUME NEW n \in Node
          PROVE  occ'[n] = (occ[n] - Count(trace[Current], 1, n)) + Count(<<>>, 1, n)
      <4>1. trace[Current] \in Seq(TraceElem)
        BY <1>1 DEF Types
      <4>2. Count(trace[Current], 1, n) \in Nat /\ Count(<<>>, 1, n) = 0
        BY <4>1, AtFinite, EmptyTrace
      <4>3. occ[n] \in Int
        BY <1>1 DEF Types
      <4>4. occ'[n] = occ[n] - Count(trace[Current], 1, n)
        BY <2>2 DEF RippedUp
      <4> QED
        BY <4>2, <4>3, <4>4
    <3> QED
      BY <1>1, <1>2, <2>1, <2>2, <3>1, <3>2, <3>3, Recounted
  <2> QED
    BY <2>3, <2>4
<1>5. NothingReserved'
  BY <1>2 DEF IInv, NothingReserved
<1> QED
  BY <1>3, <1>4, <1>5 DEF IInv

LEMMA PruneNetInv == IInv /\ PruneNet => IInv'
<1> SUFFICES ASSUME IInv, PruneNet PROVE IInv'
  OBVIOUS
<1>1. Types /\ Current \in Net
  BY CurrentIsNet DEF IInv, PruneNet, StartsRouting
<1>2. /\ phase = "net" /\ phase' = "sinks" /\ algorithm = "TIMING_DRIVEN"
      /\ UNCHANGED <<algorithm, turn, itry, opins, forced>>
      /\ grown' = FALSE
  BY DEF PruneNet, StartsRouting, Incremental
<1>3. PICK new : /\ Walkable(new)
                 /\ occ' = Added(RippedUp(occ, trace[Current]), new, 1)
                 /\ trace' = [trace EXCEPT ![Current] = new]
                 /\ remaining' = Sinks[Current] \ Nodes(new)
  BY DEF PruneNet
<1>4. new \in Seq(TraceElem) /\ trace[Current] \in Seq(TraceElem)
  BY <1>1, <1>3 DEF Walkable, Types
<1>5. ASSUME NEW n \in Node
      PROVE  /\ occ'[n] = (occ[n] - Count(trace[Current], 1, n)) + Count(new, 1, n)
             /\ occ'[n] \in Int
  <2>1. Count(trace[Current], 1, n) \in Nat /\ Count(new, 1, n) \in Nat
    BY <1>4, AtFinite
  <2>2. occ[n] \in Int
    BY <1>1 DEF Types
  <2>3. occ'[n] = (occ[n] - Count(trace[Current], 1, n)) + Count(new, 1, n)
    BY <1>3 DEF Added, RippedUp
  <2> QED
    BY <2>1, <2>2, <2>3
<1>6. Types'
  <2>1. trace' \in [Net -> Seq(TraceElem)]
    BY <1>1, <1>3, <1>4 DEF Types
  <2>2. occ' \in [Node -> Int]
    <3>1. occ' = [n \in Node |-> occ'[n]]
      BY <1>3 DEF Added
    <3> QED
      BY <1>5, <3>1
  <2>3. remaining' \subseteq Node
    BY <1>1, <1>3, NetAssumption
  <2> QED
    BY <1>1, <1>2, <2>1, <2>2, <2>3 DEF Types, Phase
<1>7. CountedNets = Net /\ CountedNets' = Net
  BY <1>2 DEF CountedNets
<1>8. OccupancyExact' /\ WellEnded'
  BY <1>1, <1>2, <1>3, <1>4, <1>5, <1>7, Recounted
<1>9. NothingReserved'
  BY <1>2 DEF IInv, NothingReserved
<1> QED
  BY <1>6, <1>8, <1>9 DEF IInv

LEMMA RouteSinkInv ==
  ASSUME IInv, NEW sink \in Node, RouteSink(sink)
  PROVE  IInv'
<1>1. /\ Types /\ Current \in Net /\ Walkable(trace[Current])
      /\ trace[Current] \in Seq(TraceElem)
  BY CurrentIsNet DEF IInv, RouteSink, Types, WellEnded
<1>2. /\ phase = "sinks" /\ grown' = TRUE
      /\ remaining' = remaining \ {sink}
      /\ UNCHANGED <<algorithm, phase, turn, itry, opins, forced>>
  BY DEF RouteSink
<1>3. PICK p \in Branches(sink) :
        LET side == SideBranches(p, Nodes(trace[Current]))
            new  == trace[Current] \o (MainBranch(p) \o side)
        IN  /\ Walkable(side)
            /\ trace' = [trace EXCEPT ![Current] = new]
            /\ occ' = IF algorithm = "BREADTH_FIRST" THEN occ
                      ELSE Added(occ, new, IF trace[Current] = <<>> THEN 1
                                           ELSE Len(trace[Current]) + 2)
  BY DEF RouteSink
<1> PICK side : side = SideBranches(p, Nodes(trace[Current]))
  OBVIOUS
<1> PICK b : b = MainBranch(p) \o side
  OBVIOUS
<1> PICK new : new = trace[Current] \o b
  OBVIOUS
<1>4. /\ Walkable(side)
      /\ trace' = [trace EXCEPT ![Current] = new]
      /\ occ' = IF algorithm = "BREADTH_FIRST" THEN occ
                ELSE Added(occ, new, IF trace[Current] = <<>> THEN 1
                                     ELSE Len(trace[Current]) + 2)
  BY <1>3
<1>5. p \in Seq(Node) /\ Len(p) > 1
  BY DEF Branches, IsBranch
<1>6. b \in Seq(TraceElem) /\ Len(b) > 1 /\ ~b[1].open /\ b[Len(b)].open
  BY <1>4, <1>5, NewBranch
<1>7. new \in Seq(TraceElem) /\ Walkable(new)
  BY <1>1, <1>6, AppendedWalkable
<1>8. trace' \in [Net -> Seq(TraceElem)]
  BY <1>1, <1>4, <1>7 DEF Types
<1>9. CASE algorithm = "BREADTH_FIRST"
  <2>1. CountedNets = Net \ {Current} /\ CountedNets' = Net \ {Current}
    BY <1>2, <1>9 DEF CountedNets, Current
  <2>2. UNCHANGED <<opins, occ>>
    BY <1>2, <1>4, <1>9
  <2>3. OccupancyExact' /\ WellEnded'
    BY <1>1, <1>4, <1>7, <2>1, <2>2, GrownUncounted
  <2>4. Types'
    BY <1>1, <1>2, <1>8, <2>2 DEF Types
  <2> QED
    BY <1>2, <2>3, <2>4 DEF IInv, NothingReserved
<1>10. CASE algorithm # "BREADTH_FIRST"
  <2>1. CountedNets = Net /\ CountedNets' = Net
    BY <1>2, <1>10 DEF CountedNets
  <2>2. ASSUME NEW n \in Node
        PROVE  /\ occ'[n] = (occ[n] - Count(trace[Current], 1, n)) + Count(new, 1, n)
               /\ occ'[n] \in Int
    <3>1. /\ Count(trace[Current], 1, n) \in Nat
          /\ Count(new, 1, n) \in Nat
          /\ occ[n] \in Int
      <4>1. Count(trace[Current], 1, n) \in Nat
        BY <1>1, AtFinite
      <4>2. Count(new, 1, n) \in Nat
        <5>1. new \in Seq(TraceElem) /\ 1 \in Nat \ {0}
          BY <1>7
        <5> QED
          BY <5>1, AtFinite, Zenon
      <4>3. occ[n] \in Int
        BY <1>1 DEF Types
      <4> QED
        BY <4>1, <4>2, <4>3
    <3>2. CASE trace[Current] = <<>>
      <4>1. Count(trace[Current], 1, n) = 0
        BY <3>2, EmptyTrace
      <4>2. occ'[n] = occ[n] + Count(new, 1, n)
        BY <1>4, <1>10, <3>2 DEF Added
      <4> QED
        BY <3>1, <4>1, <4>2
    <3>3. CASE trace[Current] # <<>>
      <4>1. Count(new, 1, n)
              = Count(trace[Current], 1, n) + Count(new, Len(trace[Current]) + 2, n)
        <5> DEFINE t == trace[Current]
        <5>1. t \in Seq(TraceElem) /\ Walkable(t) /\ t # <<>>
          BY <1>1, <3>3
        <5>2. new = t \o b
          OBVIOUS
        <5> HIDE DEF t
        <5>3. Count(t \o b, 1, n) = Count(t, 1, n) + Count(t \o b, Len(t) + 2, n)
          BY ONLY <5>1, <1>6, CountAppended, SMTT(30)
        <5> QED
          BY <5>2, <5>3 DEF t
      <4>2. occ'[n] = occ[n] + Count(new, Len(trace[Current]) + 2, n)
        BY <1>4, <1>10, <3>3 DEF Added
      <4>3. Count(new, Len(trace[Current]) + 2, n) \in Nat
        <5>1. Len(trace[Current]) + 2 \in Nat \ {0}
          BY <1>1
        <5> QED
          BY <1>7, <5>1, AtFinite
      <4> QED
        BY <3>1, <4>1, <4>2, <4>3
    <3> QED
      BY <3>2, <3>3
  <2>3. occ' \in [Node -> Int]
    <3>1. occ' = [n \in Node |-> occ'[n]]
      BY <1>4, <1>10 DEF Added
    <3> QED
      BY <2>2, <3>1
  <2>4. OccupancyExact' /\ WellEnded'
    BY <1>1, <1>2, <1>4, <1>7, <2>1, <2>2, Recounted
  <2>5. Types'
    BY <1>1, <1>2, <1>8, <2>3 DEF Types
  <2> QED
    BY <1>2, <2>4, <2>5 DEF IInv, NothingReserved
<1> QED
  BY <1>9, <1>10

\* What FinishNet and NoPath have in common.
LEMMA CountedAfterNetInv ==
  ASSUME IInv, phase = "sinks", phase' # "sinks", CountedAfterNet,
         UNCHANGED <<algorithm, trace, opins>>
  PROVE  OccupancyExact' /\ WellEnded' /\ occ' \in [Node -> Int]
<1>1. Types /\ Current \in Net /\ trace[Current] \in Seq(TraceElem)
  BY CurrentIsNet DEF IInv, Types
<1>2. CountedNets' = Net
  BY DEF CountedNets
<1>3. CASE algorithm = "BREADTH_FIRST"
  <2>1. CountedNets = Net \ {Current}
    BY <1>1, <1>3, WhoIsCounted
  <2>2. occ' = Added(occ, trace[Current], 1)
    BY <1>3 DEF CountedAfterNet
  <2>3. OccupancyExact' /\ WellEnded'
    BY <1>1, <1>2, <2>1, <2>2, PutOnTheBooks
  <2>4. \A n \in Node : Count(trace[Current], 1, n) \in Nat
    BY <1>1, AtFinite
  <2>5. occ' \in [Node -> Int]
    BY <1>1, <2>2, <2>4 DEF Added, Types
  <2> QED
    BY <2>3, <2>5
<1>4. CASE algorithm # "BREADTH_FIRST"
  <2>1. CountedNets = Net
    BY <1>4 DEF CountedNets
  <2>2. UNCHANGED <<trace, occ, opins>>
    BY <1>4 DEF CountedAfterNet
  <2> QED
    BY <1>1, <1>2, <2>1, <2>2, SameBooks DEF Types
<1> QED
  BY <1>3, <1>4

LEMMA FinishNetInv == IInv /\ FinishNet => IInv'
<1> SUFFICES ASSUME IInv, FinishNet PROVE IInv'
  OBVIOUS
<1>1. Types /\ phase = "sinks"
  BY DEF IInv, FinishNet
<1>2. /\ phase' \in {"net", "reserve"}
      /\ turn' \in 1..(Len(SortedNets) + 1)
      /\ phase' = "net" => turn' \in DOMAIN SortedNets
  BY <1>1, NextNetTypes DEF FinishNet
<1>3. OccupancyExact' /\ WellEnded' /\ occ' \in [Node -> Int]
  BY <1>1, <1>2, CountedAfterNetInv DEF FinishNet
<1>4. Types'
  BY <1>1, <1>2, <1>3 DEF FinishNet, Types, Phase
<1>5. NothingReserved'
  BY <1>1, <1>2 DEF IInv, NothingReserved, FinishNet
<1> QED
  BY <1>3, <1>4, <1>5 DEF IInv

LEMMA NoPathInv == IInv /\ NoPath => IInv'
<1> SUFFICES ASSUME IInv, NoPath PROVE IInv'
  OBVIOUS
<1>1. Types /\ phase = "sinks" /\ phase' = "failure"
  BY DEF IInv, NoPath
<1>2. OccupancyExact' /\ WellEnded' /\ occ' \in [Node -> Int]
  BY <1>1, CountedAfterNetInv DEF NoPath
<1>3. Types'
  BY <1>1, <1>2 DEF NoPath, Types, Phase
<1>4. NothingReserved'
  BY <1>1 DEF NothingReserved
<1> QED
  BY <1>2, <1>3, <1>4 DEF IInv

LEMMA ReserveLocalOpinsInv == IInv /\ ReserveLocalOpins => IInv'
<1> SUFFICES ASSUME IInv, ReserveLocalOpins PROVE IInv'
  OBVIOUS
<1>1. /\ Types /\ phase = "reserve" /\ phase' = "decide"
      /\ UNCHANGED <<algorithm, itry, turn, remaining, grown, trace, forced>>
  BY DEF IInv, ReserveLocalOpins
<1>2. PICK o \in LocalChoices :
        /\ opins' = o
        /\ occ' = [n \in Node |->
                     (occ[n] - IF itry > 1 THEN LocalUse(opins, n) ELSE 0)
                       + LocalUse(o, n)]
  BY DEF ReserveLocalOpins
<1>3. o \in [Class -> SUBSET Node]
  <2>1. o \in [Class -> SUBSET UNION {{e[2] : e \in {f \in Edge : f[1] = ClassSource[c]}}
                                       : c \in Class}]
    BY DEF LocalChoices
  <2>2. UNION {{e[2] : e \in {f \in Edge : f[1] = ClassSource[c]}} : c \in Class}
          \subseteq Node
    BY GraphAssumption
  <2> QED
    BY <2>1, <2>2
<1>4. CountedNets = Net /\ CountedNets' = Net
  BY <1>1 DEF CountedNets
<1>5. ASSUME NEW n \in Node
      PROVE  /\ occ'[n] = Cardinality(Uses(n)') + LocalUse(opins', n)
             /\ occ'[n] \in Int
  <2> DEFINE All == Cardinality(UsesOf(trace, CountedNets, n))
             Old == LocalUse(opins, n)
             New == LocalUse(o, n)
  <2>1. occ[n] = All + Old /\ Old \in Nat /\ All \in Nat
    BY ExactNow
  <2>2. itry \in 1..MaxIterations /\ (itry = 1 => Old = 0)
    <3>1. ASSUME itry = 1 PROVE Old = 0
      <4>1. opins = [c \in Class |-> {}]
        BY <1>1, <3>1 DEF IInv, NothingReserved
      <4>2. {c \in Class : n \in opins[c]} = {}
        BY <4>1
      <4> QED
        BY <4>2, FS_EmptySet DEF LocalUse
    <3> QED
      BY <1>1, <3>1 DEF Types
  <2>3. Cardinality(Uses(n)') = All
    <3>1. Uses(n)' = UsesOf(trace, CountedNets, n)
      BY <1>1, <1>4, UsesUnfoldNext
    <3> QED
      BY <3>1
  <2>4. New \in Nat
    <3>1. {c \in Class : n \in o[c]} \in SUBSET Class
      OBVIOUS
    <3> QED
      BY <3>1, GraphAssumption, FS_Subset, FS_CardinalityType DEF LocalUse
  <2>5. occ'[n] = (occ[n] - IF itry > 1 THEN Old ELSE 0) + New
    BY <1>2
  <2>6. LocalUse(opins', n) = New
    BY <1>2
  <2> HIDE DEF All, Old, New
  <2>7. itry > 1 \/ itry = 1
    BY <2>2, OptionAssumption
  <2>8. occ'[n] = All + New
    BY <2>1, <2>2, <2>4, <2>5, <2>7
  <2> QED
    BY <2>1, <2>3, <2>4, <2>6, <2>8
<1>6. occ' \in [Node -> Int]
  <2>1. occ' = [n \in Node |-> occ'[n]]
    BY <1>2
  <2> QED
    BY <1>5, <2>1
<1>7. Types'
  BY <1>1, <1>2, <1>3, <1>6 DEF Types, Phase
<1>8. WellEnded' /\ NothingReserved'
  BY <1>1 DEF IInv, WellEnded, NothingReserved
<1> QED
  BY <1>5, <1>7, <1>8 DEF IInv, OccupancyExact

LEMMA DecideInv == IInv /\ (Succeed \/ GiveUp) => IInv'
<1> SUFFICES ASSUME IInv, Succeed \/ GiveUp PROVE IInv'
  OBVIOUS
<1>1. /\ Types /\ phase = "decide" /\ phase' \in {"success", "failure"}
      /\ UNCHANGED <<algorithm, itry, turn, remaining, grown, trace, occ,
                     forced, opins>>
  BY DEF IInv, Succeed, GiveUp
<1>2. Types'
  BY <1>1 DEF Types, Phase
<1>3. CountedNets' = CountedNets
  BY <1>1 DEF CountedNets
<1>4. OccupancyExact' /\ WellEnded'
  BY <1>1, <1>3, SameBooks
<1> QED
  BY <1>1, <1>2, <1>4 DEF IInv, NothingReserved

LEMMA NextIterationInv == IInv /\ NextIteration => IInv'
<1> SUFFICES ASSUME IInv, NextIteration PROVE IInv'
  OBVIOUS
<1>1. /\ Types /\ phase = "decide" /\ phase' \in {"net", "reserve"}
      /\ itry' = itry + 1 /\ itry < MaxIterations /\ turn' = 1
      /\ forced' = forced \/ forced' \in SUBSET Connections
      /\ UNCHANGED <<algorithm, remaining, grown, trace, occ, opins>>
  BY DEF IInv, NextIteration
<1>2. Len(SortedNets) \in Nat /\ DOMAIN SortedNets = 1..Len(SortedNets)
  BY NetAssumption
<1>3. itry \in Nat /\ itry >= 1
  BY <1>1, OptionAssumption DEF Types
<1>4. itry' \in 1..MaxIterations
  BY <1>1, <1>3, OptionAssumption
<1>5. turn' \in 1..(Len(SortedNets) + 1)
  BY <1>1, <1>2
<1>6. phase' = "net" => turn' \in DOMAIN SortedNets
  <2>1. ASSUME SortedNets # <<>> PROVE 1 \in DOMAIN SortedNets
    BY <2>1, <1>2, NetAssumption
  <2> QED
    BY <1>1, <2>1 DEF NextIteration
<1>7. Types'
  BY <1>1, <1>4, <1>5, <1>6 DEF Types, Phase
<1>8. CountedNets' = CountedNets
  BY <1>1 DEF CountedNets
<1>9. OccupancyExact' /\ WellEnded'
  BY <1>1, <1>8, SameBooks
<1>10. itry' # 1
  BY <1>1, <1>3
<1> QED
  BY <1>7, <1>9, <1>10 DEF IInv, NothingReserved

LEMMA NextInv == IInv /\ [Next]_vars => IInv'
<1> SUFFICES ASSUME IInv, [Next]_vars PROVE IInv'
  OBVIOUS
<1>1. CASE SkipNet
  BY <1>1, SkipNetInv
<1>2. CASE RipUpNet
  BY <1>2, RipUpNetInv
<1>3. CASE PruneNet
  BY <1>3, PruneNetInv
<1>4. ASSUME NEW sink \in Node, RouteSink(sink)
      PROVE  IInv'
  BY <1>4, RouteSinkInv
<1>5. CASE FinishNet
  BY <1>5, FinishNetInv
<1>6. CASE NoPath
  BY <1>6, NoPathInv
<1>7. CASE ReserveLocalOpins
  BY <1>7, ReserveLocalOpinsInv
<1>8. CASE Succeed \/ GiveUp
  BY <1>8, DecideInv
<1>9. CASE NextIteration
  BY <1>9, NextIterationInv
<1>10. CASE UNCHANGED vars
  <2>1. UNCHANGED <<algorithm, itry, phase, turn, remaining, grown, trace, occ,
                   forced, opins>>
    BY <1>10 DEF vars
  <2>2. CountedNets' = CountedNets
    BY <2>1 DEF CountedNets, Current
  <2>3. OccupancyExact' /\ WellEnded'
    BY <2>1, <2>2, SameBooks
  <2>4. Types' /\ NothingReserved'
    BY <2>1 DEF IInv, Types, NothingReserved
  <2> QED
    BY <2>3, <2>4 DEF IInv
<1> QED
  BY <1>1, <1>2, <1>3, <1>4, <1>5, <1>6, <1>7, <1>8, <1>9, <1>10
     DEF Next, RouterStep, Done

-----------------------------------------------------------------------------
(* The theorems.                                                           *)

THEOREM Bookkeeping == Spec => []IInv
  BY InitInv, NextInv, PTL DEF Spec

\* At every moment of every iteration, and whether a net is ripped up, pruned
\* or grown, the occupancies kept by pathfinder_update_path_cost and
\* adjust_one_rr_occ_and_apcost are those of a count from scratch.
THEOREM OccupancyCorrect == Spec => []OccupancyExact
<1>1. IInv => OccupancyExact
  BY DEF IInv
<1> QED
  BY Bookkeeping, <1>1, PTL

\* Types; in particular no occupancy is ever negative, as
\* adjust_one_rr_occ_and_apcost asserts.
THEOREM RouterTypes == Spec => []TypeOK
<1>1. ASSUME IInv PROVE TypeOK
  <2>1. ASSUME NEW n \in Node PROVE occ[n] \in Nat
    BY <1>1, ExactNow
  <2>2. occ \in [Node -> Nat]
    BY <1>1, <2>1 DEF IInv, Types
  <2> QED
    BY <1>1, <2>2 DEF IInv, Types, TypeOK
<1>2. IInv => TypeOK
  BY <1>1
<1> QED
  BY Bookkeeping, <1>2, PTL

\* When the router reports success, no node is used more often than it can be,
\* counted from scratch (check_route's first question), although the router
\* only ever looked at the occupancies it keeps.
Uncongested ==
  phase = "success" =>
    \A n \in Node : Cardinality(Uses(n)) + LocalUse(opins, n) <= Capacity[n]

FeasibleInv == phase = "success" => FeasibleRouting

LEMMA FeasibleStep == FeasibleInv /\ [Next]_vars => FeasibleInv'
<1> SUFFICES ASSUME FeasibleInv, [Next]_vars, phase' = "success"
             PROVE  FeasibleRouting'
  BY DEF FeasibleInv
<1>1. CASE Succeed
  BY <1>1 DEF Succeed, FeasibleRouting, Overused
<1>2. CASE UNCHANGED vars
  BY <1>2 DEF vars, FeasibleInv, FeasibleRouting, Overused
<1>3. CASE RouterStep /\ ~Succeed
  BY <1>3 DEF RouterStep, SkipNet, RipUpNet, PruneNet, RouteSink, FinishNet,
              NoPath, ReserveLocalOpins, GiveUp, NextIteration, StartsRouting,
              NextNet
<1> QED
  BY <1>1, <1>2, <1>3 DEF Next, Done

THEOREM SuccessIsUncongested == Spec => []Uncongested
<1>1. Init => FeasibleInv
  BY DEF Init, FeasibleInv
<1>2. ASSUME IInv, FeasibleInv PROVE Uncongested
  <2> SUFFICES ASSUME phase = "success", NEW n \in Node
               PROVE  Cardinality(Uses(n)) + LocalUse(opins, n) <= Capacity[n]
    BY DEF Uncongested
  <2>1. occ[n] = Cardinality(Uses(n)) + LocalUse(opins, n)
    BY <1>2 DEF IInv, OccupancyExact
  <2>2. occ[n] \in Int /\ Capacity[n] \in Nat /\ ~(occ[n] > Capacity[n])
    BY <1>2, GraphAssumption DEF IInv, Types, FeasibleInv, FeasibleRouting, Overused
  <2> QED
    BY <2>1, <2>2
<1>3. IInv /\ FeasibleInv => Uncongested
  BY <1>2
<1> QED
  BY <1>1, <1>3, Bookkeeping, FeasibleStep, PTL DEF Spec
=============================================================================
