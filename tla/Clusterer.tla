------------------------------ MODULE Clusterer ------------------------------
(***************************************************************************)
(* The packer of VPR (vpr/src/pack/cluster.cpp, cluster_placement.cpp): it *)
(* fills one cluster at a time, starting from a seed, with molecules,      *)
(* groups of atoms that must stay together.                                *)
(*                                                                         *)
(* A cluster is a tree of physical blocks (pbs).  A pb that holds others   *)
(* is in one of its modes, and its children are made, for that mode, when  *)
(* the first atom below them is placed.  The atoms of a molecule are       *)
(* placed one by one; when one is refused, or the molecule as a whole does *)
(* not fit the pins or cannot be routed, all are taken back, with the pbs  *)
(* that were made for them.  A cluster filled without routing it that then *)
(* cannot be routed is emptied and filled again, routing every molecule.   *)
(*                                                                         *)
(* Connectivity and costs are abstracted: any molecule may be attractive   *)
(* and any primitive cheapest; pins and wires run out only in the types in *)
(* Congested.                                                              *)
(***************************************************************************)
EXTENDS Integers, Sequences, FiniteSets, FiniteSetsExt, SequencesExt

CONSTANTS
  Atom,             \* the atoms of the netlist
  Molecule,         \* the molecules, a partition of the atoms
  AtomsOf,          \* [Molecule -> Seq(Atom)]: atom_block_ids
  Root,             \* [Molecule -> Nat]: the place of its root atom in it
  Sites,            \* [Molecule -> sets of sequences of primitives]: where its
                    \*   atoms go, for each primitive its root can take
  ChainStarts,      \* [Molecule -> sets of primitives its root may take: the
                    \*   start of the chain when it comes from another cluster
  Type,             \* the cluster types, the roots of the trees
  Candidates,       \* [Molecule -> SUBSET Type]
  Pb,               \* the nodes of the trees below their roots
  Above,            \* [Pb \cup Type -> sequences of them]: what is met on the
                    \*   way up, from the parent to the root
  ModeOf,           \* [Pb -> Nat]: the mode of the parent in which it exists
  Kind,             \* [Primitive -> its pb_type]
  NumModes,         \* [Type -> Nat]: the modes of a tree's root
  Congested,        \* the types whose pins or wires may run out
  AllowUnrelated    \* allow_unrelated_clustering

None == "none"
NotValid == {None}  \* NOT_VALID: the candidates are to be looked for

AllPbs == Pb \cup Type
Parent(p) == Head(Above[p])
Primitive == {p \in Pb : \A q \in Pb : Parent(q) # p}
Below == [n \in AllPbs |-> {p \in Pb : n \in Range(Above[p])}]
\* The mode in which n has the child that is p or above p.
ModeToward == [n \in AllPbs |-> [p \in Below[n] |->
                 ModeOf[CHOOSE c \in {p} \cup Range(Above[p]) :
                          c \in Pb /\ Parent(c) = n]]]
TypeOf(p) == Last(Above[p])
PrimitivesOf(t) == Below[t] \cap Primitive
KindsOf(t) == {Kind[p] : p \in PrimitivesOf(t)}
Atoms(m) == Range(AtomsOf[m])
\* primitive_type_feasible: the kinds of primitives that can hold an atom.
Hosts == [a \in Atom |->
            {Kind[p] : p \in {p \in Primitive :
               \E m \in Molecule : \E s \in Sites[m] : \E i \in DOMAIN s :
                 AtomsOf[m][i] = a /\ Kind[s[i]] = Kind[p]}}]

ASSUME NetlistAssumption ==
  /\ IsFiniteSet(Atom) /\ None \notin Molecule
  /\ AtomsOf \in [Molecule -> Seq(Atom)]
  /\ Candidates \in [Molecule -> SUBSET Type]
  /\ \A a \in Atom : \E m \in Molecule : a \in Atoms(m)
  /\ \A m, o \in Molecule : m # o => Atoms(m) \cap Atoms(o) = {}
  /\ \A m \in Molecule : /\ IsInjective(AtomsOf[m])
                         /\ Root[m] \in DOMAIN AtomsOf[m]
                         /\ Candidates[m] # {}
ASSUME TreeAssumption ==
  /\ IsFiniteSet(Pb) /\ Pb \cap Type = {} /\ None \notin Pb
  /\ ModeOf \in [Pb -> Nat]
  /\ Above \in [AllPbs -> Seq(AllPbs)]
  /\ \A t \in Type : Above[t] = <<>>
  /\ \A p \in Pb : Above[p] # <<>> /\ Tail(Above[p]) = Above[Parent(p)]
  /\ \A m \in Molecule : \A s \in Sites[m] :
       /\ s \in [DOMAIN AtomsOf[m] -> Primitive]
       /\ \A i, j \in DOMAIN s : TypeOf(s[i]) = TypeOf(s[j])
       /\ \A r \in Sites[m] : r[Root[m]] = s[Root[m]] => r = s

VARIABLES
  pc,       \* where do_clustering and the functions it calls are
  stage,    \* 1: E_DETAILED_ROUTE_AT_END_ONLY, 2: ..._FOR_EACH_ATOM
  seen,     \* the atoms behind seedindex that were seeds
  seed,     \* istart
  left,     \* candidate types not tried yet
  type,     \* the type of the cluster being filled
  topMode,  \* the mode of its root
  opened,   \* the cluster is in the clustered netlist
  mol,      \* the molecule being packed
  site,     \* primitives_list
  placed,   \* failed_location: how many of its atoms have been placed
  at,       \* [Atom -> Primitive \cup {None}]: atom_pb
  clb,      \* [Atom -> Nat]: atom_clb, 0 when it has none
  valid,    \* the molecules whose valid flag is set
  tree,     \* the pbs of the cluster being filled
  router,   \* router_data
  queue,    \* [Type -> its cluster_placement_stats]
  usable,   \* the primitives whose valid flag is set
  search,   \* what pb_stats keeps for get_highest_gain_molecule
  intra,    \* intra_lb_routing: the placement each finished cluster is routed for
  used      \* [Type -> Nat]: num_used_type_instances

attempt == <<mol, site, placed>>
cluster == <<type, topMode, opened>>
loop == <<stage, seen, seed>>
result == <<intra, used>>
vars == <<pc, loop, left, cluster, attempt, at, clb, valid, tree, router,
          queue, usable, search, result>>

NumClb == Len(intra)
Open == NumClb + 1        \* the index of the cluster being filled
Unclustered == {a \in Atom : clb[a] = 0}
InOpen == {a \in Atom : clb[a] = Open}
Placement(as) == {<<a, at[a]>> : a \in as}

NoKids == -1
EmptyTree == [mode |-> [n \in AllPbs |-> NoKids],   \* child_pbs, made for a mode
              count |-> [n \in AllPbs |-> 0],       \* num_child_blocks_in_pb
              named |-> {}]                         \* primitives with a name
NewRouter == [added |-> {},                         \* atoms_added
              mode |-> [n \in AllPbs |-> 0],        \* lb_rr_node_stats[].mode
              saved |-> {}]                         \* what saved_lb_nets routes
NewSearch == [list |-> NotValid,                    \* feasible_blocks
              fanout |-> FALSE,                     \* tie_break_high_fanout_net is set
              transitive |-> "unexplored",          \* transitive_fanout_candidates
              attempts |-> 0]                       \* num_unrelated_clustering_attempts

-----------------------------------------------------------------------------
(***************************************************************************)
(* The queues of primitives of a type: one bucket for each kind, and lists *)
(* of the primitives that are tried, in flight or no longer usable.        *)
(***************************************************************************)

NewQueue(t) == [bucket |-> [i \in 1..Cardinality(KindsOf(t)) |->
                              {p \in PrimitivesOf(t) :
                                 Kind[p] = SetToSeq(KindsOf(t))[i]}],
                tried |-> {}, flight |-> {}, invalid |-> {}, current |-> None]

Holding(q, kinds) ==
  {i \in DOMAIN q.bucket : \E p \in q.bucket[i] : Kind[p] \in kinds}

\* requeue_primitive: back to the bucket of its kind, or to an empty one.
Requeue(p, q) ==
  LET empty == {i \in DOMAIN q.bucket : q.bucket[i] = {}}
      into == IF Holding(q, {Kind[p]}) # {} THEN Holding(q, {Kind[p]})
              ELSE {Max(empty)}
  IN [q EXCEPT !.bucket = [i \in DOMAIN @ |->
                             IF i \in into THEN @[i] \cup {p} ELSE @[i]]]

RequeueAll(ps, q) ==
  LET order == SetToSeq(ps)
      done[k \in 0..Len(order)] ==
        IF k = 0 THEN q ELSE Requeue(order[k], done[k - 1])
  IN  done[Len(order)]

Flush(q) == [RequeueAll(q.tried \cup q.flight, q)
               EXCEPT !.tried = {}, !.flight = {}]

\* Unusable primitives are moved out of the buckets when they are met.
Sweep(q, as) ==
  LET swept == Holding(q, UNION {Hosts[a] : a \in as})
  IN [q EXCEPT !.bucket = [i \in DOMAIN @ |->
                             IF i \in swept THEN @[i] \cap usable ELSE @[i]],
               !.invalid = @ \cup UNION {q.bucket[i] \ usable : i \in swept}]

\* exists_free_primitive_for_atom_block, for all atoms of a molecule.
HasRoom(q, m) ==
  \A a \in Atoms(m) :
    \/ \E p \in q.flight : Kind[p] \in Hosts[a]
    \/ \E i \in Holding(q, Hosts[a]) : q.bucket[i] \cap usable # {}

InMode(t, m) == {p \in PrimitivesOf(t) : ModeToward[t][p] = m}

\* reset_cluster_placement_stats, then set_mode_cluster_placement_stats.
StartMode(t, m) ==
  LET flushed == Flush(queue[t])
      full == [RequeueAll(flushed.invalid, flushed)
                 EXCEPT !.invalid = {}, !.current = None]
  IN /\ \A i \in DOMAIN full.bucket : full.bucket[i] # {}
     /\ topMode' = m
     /\ queue' = [queue EXCEPT ![t] = full]
     /\ usable' = (usable \ PrimitivesOf(t))
                    \cup ((UNION Range(full.bucket)) \cap InMode(t, m))

BlockedBy_LaterModes == [p \in Primitive |->
  {p} \cup {r \in PrimitivesOf(TypeOf(p)) :
              \E n \in Range(Above[p]) \cap Range(Above[r]) :
                ModeToward[n][r] > ModeToward[n][p]}]
\* commit_primitive: the primitive is taken, and with it every primitive in
\* another mode of a pb above it.
BlockedBy == [p \in Primitive |->
  {p} \cup {r \in PrimitivesOf(TypeOf(p)) :
              \E n \in Range(Above[p]) \cap Range(Above[r]) :
                ModeToward[n][r] # ModeToward[n][p]}]

-----------------------------------------------------------------------------
(***************************************************************************)
(* Taking pbs back.  The state of a revert is a record of the variables it *)
(* changes; alive is lost when it would use a pb that has been freed.      *)
(***************************************************************************)

Undoing == [tree |-> tree, router |-> router, at |-> at, clb |-> clb,
            valid |-> valid, alive |-> TRUE]

\* The atoms in named primitives at or below a pb of the cluster being filled.
Inside(s, n) == {a \in Atom : /\ s.clb[a] = Open
                              /\ s.at[a] \in s.tree.named \cap ({n} \cup Below[n])}
Cleared(s, as) ==
  [s EXCEPT !.at = [a \in Atom |-> IF a \in as THEN None ELSE @[a]],
            !.clb = [a \in Atom |-> IF a \in as THEN 0 ELSE @[a]]]

Revalid_CheckedBeforeClearing(s, n) ==
  [Cleared(s, Inside(s, n)) EXCEPT
     !.valid = @ \cup {m \in Molecule : /\ Atoms(m) \cap Inside(s, n) # {}
                                       /\ \A a \in Atoms(m) : s.clb[a] = 0}]
\* revalid_molecules
Revalid(s, n) ==
  LET c == Cleared(s, Inside(s, n))
  IN [c EXCEPT !.valid = @ \cup {m \in Molecule :
                                   /\ Atoms(m) \cap Inside(s, n) # {}
                                   /\ \A a \in Atoms(m) : c.clb[a] = 0}]

\* free_pb
Free(s, n) ==
  LET gone == {n} \cup Below[n]
  IN [Cleared(s, Inside(s, n)) EXCEPT
        !.tree = [mode |-> [k \in AllPbs |-> IF k \in gone THEN NoKids
                                             ELSE @.mode[k]],
                  count |-> [k \in AllPbs |-> IF k \in gone THEN 0
                                              ELSE @.count[k]],
                  named |-> @.named \ gone]]

\* A pb made for the molecule only is freed, but not the root of the tree.
Release(s, n) ==
  IF s.tree.mode[n] # NoKids /\ s.tree.count[n] = 0
  THEN LET r == [s EXCEPT !.router.mode[n] = 0]
       IN IF n \in Type THEN r ELSE Free(Revalid(r, n), n)
  ELSE s

\* From the parent of a primitive up to the root
ReleaseAll(s, path) ==
  LET upTo[k \in 0..Len(path)] ==
        IF k = 0 THEN s ELSE Release(upTo[k - 1], path[k])
  IN  upTo[Len(path)]

\* revert_place_atom_block
RevertAtom(s, a) ==
  LET p == s.at[a]
      c == Cleared(s, {a})
  IN IF p = None THEN c
     ELSE ReleaseAll(Free([c EXCEPT !.alive = @ /\ s.tree.mode[Parent(p)] # NoKids],
                          p),
                     Above[p])

\* From the first atom of a molecule on
RevertAll(s, as) ==
  LET upTo[k \in 0..Len(as)] ==
        IF k = 0 THEN s ELSE RevertAtom(upTo[k - 1], as[k])
  IN  upTo[Len(as)]

Become(s) == /\ s.alive
             /\ tree' = s.tree /\ router' = s.router
             /\ at' = s.at /\ clb' = s.clb
             /\ valid' = s.valid

-----------------------------------------------------------------------------
Init ==
  /\ pc = "seed" /\ stage = 1 /\ seen = {} /\ seed = None
  /\ left = {} /\ type = None /\ topMode = 0 /\ opened = FALSE
  /\ mol = None /\ site = <<>> /\ placed = 0
  /\ at = [a \in Atom |-> None]
  /\ clb = [a \in Atom |-> 0]
  /\ valid = Molecule
  /\ tree = EmptyTree
  /\ router = NewRouter
  /\ queue = [t \in Type |-> NewQueue(t)]
  /\ usable = Primitive
  /\ search = NewSearch
  /\ intra = <<>>
  /\ used = [t \in Type |-> 0]

\* get_highest_gain_seed_molecule: an atom that is in no cluster starts one.
NextSeed ==
  /\ pc = "seed"
  /\ \E a \in Unclustered \ seen :
       /\ seen' = seen \cup {a}
       /\ \E m \in valid : a \in Atoms(m) /\ seed' = m
  /\ stage' = 1
  /\ left' = Candidates[seed']
  /\ pc' = "type"
  /\ UNCHANGED <<cluster, attempt, at, clb, valid, tree, router, queue, usable,
                 search, result>>

Finish ==
  /\ pc = "seed"
  /\ Unclustered \subseteq seen
  /\ pc' = "done"
  /\ UNCHANGED <<loop, left, cluster, attempt, at, clb, valid, tree, router,
                 queue, usable, search, result>>

(***************************************************************************)
(* start_new_cluster: the seed is tried in every candidate type, in every  *)
(* mode of its root.                                                       *)
(***************************************************************************)
NextType ==
  /\ pc = "type"
  /\ \E t \in left : /\ type' = t
                     /\ left' = left \ {t}
                     /\ StartMode(t, 0)
  /\ tree' = EmptyTree
  /\ router' = NewRouter
  /\ search' = NewSearch
  /\ mol' = seed /\ site' = <<>> /\ placed' = 0
  /\ pc' = "find"
  /\ UNCHANGED <<loop, opened, at, clb, valid, result>>

NextMode ==
  /\ pc = "mode"
  /\ topMode + 1 < NumModes[type]
  /\ StartMode(type, topMode + 1)
  /\ pc' = "find"
  /\ UNCHANGED <<loop, left, type, opened, attempt, at, clb, valid, tree,
                 router, search, result>>

NoMode ==
  /\ pc = "mode"
  /\ topMode + 1 = NumModes[type]
  /\ Become(Free(Undoing, type))
  /\ pc' = "type"
  /\ UNCHANGED <<loop, left, cluster, attempt, queue, usable, search, result>>

NoType ==
  /\ pc = "type"
  /\ left = {}
  /\ pc' = "failed"
  /\ UNCHANGED <<loop, left, cluster, attempt, at, clb, valid, tree, router,
                 queue, usable, search, result>>

(***************************************************************************)
(* try_pack_molecule.                                                      *)
(***************************************************************************)

\* get_next_primitive_list up to the search: a new molecule gets all primitives
\* back, the last site of the same molecule is put aside.
Prepared ==
  LET q == queue[type]
      next == IF q.current # mol THEN [Flush(q) EXCEPT !.current = mol]
              ELSE [q EXCEPT !.tried = @ \cup q.flight, !.flight = {}]
  IN Sweep(next, {AtomsOf[mol][Root[mol]]})

SitesIn(q) == {s \in Sites[mol] : /\ s[Root[mol]] \in UNION Range(q.bucket)
                                  /\ Range(s) \subseteq usable}

FindSite ==
  /\ pc = "find"
  /\ \E s \in SitesIn(Prepared) :
       /\ site' = s
       /\ queue' = [queue EXCEPT ![type] =
                      [Prepared EXCEPT
                         !.flight = {s[Root[mol]]},
                         !.bucket = [i \in DOMAIN @ |-> @[i] \ {s[Root[mol]]}]]]
  /\ placed' = 0
  /\ pc' = "place"
  /\ UNCHANGED <<loop, left, cluster, mol, at, clb, valid, tree, router, usable,
                 search, result>>

NoSite ==
  /\ pc = "find"
  /\ SitesIn(Prepared) = {}
  /\ queue' = [queue EXCEPT ![type] = Prepared]
  /\ site' = <<>> /\ placed' = 0
  /\ pc' = IF opened THEN "pick" ELSE "mode"
  /\ UNCHANGED <<loop, left, cluster, mol, at, clb, valid, tree, router, usable,
                 search, result>>

\* try_place_atom_block_rec; the conjuncts that come first are its assertions,
\* and that of add_atom_as_target.
PlaceAtom ==
  /\ pc = "place"
  /\ LET a == AtomsOf[mol][placed + 1]
         p == site[placed + 1]
         path == Range(Above[p])
         new == {n \in path : tree.mode[n] = NoKids}
         refused == placed + 1 = Root[mol] /\ p \notin ChainStarts[mol]
     IN /\ \A n \in path \ new : tree.mode[n] = ModeToward[n][p]
        /\ topMode = ModeToward[type][p]
        /\ at[a] = None /\ clb[a] = 0
        /\ \A b \in InOpen : at[b] # p
        /\ a \notin router.added
        /\ tree' = [tree EXCEPT
                      !.mode = [n \in AllPbs |->
                                  IF n \in new THEN ModeToward[n][p] ELSE @[n]],
                      !.named = IF refused THEN @ ELSE @ \cup {p}]
        /\ router' = [router EXCEPT
                        !.added = @ \cup {a},
                        !.mode = [n \in AllPbs |->
                                    IF n \in new THEN ModeToward[n][p]
                                    ELSE @[n]]]
        /\ at' = [at EXCEPT ![a] = p]
        /\ clb' = [clb EXCEPT ![a] = Open]
        /\ pc' = IF refused THEN "revert"
                 ELSE IF placed + 1 = Len(AtomsOf[mol]) THEN "check" ELSE "place"
  /\ placed' = placed + 1
  /\ UNCHANGED <<loop, left, cluster, mol, site, valid, queue, usable, search,
                 result>>

\* The pins do not suffice or, in the second stage, the cluster is unroutable.
Reject ==
  /\ pc = "check"
  /\ type \in Congested
  /\ pc' = "revert"
  /\ UNCHANGED <<loop, left, cluster, attempt, at, clb, valid, tree, router,
                 queue, usable, search, result>>

RemovedFromRouter(s) ==
  [s EXCEPT !.router.added = @ \ {AtomsOf[mol][i] : i \in 1..placed}]

Revert ==
  /\ pc = "revert"
  /\ Become(RevertAll(RemovedFromRouter(Undoing), SubSeq(AtomsOf[mol], 1, placed)))
  /\ pc' = "find"
  /\ UNCHANGED <<loop, left, cluster, attempt, queue, usable, search, result>>

\* update_cluster_stats
Counted(count) ==
  [n \in AllPbs |->
     count[n] + Cardinality({i \in DOMAIN site : n \in Range(Above[site[i]])})]

\* The molecule is in; a seed also makes its cluster a block of the netlist.
Accept ==
  /\ pc = "check"
  /\ valid' = {m \in valid : Atoms(m) \cap Atoms(mol) = {}}
  /\ Range(site) \subseteq usable
  /\ usable' = usable \ UNION {BlockedBy[p] : p \in Range(site)}
  /\ queue' = [queue EXCEPT ![type] = Flush(@)]
  /\ router' = [router EXCEPT !.saved = IF stage = 2 THEN Placement(InOpen) ELSE @]
  /\ tree' = [tree EXCEPT !.count = Counted(@)]
  /\ opened' = TRUE
  /\ used' = IF opened THEN used ELSE [used EXCEPT ![type] = @ + 1]
  /\ \E fanout \in BOOLEAN :
       search' = [search EXCEPT !.list = NotValid, !.attempts = 0,
                                !.fanout = fanout \/ search.fanout]
  /\ pc' = "pick"
  /\ UNCHANGED <<loop, left, type, topMode, attempt, at, clb, intra>>

(***************************************************************************)
(* get_molecule_for_cluster: the candidates are looked for in three ways,  *)
(* each when the one before has left none, and used up one by one.         *)
(***************************************************************************)

\* The molecules, among those looked at, that are worth trying.
LookAt(q, ms) == {m \in ms : HasRoom(q, m)}
AllOpen(ms) == \A m \in ms : Atoms(m) \subseteq Unclustered
Looked(q, ms) == Sweep(q, UNION {Atoms(m) : m \in ms})

LookAtConnected ==
  /\ pc = "pick"
  /\ \/ /\ search.list = NotValid
        /\ \E ms \in SUBSET valid :
             /\ AllOpen(ms)
             /\ search' = [search EXCEPT
                             !.list = LookAt(queue[type], ms),
                             !.transitive = IF @ = "over" THEN "unexplored" ELSE @]
             /\ queue' = [queue EXCEPT ![type] = Looked(@, ms)]
     \/ /\ search.list # NotValid
        /\ UNCHANGED <<search, queue>>
  /\ pc' = "fanout"
  /\ UNCHANGED <<loop, left, cluster, attempt, at, clb, valid, tree, router,
                 usable, result>>

LookAtFanout ==
  /\ pc = "fanout"
  /\ \/ /\ search.list = {} /\ search.fanout
        /\ \E ms \in SUBSET valid :
             /\ AllOpen(ms)
             /\ search' = [search EXCEPT !.list = LookAt(Flush(queue[type]), ms),
                                         !.fanout = FALSE]
             /\ queue' = [queue EXCEPT ![type] = Looked(Flush(@), ms)]
     \/ /\ search.list # {} \/ ~search.fanout
        /\ UNCHANGED <<search, queue>>
  /\ pc' = "transitive"
  /\ UNCHANGED <<loop, left, cluster, attempt, at, clb, valid, tree, router,
                 usable, result>>

LookAtTransitive ==
  /\ pc = "transitive"
  /\ \/ /\ search.list = {} /\ ~search.fanout /\ search.transitive = "unexplored"
        /\ \E ms \in SUBSET valid :
             /\ AllOpen(ms)
             /\ search' = [search EXCEPT !.list = LookAt(queue[type], ms),
                                         !.transitive = "explored"]
             /\ queue' = [queue EXCEPT ![type] = Looked(@, ms)]
     \/ /\ search.list = {} /\ ~search.fanout /\ search.transitive = "explored"
        /\ search' = [search EXCEPT !.transitive = "over"]
        /\ UNCHANGED queue
     \/ /\ search.list # {} \/ search.fanout \/ search.transitive = "over"
        /\ UNCHANGED <<search, queue>>
  /\ pc' = "choose"
  /\ UNCHANGED <<loop, left, cluster, attempt, at, clb, valid, tree, router,
                 usable, result>>

\* The loop of do_clustering ends when there is no molecule, or only the last
\* one again.
TryNext(m) == /\ pc' = IF m \in {None, mol} THEN "end" ELSE "find"
              /\ mol' = IF m = None THEN mol ELSE m
              /\ UNCHANGED <<loop, left, cluster, site, placed, at, clb, valid,
                             tree, router, usable, result>>

ChooseCandidate ==
  /\ pc = "choose"
  /\ \E m \in search.list :
       /\ m \in valid
       /\ search' = [search EXCEPT !.list = @ \ {m}, !.attempts = 0]
       /\ TryNext(m)
  /\ UNCHANGED queue

\* get_free_molecule_with_most_ext_inputs_for_cluster
ChooseUnrelated ==
  /\ pc = "choose"
  /\ search.list = {} /\ AllowUnrelated /\ search.attempts = 0
  /\ search' = [search EXCEPT !.attempts = 1]
  /\ \E ms \in SUBSET valid :
       /\ queue' = [queue EXCEPT ![type] = Looked(@, ms)]
       /\ IF LookAt(queue[type], ms) = {} THEN TryNext(None)
          ELSE \E m \in LookAt(queue[type], ms) : TryNext(m)

ChooseNone ==
  /\ pc = "choose"
  /\ search.list = {} /\ ~(AllowUnrelated /\ search.attempts = 0)
  /\ TryNext(None)
  /\ UNCHANGED <<search, queue>>

(***************************************************************************)
(* A cluster that is full is legal when it was routed on the way, or is    *)
(* routed now.                                                             *)
(***************************************************************************)
CloseCluster ==
  /\ pc = "end"
  /\ intra' = Append(intra, IF stage = 1 THEN Placement(InOpen) ELSE router.saved)
  /\ opened' = FALSE
  /\ tree' = EmptyTree
  /\ router' = NewRouter
  /\ pc' = "seed"
  /\ UNCHANGED <<loop, left, type, topMode, attempt, at, clb, valid, queue,
                 usable, search, used>>

UndoCluster_EitherStage ==
  /\ pc = "end"
  /\ type \in Congested
  /\ used' = [used EXCEPT ![type] = @ - 1]
  /\ Become([Free(Revalid(Undoing, type), type) EXCEPT !.router = NewRouter])
  /\ opened' = FALSE
  /\ stage' = 2
  /\ left' = Candidates[seed]
  /\ pc' = "type"
  /\ UNCHANGED <<seen, seed, type, topMode, attempt, queue, usable, search,
                 intra>>
UndoCluster ==
  /\ pc = "end"
  /\ stage = 1
  /\ type \in Congested
  /\ used' = [used EXCEPT ![type] = @ - 1]
  /\ Become([Free(Revalid(Undoing, type), type) EXCEPT !.router = NewRouter])
  /\ opened' = FALSE
  /\ stage' = 2
  /\ left' = Candidates[seed]
  /\ pc' = "type"
  /\ UNCHANGED <<seen, seed, type, topMode, attempt, queue, usable, search,
                 intra>>

Terminated == pc \in {"done", "failed"} /\ UNCHANGED vars

PackerStep ==
  \/ NextSeed \/ Finish \/ NextType \/ NextMode \/ NoMode \/ NoType
  \/ FindSite \/ NoSite \/ PlaceAtom \/ Reject \/ Revert \/ Accept
  \/ LookAtConnected \/ LookAtFanout \/ LookAtTransitive
  \/ ChooseCandidate \/ ChooseUnrelated \/ ChooseNone
  \/ CloseCluster \/ UndoCluster

Next == PackerStep \/ Terminated

\* The packer is a sequential program: it takes step after step until it is
\* done.  (This is WF_vars(PackerStep), written without ENABLED: before it is
\* done the packer always has a step, as the check for deadlock shows.)
Fairness == <>[](pc \in {"done", "failed"}) \/ []<><<PackerStep>>_vars

Spec == Init /\ [][Next]_vars /\ Fairness

-----------------------------------------------------------------------------
(***************************************************************************)
(* Properties.                                                             *)
(***************************************************************************)

\* No molecule is halfway in.
Resting == pc \notin {"place", "check", "revert"}

\* The primitives of the cluster being filled that a further atom may take.
Reachable(p) ==
  /\ \A a \in InOpen : at[a] # p
  /\ ModeToward[type][p] = topMode
  /\ \A n \in Range(Above[p]) : tree.mode[n] \in {NoKids, ModeToward[n][p]}

\* However often primitives are tried, put aside, requeued and invalidated,
\* each is in exactly one of the lists of its type; a bucket holds primitives
\* of one kind and a kind has one bucket, so that requeue_primitive cannot put
\* a primitive into two lists.  Between two attempts the valid flags, which
\* commit_primitive clears and a failed attempt leaves alone, are set for just
\* the primitives that the modes of the pbs still allow.
PrimitivesTracked ==
  /\ \A t \in Type :
       LET q == queue[t]
           lists == [i \in DOMAIN q.bucket \cup {0, -1, -2} |->
                       CASE i = 0 -> q.tried [] i = -1 -> q.flight
                         [] i = -2 -> q.invalid [] OTHER -> q.bucket[i]]
       IN /\ UNION Range(lists) = PrimitivesOf(t)
          /\ \A i, j \in DOMAIN lists : i # j => lists[i] \cap lists[j] = {}
          /\ \A i, j \in DOMAIN q.bucket : \A p \in q.bucket[i], r \in q.bucket[j] :
               Kind[p] = Kind[r] <=> i = j
          /\ Cardinality(q.flight) <= 1
          /\ q.invalid \cap usable = {}
  /\ Resting /\ opened =>
       usable \cap PrimitivesOf(type) = {p \in PrimitivesOf(type) : Reachable(p)}

\* Whatever failed on the way, between two attempts nothing of it is left: the
\* pbs of the open cluster are those above its atoms, in the modes these need,
\* the router knows the same atoms and modes, and a molecule is valid, as every
\* listed candidate must be, if and only if none of its atoms is in a cluster.
\* The routing that is kept is that of the placement it will be written with,
\* though in the second stage later molecules may have been routed in vain, and
\* the counts of clusters by type are those of the clusters there are.
NothingLeftBehind ==
  Resting =>
    /\ at \in [Atom -> Primitive \cup {None}]
    /\ \A a \in Atom : at[a] = None <=> clb[a] = 0
    /\ \A a, b \in Atom : a # b /\ clb[a] # 0 => <<clb[a], at[a]>> # <<clb[b], at[b]>>
    /\ valid = {m \in Molecule : Atoms(m) \subseteq Unclustered}
    /\ search.list # NotValid => search.list \subseteq valid
    /\ opened <=> InOpen # {}
    /\ router.added = InOpen
    /\ opened =>
         /\ tree.named = {at[a] : a \in InOpen}
         /\ \A n \in AllPbs :
              LET in == {a \in InOpen : n \in Range(Above[at[a]])}
              IN /\ tree.count[n] = Cardinality(in)
                 /\ tree.mode[n] # NoKids <=> in # {}
                 /\ in # {} => \/ router.mode[n] = tree.mode[n]
                               \/ n = type /\ router.mode[n] = 0
                 /\ \A a \in in : tree.mode[n] = ModeToward[n][at[a]]
         /\ stage = 2 => router.saved = Placement(InOpen)
    /\ \A c \in 1..NumClb : intra[c] = Placement({a \in Atom : clb[a] = c})
    /\ \A t \in Type :
         used[t] = Cardinality({clb[a] : a \in {b \in Atom : /\ clb[b] # 0
                                                              /\ TypeOf(at[b]) = t}})

\* Packing fills clusters with whole molecules, never touches a finished one,
\* empties one at most once before it is finished, and ends: with an error, or
\* with every atom in exactly one cluster, though seeds are only looked for
\* behind seedindex.
Packed(a) == IF ~Resting /\ a \in Atoms(mol) THEN 0 ELSE clb[a]
Promise == INSTANCE Clustering WITH
             cluster <- [a \in Atom |-> Packed(a)],
             built <- NumClb,
             undone <- stage = 2 /\ pc \notin {"seed", "done"},
             outcome <- IF pc \in {"done", "failed"} THEN pc ELSE "packing"
PacksEveryAtom == Promise!Spec
=============================================================================
