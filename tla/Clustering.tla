----------------------------- MODULE Clustering -----------------------------
(***************************************************************************)
(* What packing promises: one cluster after another is filled with whole   *)
(* molecules, a cluster may be emptied and filled once more, and the end,  *)
(* which always comes, is either an error or a partition of the atoms into *)
(* clusters (check_clustering in vpr/src/pack/cluster.cpp).  A finished    *)
(* cluster never changes.                                                  *)
(***************************************************************************)
EXTENDS Integers, Sequences

CONSTANTS Atom, Molecule, AtomsOf

VARIABLES
  cluster,  \* [Atom -> Nat]: the cluster of an atom, 0 when it has none
  built,    \* the number of finished clusters; the one being filled is next
  undone,   \* the cluster being filled has been emptied once
  outcome   \* "packing", "done" or "failed"

vars == <<cluster, built, undone, outcome>>

Atoms(m) == {AtomsOf[m][i] : i \in DOMAIN AtomsOf[m]}
InOpen == {a \in Atom : cluster[a] = built + 1}

Init == /\ cluster = [a \in Atom |-> 0]
        /\ built = 0
        /\ undone = FALSE
        /\ outcome = "packing"

Pack(m) == /\ \A a \in Atoms(m) : cluster[a] = 0
           /\ cluster' = [a \in Atom |-> IF a \in Atoms(m) THEN built + 1
                                         ELSE cluster[a]]
           /\ UNCHANGED <<built, undone, outcome>>

Undo == /\ ~undone /\ InOpen # {}
        /\ cluster' = [a \in Atom |-> IF a \in InOpen THEN 0 ELSE cluster[a]]
        /\ undone' = TRUE
        /\ UNCHANGED <<built, outcome>>

Close == /\ InOpen # {}
         /\ built' = built + 1
         /\ undone' = FALSE
         /\ UNCHANGED <<cluster, outcome>>

Finish == /\ InOpen = {} /\ ~undone
          /\ \A a \in Atom : cluster[a] # 0
          /\ outcome' = "done"
          /\ UNCHANGED <<cluster, built, undone>>

GiveUp == /\ InOpen = {}
          /\ outcome' = "failed"
          /\ UNCHANGED <<cluster, built, undone>>

Next == /\ outcome = "packing"
        /\ \/ \E m \in Molecule : Pack(m)
           \/ Undo
           \/ Close
           \/ Finish
           \/ GiveUp

Spec == Init /\ [][Next]_vars /\ <>(outcome # "packing")
=============================================================================
