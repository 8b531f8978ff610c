-------------------------- MODULE ClustererProofs --------------------------
(***************************************************************************)
(* Safety of the packer for every architecture and every netlist: what a   *)
(* failed attempt leaves behind, the lists of primitives, and the clusters *)
(* that come out.                                                          *)
(***************************************************************************)
EXTENDS Clusterer, Induction, FiniteSetTheorems, SequenceTheorems, TLAPS

-----------------------------------------------------------------------------
(* The trees of physical blocks.                                           *)

Anc(n) == Range(Above[n])
Height(n) == Len(Above[n])

\* The way up from a pb is its parent followed by the way up from there.
LEMMA ParentFirst ==
  ASSUME NEW p \in Pb
  PROVE  /\ Above[p] \in Seq(AllPbs) /\ Height(p) \in Nat \ {0}
         /\ Parent(p) \in AllPbs /\ Parent(p) = Above[p][1]
         /\ Height(Parent(p)) = Height(p) - 1
         /\ \A i \in 1..(Height(p) - 1) : Above[Parent(p)][i] = Above[p][i + 1]
<1>1. Above[p] \in Seq(AllPbs) /\ Above[p] # <<>> /\ Tail(Above[p]) = Above[Parent(p)]
  BY TreeAssumption DEF AllPbs
<1>2. /\ Head(Above[p]) \in AllPbs /\ Len(Tail(Above[p])) = Len(Above[p]) - 1
      /\ \A i \in 1..(Len(Above[p]) - 1) : Tail(Above[p])[i] = Above[p][i + 1]
  BY <1>1, HeadTailProperties
<1>3. Len(Above[p]) \in Nat \ {0} /\ Head(Above[p]) = Above[p][1]
  BY <1>1, EmptySeq, LenProperties
<1> QED BY <1>1, <1>2, <1>3 DEF Height, Parent

LEMMA PathTypes ==
  ASSUME NEW n \in AllPbs
  PROVE  /\ Above[n] \in Seq(AllPbs) /\ Height(n) \in Nat /\ DOMAIN Above[n] = 1..Height(n)
         /\ Anc(n) \subseteq AllPbs
         /\ \A i \in 1..Height(n) : Above[n][i] \in AllPbs /\ Above[n][i] \in Anc(n)
         /\ \A m \in Anc(n) : \E i \in 1..Height(n) : m = Above[n][i]
         /\ n \in Type => Height(n) = 0 /\ Anc(n) = {}
         /\ Height(n) # 0 => n \in Pb
<1>1. Above[n] \in Seq(AllPbs)
  BY TreeAssumption
<1>2. Height(n) \in Nat /\ DOMAIN Above[n] = 1..Height(n)
  BY <1>1, LenProperties DEF Height
<1>3. \A i \in 1..Height(n) : Above[n][i] \in AllPbs
  BY <1>1, <1>2, ElementOfSeq DEF Height
<1>4. n \in Type => Height(n) = 0
  BY TreeAssumption, EmptySeq DEF Height
<1>5. n \in Type \/ n \in Pb
  BY DEF AllPbs
<1> QED BY <1>1, <1>2, <1>3, <1>4, <1>5 DEF Anc, Range

\* The way up from what is met on the way up is the rest of the way.
Suffix(n, i) ==
  /\ Height(Above[n][i]) = Height(n) - i
  /\ \A j \in 1..(Height(n) - i) : Above[Above[n][i]][j] = Above[n][i + j]

LEMMA WayUp ==
  ASSUME NEW n \in AllPbs, NEW i \in 1..Height(n)
  PROVE  Suffix(n, i)
<1> DEFINE S == {k \in Nat : k + 1 <= Height(n) => Suffix(n, k + 1)}
<1>1. Height(n) \in Nat /\ n \in Pb
  BY PathTypes
<1>2. 0 \in S
  <2>1. Suffix(n, 1)
    BY <1>1, ParentFirst DEF Suffix
  <2> QED BY <2>1
<1>3. \A k \in Nat : k \in S => k + 1 \in S
  <2> SUFFICES ASSUME NEW k \in Nat, k \in S PROVE k + 1 \in S
    OBVIOUS
  <2> SUFFICES ASSUME (k + 1) + 1 <= Height(n) PROVE Suffix(n, (k + 1) + 1)
    OBVIOUS
  <2> DEFINE m == Above[n][k + 1]
  <2>1. Suffix(n, k + 1) /\ k + 1 \in 1..Height(n)
    BY <1>1
  <2>2. m \in AllPbs /\ Height(m) = Height(n) - (k + 1) /\ Height(m) # 0
    BY <1>1, <2>1, PathTypes DEF Suffix
  <2>3. m \in Pb
    BY <2>2, PathTypes
  <2>4. Parent(m) = Above[n][(k + 1) + 1]
    <3>1. Parent(m) = Above[m][1] /\ 1 \in 1..(Height(n) - (k + 1))
      <4>1. Parent(m) = Above[m][1]
        BY <2>3, ParentFirst
      <4>2. Height(m) \in Nat
        BY <2>2, PathTypes
      <4> QED BY <4>1, <4>2, <2>2
    <3>2. Above[m][1] = Above[n][(k + 1) + 1]
      BY <3>1, <2>1 DEF Suffix
    <3> QED BY <3>1, <3>2
  <2>5. Height(Parent(m)) = Height(n) - ((k + 1) + 1)
    BY <2>2, <2>3, <1>1, ParentFirst
  <2>6. ASSUME NEW j \in 1..(Height(n) - ((k + 1) + 1))
        PROVE  Above[Parent(m)][j] = Above[n][((k + 1) + 1) + j]
    <3>1. j \in 1..(Height(m) - 1) /\ j + 1 \in 1..(Height(n) - (k + 1))
      BY <2>2, <1>1
    <3>2. Above[Parent(m)][j] = Above[m][j + 1]
      BY <3>1, <2>3, ParentFirst
    <3>3. Above[m][j + 1] = Above[n][(k + 1) + (j + 1)]
      BY <3>1, <2>1 DEF Suffix
    <3>4. (k + 1) + (j + 1) = ((k + 1) + 1) + j
      OBVIOUS
    <3> QED BY <3>2, <3>3, <3>4
  <2> QED BY <2>4, <2>5, <2>6 DEF Suffix
<1>4. i - 1 \in S
  <2> HIDE DEF S
  <2>1. Nat \subseteq S
    BY <1>2, <1>3, NatSetInduction
  <2> QED BY <2>1, <1>1
<1> QED BY <1>4, <1>1

\* What is above a pb is a chain, and nothing is above itself.
LEMMA AboveIsChain ==
  ASSUME NEW p \in AllPbs
  PROVE  /\ \A n \in Anc(p) : Anc(n) \subseteq Anc(p) /\ n # p
         /\ \A n, m \in Anc(p) : n = m \/ n \in Anc(m) \/ m \in Anc(n)
<1>1. Height(p) \in Nat
  BY PathTypes
<1>2. ASSUME NEW n \in Anc(p)
      PROVE  Anc(n) \subseteq Anc(p) /\ n # p
  <2>1. PICK i \in 1..Height(p) : n = Above[p][i]
    BY PathTypes
  <2>2. n \in AllPbs /\ Suffix(p, i)
    BY <2>1, WayUp, PathTypes
  <2>3. Height(n) = Height(p) - i
    BY <2>1, <2>2 DEF Suffix
  <2>4. ASSUME NEW m \in Anc(n) PROVE m \in Anc(p)
    <3>1. PICK j \in 1..Height(n) : m = Above[n][j]
      BY <2>2, PathTypes
    <3>2. i + j \in 1..Height(p) /\ m = Above[p][i + j]
      BY <3>1, <2>1, <2>2, <2>3, <1>1 DEF Suffix
    <3> QED BY <3>2, PathTypes
  <2> QED BY <2>3, <2>4, <1>1
<1>3. ASSUME NEW i \in 1..Height(p), NEW j \in 1..Height(p), i < j
      PROVE  Above[p][j] \in Anc(Above[p][i])
  <2>1. Suffix(p, i) /\ Above[p][i] \in AllPbs
    BY WayUp, PathTypes
  <2>2. j - i \in 1..(Height(p) - i) /\ i + (j - i) = j
    BY <1>1, <1>3
  <2>3. Above[p][j] = Above[Above[p][i]][j - i] /\ j - i \in 1..Height(Above[p][i])
    BY <2>1, <2>2 DEF Suffix
  <2> QED BY <2>1, <2>3, PathTypes
<1>4. ASSUME NEW n \in Anc(p), NEW m \in Anc(p)
      PROVE  n = m \/ n \in Anc(m) \/ m \in Anc(n)
  <2>1. PICK i \in 1..Height(p), j \in 1..Height(p) : n = Above[p][i] /\ m = Above[p][j]
    BY PathTypes
  <2>2. i < j \/ j < i \/ i = j
    BY <1>1
  <2> QED BY <2>1, <2>2, <1>3
<1> QED BY <1>2, <1>4

\* A tree has one root, which is the end of every way up.
LEMMA OneRoot ==
  ASSUME NEW p \in Pb
  PROVE  /\ TypeOf(p) \in Type \cap Anc(p)
         /\ \A t \in Type \cap Anc(p) : t = TypeOf(p)
         /\ TypeOf(p) = Above[p][Height(p)]
<1>1. p \in AllPbs /\ Height(p) \in Nat \ {0} /\ Above[p] \in Seq(AllPbs)
  BY ParentFirst DEF AllPbs
<1>2. TypeOf(p) = Above[p][Height(p)]
  BY DEF TypeOf, Last, Height
<1>3. ASSUME NEW i \in 1..Height(p)
      PROVE  Above[p][i] \in Type <=> i = Height(p)
  <2>1. Suffix(p, i) /\ Above[p][i] \in AllPbs
    BY <1>1, WayUp, PathTypes
  <2>2. Height(Above[p][i]) = Height(p) - i
    BY <2>1 DEF Suffix
  <2>3. Above[p][i] \in Type <=> Height(Above[p][i]) = 0
    BY <2>1, PathTypes, ParentFirst DEF AllPbs
  <2> QED BY <2>2, <2>3, <1>1
<1>4. Height(p) \in 1..Height(p)
  BY <1>1
<1>5. TypeOf(p) \in Type \cap Anc(p)
  BY <1>1, <1>2, <1>3, <1>4, PathTypes
<1>6. ASSUME NEW t \in Type \cap Anc(p) PROVE t = TypeOf(p)
  <2>1. PICK i \in 1..Height(p) : t = Above[p][i]
    BY <1>1, PathTypes
  <2> QED BY <2>1, <1>2, <1>3
<1> QED BY <1>2, <1>5, <1>6

\* Nothing is below a primitive, and its parents' modes lead to it.
LEMMA PrimitiveIsLeaf ==
  ASSUME NEW p \in Primitive
  PROVE  p \in Pb /\ p \in AllPbs /\ p # None /\ Below[p] = {} /\ Parent(p) \in Anc(p)
<1>1. p \in Pb /\ p \in AllPbs /\ p # None
  BY TreeAssumption DEF Primitive, AllPbs
<1>2. ASSUME NEW q \in Pb, p \in Anc(q) PROVE FALSE
  <2>1. q \in AllPbs /\ Height(q) \in Nat
    BY ParentFirst DEF AllPbs
  <2>2. PICK i \in 1..Height(q) : p = Above[q][i]
    BY <1>2, <2>1, PathTypes
  <2>3. CASE i = 1
    BY <2>2, <2>3, ParentFirst DEF Primitive
  <2>4. CASE i # 1
    <3> DEFINE m == Above[q][i - 1]
    <3>1. i - 1 \in 1..Height(q) /\ 1 \in 1..(Height(q) - (i - 1)) /\ (i - 1) + 1 = i
      BY <2>1, <2>4
    <3>2. m \in AllPbs /\ Suffix(q, i - 1)
      BY <2>1, <3>1, PathTypes, WayUp
    <3>3. Height(m) # 0 /\ Above[m][1] = p
      BY <2>1, <2>2, <3>1, <3>2 DEF Suffix
    <3>4. m \in Pb
      BY <3>2, <3>3, PathTypes
    <3> QED BY <3>3, <3>4, ParentFirst DEF Primitive
  <2> QED BY <2>3, <2>4
<1>3. Below[p] = {}
  BY <1>1, <1>2 DEF Below, Anc
<1>4. Parent(p) \in Anc(p)
  <2>1. 1 \in 1..Height(p) /\ Parent(p) = Above[p][1]
    BY <1>1, ParentFirst
  <2> QED BY <2>1, <1>1, PathTypes
<1> QED BY <1>1, <1>3, <1>4

LEMMA BelowIs ==
  ASSUME NEW n \in AllPbs
  PROVE  /\ \A p : p \in Below[n] <=> p \in Pb /\ n \in Anc(p)
         /\ n \notin Below[n]
<1>1. \A p : p \in Below[n] <=> p \in Pb /\ n \in Anc(p)
  BY DEF Below, Anc
<1>2. n \notin Anc(n)
  BY AboveIsChain
<1> QED BY <1>1, <1>2

\* The primitives of a type and of what is above them.
LEMMA PrimitivesOfType ==
  ASSUME NEW t \in Type, NEW p \in PrimitivesOf(t)
  PROVE  p \in Primitive /\ p \in Pb /\ t \in Anc(p) /\ TypeOf(p) = t /\ p \in Below[t]
<1>1. t \in AllPbs /\ p \in Below[t] /\ p \in Primitive
  BY DEF PrimitivesOf, AllPbs
<1>2. p \in Pb /\ t \in Anc(p)
  BY <1>1, BelowIs
<1> QED BY <1>1, <1>2, OneRoot

LEMMA ModeTowardType ==
  ASSUME NEW p \in Pb, NEW n \in Anc(p)
  PROVE  ModeToward[n][p] \in Nat /\ ModeToward[n][p] # NoKids
<1>1. p \in AllPbs /\ n \in AllPbs /\ Height(p) \in Nat
  BY PathTypes DEF AllPbs
<1>2. PICK i \in 1..Height(p) : n = Above[p][i]
  BY <1>1, PathTypes
<1>3. \E c \in {p} \cup Range(Above[p]) : c \in Pb /\ Parent(c) = n
  <2>1. CASE i = 1
    BY <1>2, <2>1, ParentFirst
  <2>2. CASE i # 1
    <3> DEFINE m == Above[p][i - 1]
    <3>1. i - 1 \in 1..Height(p) /\ 1 \in 1..(Height(p) - (i - 1)) /\ (i - 1) + 1 = i
      BY <1>1, <2>2
    <3>2. m \in AllPbs /\ m \in Range(Above[p]) /\ Suffix(p, i - 1)
      BY <1>1, <3>1, PathTypes, WayUp DEF Anc
    <3>3. Height(m) # 0 /\ Above[m][1] = n
      BY <1>1, <1>2, <3>1, <3>2 DEF Suffix
    <3>4. m \in Pb
      BY <3>2, <3>3, PathTypes
    <3> QED BY <3>2, <3>3, <3>4, ParentFirst
  <2> QED BY <2>1, <2>2
<1>4. p \in Below[n]
  BY <1>1, BelowIs
<1>5. ModeToward[n][p] = ModeOf[CHOOSE c \in {p} \cup Range(Above[p]) : c \in Pb /\ Parent(c) = n]
  BY <1>1, <1>4 DEF ModeToward
<1>6. (CHOOSE c \in {p} \cup Range(Above[p]) : c \in Pb /\ Parent(c) = n) \in Pb
  BY <1>3
<1>7. ModeToward[n][p] \in Nat
  BY <1>5, <1>6, TreeAssumption
<1> QED BY <1>7 DEF NoKids

-----------------------------------------------------------------------------
(* Taking pbs back, step by step.                                          *)

Holders == Primitive \cup {None}
TreeStates == [mode : [AllPbs -> Int], count : [AllPbs -> Nat], named : SUBSET Primitive]
RouterStates == [added : SUBSET Atom, mode : [AllPbs -> Int],
                 saved : SUBSET (Atom \X Holders)]
UndoStates == [tree : TreeStates, router : RouterStates, at : [Atom -> Holders],
               clb : [Atom -> Nat], valid : SUBSET Molecule, alive : BOOLEAN]

\* u is s but for the look-up of the atoms in as, who are in no cluster in u.
LookupCleared(s, u, as) ==
  \A a \in Atom : /\ u.at[a] = IF a \in as THEN None ELSE s.at[a]
                  /\ u.clb[a] = IF a \in as THEN 0 ELSE s.clb[a]

LEMMA ClearedIs ==
  ASSUME NEW s \in UndoStates, NEW as \in SUBSET Atom
  PROVE  LET u == Cleared(s, as)
         IN  /\ u \in UndoStates /\ LookupCleared(s, u, as)
             /\ u.tree = s.tree /\ u.router = s.router /\ u.valid = s.valid
             /\ u.alive = s.alive
<1> DEFINE atNow == [a \in Atom |-> IF a \in as THEN None ELSE s.at[a]]
           clbNow == [a \in Atom |-> IF a \in as THEN 0 ELSE s.clb[a]]
<1>1. Cleared(s, as) = [[s EXCEPT !.at = atNow] EXCEPT !.clb = clbNow]
  BY DEF Cleared, UndoStates
<1>2. atNow \in [Atom -> Holders] /\ clbNow \in [Atom -> Nat]
  BY DEF UndoStates, Holders
<1>3. LookupCleared(s, Cleared(s, as), as)
  <2>1. Cleared(s, as).at = atNow /\ Cleared(s, as).clb = clbNow
    BY <1>1 DEF UndoStates
  <2> QED BY <2>1 DEF LookupCleared
<1> HIDE DEF atNow, clbNow
<1>4. /\ Cleared(s, as) \in UndoStates
      /\ Cleared(s, as).tree = s.tree /\ Cleared(s, as).router = s.router
      /\ Cleared(s, as).valid = s.valid /\ Cleared(s, as).alive = s.alive
  BY <1>1, <1>2 DEF UndoStates
<1> QED BY <1>3, <1>4

Gone(n) == {n} \cup Below[n]
TreeFreed(s, u, n) ==
  /\ \A k \in AllPbs : /\ u.tree.mode[k] = IF k \in Gone(n) THEN NoKids ELSE s.tree.mode[k]
                       /\ u.tree.count[k] = IF k \in Gone(n) THEN 0 ELSE s.tree.count[k]
  /\ u.tree.named = s.tree.named \ Gone(n)

LEMMA FreeIs ==
  ASSUME NEW s \in UndoStates, NEW n \in AllPbs
  PROVE  LET u == Free(s, n)
         IN  /\ u \in UndoStates /\ LookupCleared(s, u, Inside(s, n)) /\ TreeFreed(s, u, n)
             /\ u.router = s.router /\ u.valid = s.valid /\ u.alive = s.alive
<1> DEFINE c == Cleared(s, Inside(s, n))
           t == [mode |-> [k \in AllPbs |-> IF k \in Gone(n) THEN NoKids ELSE c.tree.mode[k]],
                 count |-> [k \in AllPbs |-> IF k \in Gone(n) THEN 0 ELSE c.tree.count[k]],
                 named |-> c.tree.named \ Gone(n)]
<1>1. Inside(s, n) \in SUBSET Atom
  BY DEF Inside
<1>2. /\ c \in UndoStates /\ LookupCleared(s, c, Inside(s, n))
      /\ c.tree = s.tree /\ c.router = s.router /\ c.valid = s.valid /\ c.alive = s.alive
  BY <1>1, ClearedIs
<1>3. c.tree \in TreeStates
  BY <1>2 DEF UndoStates
<1>4. t \in TreeStates
  BY <1>3 DEF TreeStates, NoKids
<1>5. Free(s, n) = [c EXCEPT !.tree = t]
  BY DEF Free, Gone
<1>6. t.mode = [k \in AllPbs |-> IF k \in Gone(n) THEN NoKids ELSE c.tree.mode[k]]
      /\ t.count = [k \in AllPbs |-> IF k \in Gone(n) THEN 0 ELSE c.tree.count[k]]
      /\ t.named = c.tree.named \ Gone(n)
  OBVIOUS
<1> HIDE DEF c, t
<1>7. /\ Free(s, n) \in UndoStates /\ Free(s, n).tree = t /\ Free(s, n).at = c.at
      /\ Free(s, n).clb = c.clb /\ Free(s, n).router = c.router
      /\ Free(s, n).valid = c.valid /\ Free(s, n).alive = c.alive
  BY <1>2, <1>4, <1>5 DEF UndoStates
<1>8. LookupCleared(s, Free(s, n), Inside(s, n))
  BY <1>2, <1>7 DEF LookupCleared
<1>9. TreeFreed(s, Free(s, n), n)
  BY <1>2, <1>6, <1>7 DEF TreeFreed
<1> QED BY <1>2, <1>7, <1>8, <1>9

LEMMA RevalidIs ==
  ASSUME NEW s \in UndoStates, NEW n \in AllPbs
  PROVE  LET u == Revalid(s, n)
         IN  /\ u \in UndoStates /\ LookupCleared(s, u, Inside(s, n))
             /\ u.tree = s.tree /\ u.router = s.router /\ u.alive = s.alive
             /\ u.valid = s.valid \cup
                  {m \in Molecule : /\ Atoms(m) \cap Inside(s, n) # {}
                                    /\ \A a \in Atoms(m) : u.clb[a] = 0}
<1> DEFINE c == Cleared(s, Inside(s, n))
           v == c.valid \cup {m \in Molecule : /\ Atoms(m) \cap Inside(s, n) # {}
                                              /\ \A a \in Atoms(m) : c.clb[a] = 0}
<1>1. Inside(s, n) \in SUBSET Atom
  BY DEF Inside
<1>2. /\ c \in UndoStates /\ LookupCleared(s, c, Inside(s, n))
      /\ c.tree = s.tree /\ c.router = s.router /\ c.valid = s.valid /\ c.alive = s.alive
  BY <1>1, ClearedIs
<1>3. v \in SUBSET Molecule
  BY <1>2 DEF UndoStates
<1>4. Revalid(s, n) = [c EXCEPT !.valid = v]
  BY DEF Revalid
<1>5. v = s.valid \cup {m \in Molecule : /\ Atoms(m) \cap Inside(s, n) # {}
                                         /\ \A a \in Atoms(m) : c.clb[a] = 0}
  BY <1>2
<1> HIDE DEF c, v
<1>6. /\ Revalid(s, n) \in UndoStates /\ Revalid(s, n).tree = c.tree
      /\ Revalid(s, n).at = c.at /\ Revalid(s, n).clb = c.clb
      /\ Revalid(s, n).router = c.router
      /\ Revalid(s, n).valid = v /\ Revalid(s, n).alive = c.alive
  BY <1>2, <1>3, <1>4 DEF UndoStates
<1>7. LookupCleared(s, Revalid(s, n), Inside(s, n))
  BY <1>2, <1>6 DEF LookupCleared
<1> QED BY <1>2, <1>5, <1>6, <1>7

\* The router forgets the mode of n.
RouterForgets(s, u, n) ==
  /\ u.router.added = s.router.added /\ u.router.saved = s.router.saved
  /\ \A k \in AllPbs : u.router.mode[k] = IF k = n THEN 0 ELSE s.router.mode[k]

LEMMA ForgetIs ==
  ASSUME NEW s \in UndoStates, NEW n \in AllPbs
  PROVE  LET u == [s EXCEPT !.router.mode[n] = 0]
         IN  /\ u \in UndoStates /\ u.tree = s.tree /\ u.at = s.at /\ u.clb = s.clb
             /\ u.valid = s.valid /\ u.alive = s.alive
             /\ RouterForgets(s, u, n)
<1> DEFINE r == [s.router EXCEPT !.mode = [s.router.mode EXCEPT ![n] = 0]]
           u == [s EXCEPT !.router = r]
<1>1. s.router \in RouterStates
  BY DEF UndoStates
<1>2. /\ r \in RouterStates /\ r.added = s.router.added /\ r.saved = s.router.saved
      /\ \A k \in AllPbs : r.mode[k] = IF k = n THEN 0 ELSE s.router.mode[k]
  BY <1>1 DEF RouterStates
<1>3. [s EXCEPT !.router.mode[n] = 0] = u
  OBVIOUS
<1> HIDE DEF r
<1>4. u \in UndoStates /\ u.tree = s.tree /\ u.at = s.at /\ u.clb = s.clb
      /\ u.valid = s.valid /\ u.alive = s.alive /\ u.router = r
  BY <1>2 DEF UndoStates
<1> QED BY <1>2, <1>3, <1>4 DEF RouterForgets

\* What the two walks of a revert compute: each step starts from the result of
\* the one before.
LEMMA ReleaseAllSteps ==
  ASSUME NEW s, NEW path, Len(path) \in Nat
  PROVE  \E f : /\ f[0] = s /\ ReleaseAll(s, path) = f[Len(path)]
                /\ \A i \in 1..Len(path) : f[i] = Release(f[i - 1], path[i])
<1> DEFINE n == Len(path)
           Is(f, k) == f = [i \in 0..k |-> IF i = 0 THEN s ELSE Release(f[i - 1], path[i])]
           Good == {k \in Nat : \E f : Is(f, k)}
<1>1. 0 \in Good
  <2>1. Is([i \in 0..0 |-> s], 0)
    OBVIOUS
  <2> HIDE DEF Is
  <2> QED BY <2>1
<1>2. \A k \in Nat : k \in Good => k + 1 \in Good
  <2> SUFFICES ASSUME NEW k \in Nat, k \in Good PROVE \E f : Is(f, k + 1)
    <3> HIDE DEF Is
    <3> QED OBVIOUS
  <2>1. PICK f : Is(f, k)
    <3> HIDE DEF Is
    <3> QED OBVIOUS
  <2> DEFINE g == [i \in 0..(k + 1) |-> IF i = k + 1 THEN Release(f[k], path[k + 1]) ELSE f[i]]
  <2>2. ASSUME NEW i \in 0..(k + 1)
        PROVE  g[i] = IF i = 0 THEN s ELSE Release(g[i - 1], path[i])
    <3>1. CASE i = k + 1
      <4>1. g[i] = Release(f[k], path[k + 1]) /\ g[i - 1] = f[k] /\ i # 0
        BY <3>1
      <4> HIDE DEF g
      <4> QED BY <3>1, <4>1
    <3>2. CASE i # k + 1
      <4>1. i \in 0..k /\ g[i] = f[i]
        BY <3>2
      <4>2. f[i] = IF i = 0 THEN s ELSE Release(f[i - 1], path[i])
        BY <2>1, <4>1
      <4>3. i # 0 => g[i - 1] = f[i - 1]
        BY <4>1
      <4> HIDE DEF g
      <4> QED BY <4>1, <4>2, <4>3
    <3> QED BY <3>1, <3>2
  <2>3. g = [i \in 0..(k + 1) |-> g[i]]
    OBVIOUS
  <2>4. Is(g, k + 1)
    <3> HIDE DEF g
    <3> QED BY <2>2, <2>3
  <2> HIDE DEF Is, g
  <2> QED BY <2>4
<1>3. n \in Good
  <2> HIDE DEF Good, n
  <2>1. Nat \subseteq Good
    BY <1>1, <1>2, NatSetInduction
  <2> QED BY <2>1 DEF n
<1>4. \E f : Is(f, n)
  <2> HIDE DEF Is
  <2> QED BY <1>3
<1> DEFINE h == CHOOSE f : Is(f, n)
<1>5. Is(h, n)
  <2> HIDE DEF Is
  <2> QED BY <1>4
<1>6. ReleaseAll(s, path) = h[n]
  BY DEF ReleaseAll
<1>7. 0 \in 0..n /\ \A i \in 1..n : i \in 0..n /\ i # 0
  OBVIOUS
<1>8. h[0] = s /\ \A i \in 1..n : h[i] = Release(h[i - 1], path[i])
  <2> HIDE DEF h
  <2> QED BY <1>5, <1>7
<1> HIDE DEF h
<1> QED BY <1>6, <1>8

LEMMA RevertAllSteps ==
  ASSUME NEW s, NEW as, Len(as) \in Nat
  PROVE  \E f : /\ f[0] = s /\ RevertAll(s, as) = f[Len(as)]
                /\ \A i \in 1..Len(as) : f[i] = RevertAtom(f[i - 1], as[i])
<1> DEFINE n == Len(as)
           Is(f, k) == f = [i \in 0..k |-> IF i = 0 THEN s ELSE RevertAtom(f[i - 1], as[i])]
           Good == {k \in Nat : \E f : Is(f, k)}
<1>1. 0 \in Good
  <2>1. Is([i \in 0..0 |-> s], 0)
    OBVIOUS
  <2> HIDE DEF Is
  <2> QED BY <2>1
<1>2. \A k \in Nat : k \in Good => k + 1 \in Good
  <2> SUFFICES ASSUME NEW k \in Nat, k \in Good PROVE \E f : Is(f, k + 1)
    <3> HIDE DEF Is
    <3> QED OBVIOUS
  <2>1. PICK f : Is(f, k)
    <3> HIDE DEF Is
    <3> QED OBVIOUS
  <2> DEFINE g == [i \in 0..(k + 1) |-> IF i = k + 1 THEN RevertAtom(f[k], as[k + 1]) ELSE f[i]]
  <2>2. ASSUME NEW i \in 0..(k + 1)
        PROVE  g[i] = IF i = 0 THEN s ELSE RevertAtom(g[i - 1], as[i])
    <3>1. CASE i = k + 1
      <4>1. g[i] = RevertAtom(f[k], as[k + 1]) /\ g[i - 1] = f[k] /\ i # 0
        BY <3>1
      <4> HIDE DEF g
      <4> QED BY <3>1, <4>1
    <3>2. CASE i # k + 1
      <4>1. i \in 0..k /\ g[i] = f[i]
        BY <3>2
      <4>2. f[i] = IF i = 0 THEN s ELSE RevertAtom(f[i - 1], as[i])
        BY <2>1, <4>1
      <4>3. i # 0 => g[i - 1] = f[i - 1]
        BY <4>1
      <4> HIDE DEF g
      <4> QED BY <4>1, <4>2, <4>3
    <3> QED BY <3>1, <3>2
  <2>3. g = [i \in 0..(k + 1) |-> g[i]]
    OBVIOUS
  <2>4. Is(g, k + 1)
    <3> HIDE DEF g
    <3> QED BY <2>2, <2>3
  <2> HIDE DEF Is, g
  <2> QED BY <2>4
<1>3. n \in Good
  <2> HIDE DEF Good, n
  <2>1. Nat \subseteq Good
    BY <1>1, <1>2, NatSetInduction
  <2> QED BY <2>1 DEF n
<1>4. \E f : Is(f, n)
  <2> HIDE DEF Is
  <2> QED BY <1>3
<1> DEFINE h == CHOOSE f : Is(f, n)
<1>5. Is(h, n)
  <2> HIDE DEF Is
  <2> QED BY <1>4
<1>6. RevertAll(s, as) = h[n]
  BY DEF RevertAll
<1>7. 0 \in 0..n /\ \A i \in 1..n : i \in 0..n /\ i # 0
  OBVIOUS
<1>8. h[0] = s /\ \A i \in 1..n : h[i] = RevertAtom(h[i - 1], as[i])
  <2> HIDE DEF h
  <2> QED BY <1>5, <1>7
<1> HIDE DEF h
<1> QED BY <1>6, <1>8

LEMMA MoleculeAtoms ==
  /\ \A m \in Molecule : /\ AtomsOf[m] \in Seq(Atom) /\ Len(AtomsOf[m]) \in Nat
                         /\ Atoms(m) = {AtomsOf[m][i] : i \in 1..Len(AtomsOf[m])}
                         /\ Atoms(m) \subseteq Atom /\ Atoms(m) # {}
                         /\ Root[m] \in 1..Len(AtomsOf[m])
                         /\ \A i, j \in 1..Len(AtomsOf[m]) : AtomsOf[m][i] = AtomsOf[m][j] => i = j
  /\ \A m, o \in Molecule : Atoms(m) \cap Atoms(o) # {} => m = o
<1>1. ASSUME NEW m \in Molecule
      PROVE  /\ AtomsOf[m] \in Seq(Atom) /\ Len(AtomsOf[m]) \in Nat
             /\ Atoms(m) = {AtomsOf[m][i] : i \in 1..Len(AtomsOf[m])}
             /\ Atoms(m) \subseteq Atom /\ Atoms(m) # {}
             /\ Root[m] \in 1..Len(AtomsOf[m])
             /\ \A i, j \in 1..Len(AtomsOf[m]) : AtomsOf[m][i] = AtomsOf[m][j] => i = j
  <2>1. AtomsOf[m] \in Seq(Atom) /\ IsInjective(AtomsOf[m]) /\ Root[m] \in DOMAIN AtomsOf[m]
    BY NetlistAssumption
  <2>2. Len(AtomsOf[m]) \in Nat /\ DOMAIN AtomsOf[m] = 1..Len(AtomsOf[m])
        /\ \A i \in 1..Len(AtomsOf[m]) : AtomsOf[m][i] \in Atom
    BY <2>1, LenProperties, ElementOfSeq
  <2>3. Atoms(m) = {AtomsOf[m][i] : i \in 1..Len(AtomsOf[m])}
    BY <2>2 DEF Atoms, Range
  <2>4. \A i, j \in 1..Len(AtomsOf[m]) : AtomsOf[m][i] = AtomsOf[m][j] => i = j
    BY <2>1, <2>2 DEF IsInjective
  <2>5. Root[m] \in 1..Len(AtomsOf[m])
    BY <2>1, <2>2
  <2>6. Atoms(m) \subseteq Atom /\ AtomsOf[m][Root[m]] \in Atoms(m)
    BY <2>2, <2>3, <2>5
  <2> QED BY <2>1, <2>2, <2>3, <2>4, <2>5, <2>6
<1>2. \A m, o \in Molecule : Atoms(m) \cap Atoms(o) # {} => m = o
  BY NetlistAssumption
<1> QED BY <1>1, <1>2

-----------------------------------------------------------------------------
(* The invariant.                                                          *)

\* The atoms of the molecule that is being packed which are already placed,
\* and those of the molecules that have been accepted before.
Trial == IF Resting THEN {} ELSE {AtomsOf[mol][i] : i \in 1..placed}
Accepted == InOpen \ Trial
Under(n, as) == {a \in as : n \in Anc(at[a])}

Working == {"find", "mode", "place", "check", "revert", "pick", "fanout",
            "transitive", "choose", "end"}
Filling == Working \ {"mode"}
FirstTry == {"find", "mode", "place", "check", "revert"}

SearchStates == [list : SUBSET (Molecule \cup {None}), fanout : BOOLEAN,
                 transitive : {"unexplored", "explored", "over"}, attempts : Nat]
Types ==
  /\ search \in SearchStates
  /\ at \in [Atom -> Holders] /\ clb \in [Atom -> Nat] /\ valid \subseteq Molecule
  /\ tree \in TreeStates /\ router \in RouterStates
  /\ intra \in Seq(SUBSET (Atom \X Holders)) /\ used \in [Type -> Int]
  /\ seen \subseteq Atom /\ left \subseteq Type /\ topMode \in Nat

Control ==
  /\ pc \in Working \cup {"seed", "type", "done", "failed"} /\ stage \in {1, 2}
  /\ opened \in BOOLEAN
  /\ pc \notin {"seed", "done"} => seed \in Molecule
  /\ pc \in Working => type \in Type /\ mol \in Molecule
  /\ opened => pc \in Filling /\ Atoms(seed) \subseteq Accepted
  /\ pc \in Working /\ ~opened => pc \in FirstTry /\ mol = seed
  /\ pc \in FirstTry => mol \in valid
  /\ pc = "type" => seed \in valid
  /\ ~Resting =>
       /\ placed \in Nat /\ placed <= Len(AtomsOf[mol])
       /\ pc = "place" => placed < Len(AtomsOf[mol])
       /\ pc = "check" => placed = Len(AtomsOf[mol])
       /\ site \in Sites[mol] /\ Range(site) \subseteq PrimitivesOf(type)

Lookups ==
  /\ \A a \in Atom : clb[a] <= Open /\ (at[a] = None <=> clb[a] = 0)
  /\ \A a, b \in Atom : a # b /\ clb[a] # 0 => <<clb[a], at[a]>> # <<clb[b], at[b]>>
  /\ \A a \in InOpen : at[a] \in PrimitivesOf(type)
  /\ ~Resting => \A i \in 1..Len(AtomsOf[mol]) :
                   IF i <= placed
                   THEN clb[AtomsOf[mol][i]] = Open /\ at[AtomsOf[mol][i]] = site[i]
                   ELSE clb[AtomsOf[mol][i]] = 0
  /\ opened <=> Accepted # {}

Valids ==
  /\ valid = {m \in Molecule : \A a \in Atoms(m) : clb[a] = 0 \/ a \in Trial}
  /\ search.list # NotValid => search.list \subseteq valid

Trees ==
  /\ \A n \in AllPbs : tree.count[n] = Cardinality(Under(n, Accepted))
  /\ \A n \in Pb : tree.mode[n] # NoKids <=> Under(n, InOpen) # {}
  /\ \A t \in Type : t # type => tree.mode[t] = NoKids
  /\ \A a \in InOpen : \A n \in Anc(at[a]) : tree.mode[n] = ModeToward[n][at[a]]
  /\ {at[a] : a \in Accepted} \subseteq tree.named
  /\ tree.named \subseteq {at[a] : a \in InOpen}
  /\ pc # "revert" => tree.named = {at[a] : a \in InOpen}

Routers ==
  /\ router.added = InOpen
  /\ \A a \in InOpen : \A n \in Anc(at[a]) \cap Pb : router.mode[n] = tree.mode[n]
  /\ \A t \in Type : tree.mode[t] # NoKids => router.mode[t] \in {0, tree.mode[t]}
  /\ stage = 2 /\ opened => router.saved = Placement(Accepted)

ClustersOf(t) == {clb[a] : a \in {b \in Atom \ Trial : clb[b] # 0 /\ TypeOf(at[b]) = t}}
Books ==
  /\ \A c \in 1..NumClb : intra[c] = Placement({a \in Atom : clb[a] = c})
  /\ \A t \in Type : used[t] = Cardinality(ClustersOf(t))

\* Seeds are in a finished cluster, or the one that is looked after now.
Seeds ==
  \A a \in seen : \/ clb[a] \in 1..NumClb
                  \/ pc \notin {"seed", "done"} /\ a \in Atoms(seed)

IInv == Types /\ Control /\ Lookups /\ Valids /\ Trees /\ Routers /\ Books /\ Seeds


\* The lists of primitives.
QueueStates(t) == [bucket : [1..Cardinality(KindsOf(t)) -> SUBSET PrimitivesOf(t)],
                   tried : SUBSET PrimitivesOf(t), flight : SUBSET PrimitivesOf(t),
                   invalid : SUBSET PrimitivesOf(t), current : Molecule \cup {None}]
InBuckets(q) == UNION Range(q.bucket)
Sorted(q) == \A i, j \in DOMAIN q.bucket : \A p \in q.bucket[i], r \in q.bucket[j] :
               Kind[p] = Kind[r] <=> i = j
Listed(q, t) ==
  /\ InBuckets(q) \cup q.tried \cup q.flight \cup q.invalid = PrimitivesOf(t)
  /\ InBuckets(q) \cap (q.tried \cup q.flight \cup q.invalid) = {}
  /\ q.tried \cap q.flight = {} /\ (q.tried \cup q.flight) \cap q.invalid = {}
  /\ \A p, r \in q.flight : p = r
Sound(q, t) == q \in QueueStates(t) /\ Sorted(q) /\ Listed(q, t)

Queues ==
  /\ DOMAIN queue = Type
  /\ \A t \in Type : Sound(queue[t], t) /\ queue[t].invalid \cap usable = {}
Usables ==
  /\ usable \subseteq Primitive
  /\ pc \in Working =>
       usable \cap PrimitivesOf(type) =
         {p \in InMode(type, topMode) : \A a \in Accepted : p \notin BlockedBy[at[a]]}
QInv == Queues /\ Usables
-----------------------------------------------------------------------------
(* A molecule is taken back.                                               *)

\* In the middle of it: rest are the atoms that are still to be taken back,
\* way the pbs that the walk under way has yet to look at.
MadeFor(s, n, rest, way) ==
  \/ tree.count[n] > 0 \/ n \in way
  \/ \E a \in rest : s.at[a] # None /\ n \in Anc(at[a])

Reverting(s, rest, way) ==
  /\ s \in UndoStates
  /\ s.valid = valid /\ s.router.saved = router.saved
  /\ s.router.added = router.added \ Trial
  /\ \A a \in Atom \ Trial : s.at[a] = at[a] /\ s.clb[a] = clb[a]
  /\ \A a \in Trial : \/ s.at[a] = None /\ s.clb[a] = 0
                      \/ a \in rest /\ s.at[a] = at[a] /\ s.clb[a] = Open
  /\ \A n \in AllPbs :
       /\ s.tree.count[n] = tree.count[n]
       /\ tree.count[n] > 0 => /\ s.tree.mode[n] = tree.mode[n]
                               /\ n \in Pb => s.router.mode[n] = router.mode[n]
  /\ \A n \in Pb : s.tree.mode[n] # NoKids => MadeFor(s, n, rest, way)
  /\ \A t \in Type : /\ s.tree.mode[t] = tree.mode[t]
                     /\ s.router.mode[t] \in {0, router.mode[t]}
  /\ {at[a] : a \in Accepted} \subseteq s.tree.named
  /\ s.tree.named \subseteq {at[a] : a \in Accepted \cup {b \in rest : s.at[b] # None}}

\* What the accepted atoms say of the pbs above and below them.
LEMMA AcceptedFacts ==
  ASSUME IInv
  PROVE  /\ Trial \subseteq InOpen /\ InOpen \subseteq Atom
         /\ \A a \in InOpen : at[a] \in Primitive /\ at[a] \in Pb /\ type \in Type
                              /\ type \in Anc(at[a]) /\ TypeOf(at[a]) = type
         /\ \A n \in AllPbs : /\ tree.count[n] \in Nat
                              /\ tree.count[n] = 0 <=> Under(n, Accepted) = {}
         /\ \A n \in AllPbs : tree.count[n] = 0 => \A k \in Below[n] : tree.count[k] = 0
         /\ Open \in Nat /\ Open # 0
<1>1. Types /\ Control /\ Lookups /\ Trees
  BY DEF IInv
<1>2. NumClb \in Nat
  BY <1>1, LenProperties DEF Types, NumClb
<1>3. Open \in Nat /\ Open # 0
  BY <1>2 DEF Open
<1>4. Trial \subseteq InOpen /\ InOpen \subseteq Atom
  <2>1. InOpen \subseteq Atom
    BY DEF InOpen
  <2>2. CASE Resting
    BY <2>1, <2>2 DEF Trial
  <2>3. CASE ~Resting
    <3>1. mol \in Molecule /\ placed \in Nat /\ placed <= Len(AtomsOf[mol])
      BY <2>3, <1>1 DEF Control, Resting, Working
    <3>2. AtomsOf[mol] \in Seq(Atom)
      BY <3>1, NetlistAssumption
    <3>3. ASSUME NEW i \in 1..placed PROVE AtomsOf[mol][i] \in InOpen
      <4>1. i \in 1..Len(AtomsOf[mol]) /\ AtomsOf[mol][i] \in Atom
        BY <3>1, <3>2, LenProperties, ElementOfSeq
      <4>2. clb[AtomsOf[mol][i]] = Open
        BY <4>1, <2>3, <1>1 DEF Lookups
      <4> QED BY <4>1, <4>2 DEF InOpen
    <3> QED BY <2>3, <3>3, <2>1 DEF Trial
  <2> QED BY <2>2, <2>3
<1>5. ASSUME NEW a \in InOpen
      PROVE  /\ at[a] \in Primitive /\ at[a] \in Pb /\ type \in Type
             /\ type \in Anc(at[a]) /\ TypeOf(at[a]) = type
  <2>1. at[a] \in PrimitivesOf(type) /\ a \in Atom /\ clb[a] = Open
    BY <1>1 DEF Lookups, InOpen
  <2>2. type \in Type
    <3>1. CASE a \in Accepted
      BY <3>1, <1>1 DEF Lookups, Control, Filling
    <3>2. CASE a \notin Accepted
      <4>1. ~Resting
        BY <3>2 DEF Accepted, Trial
      <4> QED BY <4>1, <1>1 DEF Control, Resting, Working
    <3> QED BY <3>1, <3>2
  <2> QED BY <2>1, <2>2, PrimitivesOfType
<1>6. \A n : Under(n, Accepted) \subseteq Atom /\ IsFiniteSet(Under(n, Accepted))
  <2>1. \A n : Under(n, Accepted) \subseteq Atom
    BY <1>4 DEF Under, Accepted
  <2> QED BY <2>1, NetlistAssumption, FS_Subset
<1>7. \A n \in AllPbs : /\ tree.count[n] \in Nat
                        /\ tree.count[n] = 0 <=> Under(n, Accepted) = {}
  <2> TAKE n \in AllPbs
  <2>1. tree.count[n] = Cardinality(Under(n, Accepted))
    BY <1>1 DEF Trees
  <2> QED BY <2>1, <1>6, FS_CardinalityType, FS_EmptySet
<1>8. \A n \in AllPbs : tree.count[n] = 0 => \A k \in Below[n] : tree.count[k] = 0
  <2> TAKE n \in AllPbs
  <2> HAVE tree.count[n] = 0
  <2> TAKE k \in Below[n]
  <2>1. k \in Pb /\ n \in Anc(k) /\ k \in AllPbs
    BY BelowIs DEF AllPbs
  <2>2. ASSUME NEW a \in Under(k, Accepted) PROVE a \in Under(n, Accepted)
    <3>1. a \in Accepted /\ k \in Anc(at[a]) /\ at[a] \in AllPbs
      BY <2>2, <1>4, <1>5 DEF Under, Accepted, AllPbs
    <3>2. n \in Anc(at[a])
      BY <3>1, <2>1, AboveIsChain
    <3> QED BY <3>1, <3>2 DEF Under
  <2> QED BY <2>1, <2>2, <1>7
<1> QED BY <1>3, <1>4, <1>5, <1>7, <1>8

\* Where it is in a molecule, while atoms of it are placed or taken back.
LEMMA InMolecule ==
  ASSUME IInv, ~Resting
  PROVE  /\ mol \in Molecule /\ mol \in valid /\ placed \in Nat
         /\ placed <= Len(AtomsOf[mol])
         /\ Trial = {AtomsOf[mol][i] : i \in 1..placed} /\ Trial \subseteq Atoms(mol)
<1>1. mol \in Molecule /\ mol \in valid /\ placed \in Nat /\ placed <= Len(AtomsOf[mol])
  BY DEF IInv, Control, Resting, Working, FirstTry
<1>2. Trial = {AtomsOf[mol][i] : i \in 1..placed}
  BY DEF Trial
<1>3. 1..placed \subseteq 1..Len(AtomsOf[mol])
  BY <1>1, MoleculeAtoms
<1>4. Trial \subseteq Atoms(mol)
  BY <1>1, <1>2, <1>3, MoleculeAtoms
<1> QED BY <1>1, <1>2, <1>4

\* What one step of the walk up does.
LEMMA ReleaseIs ==
  ASSUME NEW s \in UndoStates, NEW n \in AllPbs, Open \in Nat, Open # 0
  PROVE  LET u == Release(s, n)
         IN  IF s.tree.mode[n] # NoKids /\ s.tree.count[n] = 0
             THEN /\ u \in UndoStates /\ RouterForgets(s, u, n)
                  /\ n \in Type => /\ u.tree = s.tree /\ u.at = s.at /\ u.clb = s.clb
                                   /\ u.valid = s.valid
                  /\ n \notin Type =>
                       /\ LookupCleared(s, u, Inside(s, n)) /\ TreeFreed(s, u, n)
                       /\ u.valid = s.valid \cup
                            {m \in Molecule : /\ Atoms(m) \cap Inside(s, n) # {}
                                              /\ \A a \in Atoms(m) : u.clb[a] = 0}
             ELSE u = s
<1> DEFINE r == [s EXCEPT !.router.mode[n] = 0]
           v == Revalid(r, n)
           w == Free(v, n)
<1>1. CASE ~(s.tree.mode[n] # NoKids /\ s.tree.count[n] = 0)
  BY <1>1 DEF Release
<1>2. CASE s.tree.mode[n] # NoKids /\ s.tree.count[n] = 0
  <2>1. /\ r \in UndoStates /\ r.tree = s.tree /\ r.at = s.at /\ r.clb = s.clb
        /\ r.valid = s.valid /\ r.alive = s.alive /\ RouterForgets(s, r, n)
    <3> HIDE DEF r
    <3> QED BY ForgetIs DEF r
  <2>2. n \in Type => Release(s, n) = r
    BY <1>2 DEF Release
  <2>3. n \notin Type => Release(s, n) = w
    BY <1>2 DEF Release
  <2> HIDE DEF r
  <2>4. Inside(r, n) = Inside(s, n)
    BY <2>1 DEF Inside
  <2>5. /\ v \in UndoStates /\ LookupCleared(r, v, Inside(r, n))
        /\ v.tree = r.tree /\ v.router = r.router
        /\ v.valid = r.valid \cup
             {m \in Molecule : /\ Atoms(m) \cap Inside(r, n) # {}
                               /\ \A a \in Atoms(m) : v.clb[a] = 0}
    BY <2>1, RevalidIs DEF v
  <2> HIDE DEF v
  <2>6. /\ w \in UndoStates /\ LookupCleared(v, w, Inside(v, n)) /\ TreeFreed(v, w, n)
        /\ w.router = v.router /\ w.valid = v.valid
    BY <2>5, FreeIs DEF w
  <2> HIDE DEF w
  <2>7. Inside(v, n) = {}
    <3>1. ASSUME NEW a \in Inside(v, n) PROVE FALSE
      <4>1. /\ a \in Atom /\ v.clb[a] = Open
            /\ v.at[a] \in v.tree.named \cap ({n} \cup Below[n])
        BY DEF Inside
      <4>2. CASE a \in Inside(r, n)
        BY <4>1, <4>2, <2>5 DEF LookupCleared
      <4>3. CASE a \notin Inside(r, n)
        <5>1. v.clb[a] = r.clb[a] /\ v.at[a] = r.at[a]
          BY <4>1, <4>3, <2>5 DEF LookupCleared
        <5> QED BY <5>1, <4>1, <4>3, <2>5 DEF Inside
      <4> QED BY <4>2, <4>3
    <3> QED BY <3>1
  <2>8. LookupCleared(s, w, Inside(s, n)) /\ \A a \in Atom : w.clb[a] = v.clb[a]
    BY <2>1, <2>4, <2>5, <2>6, <2>7 DEF LookupCleared
  <2>9. TreeFreed(s, w, n)
    BY <2>1, <2>5, <2>6 DEF TreeFreed
  <2>10. RouterForgets(s, w, n)
    BY <2>1, <2>5, <2>6 DEF RouterForgets
  <2>11. w.valid = s.valid \cup {m \in Molecule : /\ Atoms(m) \cap Inside(s, n) # {}
                                                  /\ \A a \in Atoms(m) : w.clb[a] = 0}
    <3>1. \A m \in Molecule : Atoms(m) \subseteq Atom
      BY MoleculeAtoms
    <3>2. \A m \in Molecule : (\A a \in Atoms(m) : w.clb[a] = 0)
                                <=> (\A a \in Atoms(m) : v.clb[a] = 0)
      BY <3>1, <2>8
    <3>3. v.valid = s.valid \cup {m \in Molecule : /\ Atoms(m) \cap Inside(s, n) # {}
                                                   /\ \A a \in Atoms(m) : v.clb[a] = 0}
      BY <2>1, <2>4, <2>5
    <3> QED BY <3>2, <3>3, <2>6
  <2>12. CASE n \in Type
    BY <1>2, <2>1, <2>2, <2>12
  <2>13. CASE n \notin Type
    BY <1>2, <2>3, <2>6, <2>8, <2>9, <2>10, <2>11, <2>13
  <2> QED BY <2>12, <2>13
<1> QED BY <1>1, <1>2

\* Only atoms of the molecule are at or below a pb nothing accepted is below.
LEMMA InsideTrial ==
  ASSUME IInv, ~Resting, NEW s \in UndoStates, NEW rest \in SUBSET Trial, NEW way,
         Reverting(s, rest, way), NEW n \in AllPbs, n \notin Primitive, tree.count[n] = 0
  PROVE  /\ Inside(s, n) \subseteq Trial
         /\ \A a \in Inside(s, n) : s.at[a] = at[a] /\ n \in Anc(at[a])
         /\ \A a \in Accepted : at[a] \notin Gone(n)
<1>1. \A a \in Accepted : at[a] \in Primitive /\ a \in Atom /\ a \notin Trial /\ at[a] \in Pb
  BY AcceptedFacts DEF Accepted
<1>2. ASSUME NEW a \in Accepted PROVE at[a] \notin Gone(n)
  <2>1. at[a] # n
    BY <1>1
  <2>2. ASSUME at[a] \in Below[n] PROVE FALSE
    <3>1. n \in Anc(at[a])
      BY <2>2, BelowIs
    <3> QED BY <3>1, AcceptedFacts DEF Under
  <2> QED BY <2>1, <2>2 DEF Gone
<1>3. ASSUME NEW a \in Inside(s, n)
      PROVE  a \in Trial /\ s.at[a] = at[a] /\ n \in Anc(at[a])
  <2>1. a \in Atom /\ s.clb[a] = Open /\ s.at[a] \in Gone(n) /\ s.at[a] \in s.tree.named
    BY DEF Inside, Gone
  <2>2. Open # 0
    BY AcceptedFacts
  <2>3. a \in Trial
    <3>1. SUFFICES ASSUME a \notin Trial PROVE FALSE
      OBVIOUS
    <3>2. clb[a] = Open /\ s.at[a] = at[a]
      BY <3>1, <2>1 DEF Reverting
    <3>3. a \in Accepted
      BY <3>1, <3>2, <2>1 DEF Accepted, InOpen
    <3> QED BY <3>2, <3>3, <2>1, <1>2
  <2>4. s.at[a] = at[a]
    BY <2>1, <2>2, <2>3 DEF Reverting
  <2>5. at[a] \in Primitive
    BY <2>3, AcceptedFacts
  <2>6. at[a] \in Below[n]
    BY <2>1, <2>4, <2>5 DEF Gone
  <2> QED BY <2>3, <2>4, <2>6, BelowIs
<1> QED BY <1>2, <1>3

\* The walk up keeps what is said of the middle of a revert.
LEMMA ReleaseKeeps ==
  ASSUME IInv, ~Resting, NEW s, NEW rest \in SUBSET Trial, NEW n \in AllPbs, n \notin Primitive,
         Reverting(s, rest, {n} \cup Anc(n))
  PROVE  Reverting(Release(s, n), rest, Anc(n))
<1> DEFINE u == Release(s, n)
           I == Inside(s, n)
<1>1. s \in UndoStates /\ Open \in Nat /\ Open # 0
  BY AcceptedFacts DEF Reverting
<1>2. IF s.tree.mode[n] # NoKids /\ s.tree.count[n] = 0
      THEN /\ u \in UndoStates /\ RouterForgets(s, u, n)
           /\ n \in Type => /\ u.tree = s.tree /\ u.at = s.at /\ u.clb = s.clb
                            /\ u.valid = s.valid
           /\ n \notin Type =>
                /\ LookupCleared(s, u, I) /\ TreeFreed(s, u, n)
                /\ u.valid = s.valid \cup {m \in Molecule : /\ Atoms(m) \cap I # {}
                                                            /\ \A a \in Atoms(m) : u.clb[a] = 0}
      ELSE u = s
  BY <1>1, ReleaseIs
<1> HIDE DEF u
<1>3. /\ s.valid = valid /\ s.router.saved = router.saved
      /\ s.router.added = router.added \ Trial
      /\ \A a \in Atom \ Trial : s.at[a] = at[a] /\ s.clb[a] = clb[a]
      /\ \A a \in Trial : \/ s.at[a] = None /\ s.clb[a] = 0
                          \/ a \in rest /\ s.at[a] = at[a] /\ s.clb[a] = Open
  BY DEF Reverting
<1>4. \A k \in AllPbs :
        /\ s.tree.count[k] = tree.count[k]
        /\ tree.count[k] > 0 => /\ s.tree.mode[k] = tree.mode[k]
                                /\ k \in Pb => s.router.mode[k] = router.mode[k]
  BY DEF Reverting
<1>5. \A k \in Pb : s.tree.mode[k] # NoKids => MadeFor(s, k, rest, {n} \cup Anc(n))
  BY DEF Reverting
<1>6. /\ \A t \in Type : /\ s.tree.mode[t] = tree.mode[t]
                         /\ s.router.mode[t] \in {0, router.mode[t]}
      /\ {at[a] : a \in Accepted} \subseteq s.tree.named
      /\ s.tree.named \subseteq {at[a] : a \in Accepted \cup {b \in rest : s.at[b] # None}}
  BY DEF Reverting
<1>7. \A k \in AllPbs : tree.count[k] \in Nat
  BY AcceptedFacts
<1>8. Pb \subseteq AllPbs /\ Type \subseteq AllPbs /\ Pb \cap Type = {}
  BY TreeAssumption DEF AllPbs
<1>9. CASE ~(s.tree.mode[n] # NoKids /\ s.tree.count[n] = 0)
  <2>1. u = s
    BY <1>2, <1>9
  <2>2. ASSUME NEW k \in Pb, s.tree.mode[k] # NoKids PROVE MadeFor(s, k, rest, Anc(n))
    <3>1. MadeFor(s, k, rest, {n} \cup Anc(n))
      BY <2>2, <1>5
    <3>2. k = n => tree.count[k] > 0
      BY <2>2, <1>4, <1>7, <1>8, <1>9
    <3> QED BY <3>1, <3>2 DEF MadeFor
  <2>3. Reverting(s, rest, Anc(n))
    BY <2>2, <1>1, <1>3, <1>4, <1>6 DEF Reverting
  <2> QED BY <2>1, <2>3 DEF u
<1>10. CASE s.tree.mode[n] # NoKids /\ s.tree.count[n] = 0 /\ n \in Type
  <2>1. /\ u \in UndoStates /\ RouterForgets(s, u, n)
        /\ u.tree = s.tree /\ u.at = s.at /\ u.clb = s.clb /\ u.valid = s.valid
    BY <1>2, <1>10
  <2>2. ASSUME NEW k \in Pb, u.tree.mode[k] # NoKids PROVE MadeFor(u, k, rest, Anc(n))
    <3>1. MadeFor(s, k, rest, {n} \cup Anc(n)) /\ k # n
      BY <2>1, <2>2, <1>5, <1>8, <1>10
    <3> QED BY <3>1, <2>1 DEF MadeFor
  <2>3. \A t \in Type : u.router.mode[t] \in {0, router.mode[t]}
    BY <2>1, <1>6, <1>8 DEF RouterForgets
  <2>4. \A k \in AllPbs :
          /\ u.tree.count[k] = tree.count[k]
          /\ tree.count[k] > 0 => /\ u.tree.mode[k] = tree.mode[k]
                                  /\ k \in Pb => u.router.mode[k] = router.mode[k]
    BY <2>1, <1>4, <1>8, <1>10 DEF RouterForgets
  <2>5. u.router.added = router.added \ Trial /\ u.router.saved = router.saved
    BY <2>1, <1>3 DEF RouterForgets
  <2>6. Reverting(u, rest, Anc(n))
    BY <2>1, <2>2, <2>3, <2>4, <2>5, <1>3, <1>6 DEF Reverting
  <2> QED BY <2>6 DEF u
<1>11. CASE s.tree.mode[n] # NoKids /\ s.tree.count[n] = 0 /\ n \notin Type
  <2>1. /\ u \in UndoStates /\ RouterForgets(s, u, n)
        /\ LookupCleared(s, u, I) /\ TreeFreed(s, u, n)
        /\ u.valid = s.valid \cup {m \in Molecule : /\ Atoms(m) \cap I # {}
                                                    /\ \A a \in Atoms(m) : u.clb[a] = 0}
    BY <1>2, <1>11
  <2>2. n \in Pb /\ tree.count[n] = 0
    BY <1>4, <1>11 DEF AllPbs
  <2>3. /\ I \subseteq Trial /\ \A a \in I : s.at[a] = at[a] /\ n \in Anc(at[a])
        /\ \A a \in Accepted : at[a] \notin Gone(n)
    BY <1>1, <2>2, InsideTrial
  <2>4. Trial \subseteq Atom /\ Accepted \subseteq Atom
    BY AcceptedFacts DEF Accepted
  <2>5. /\ \A a \in Atom \ Trial : u.at[a] = at[a] /\ u.clb[a] = clb[a]
        /\ \A a \in Trial : \/ u.at[a] = None /\ u.clb[a] = 0
                            \/ a \in rest /\ u.at[a] = at[a] /\ u.clb[a] = Open
    BY <2>1, <2>3, <2>4, <1>3 DEF LookupCleared
  <2>6. u.valid = valid
    <3>1. ASSUME NEW m \in Molecule, Atoms(m) \cap I # {} PROVE m \in valid
      <4>1. mol \in Molecule /\ mol \in valid /\ Trial \subseteq Atoms(mol)
        BY InMolecule
      <4>2. Atoms(m) \cap Atoms(mol) # {}
        BY <4>1, <2>3, <3>1
      <4> QED BY <4>1, <4>2, MoleculeAtoms
    <3> QED BY <3>1, <2>1, <1>3
  <2>7. \A k \in AllPbs : tree.count[k] > 0 => k \notin Gone(n)
    <3>1. \A k \in Below[n] : tree.count[k] = 0
      BY <2>2, AcceptedFacts
    <3> QED BY <3>1, <2>2 DEF Gone
  <2>8. \A k \in AllPbs :
          /\ u.tree.count[k] = tree.count[k]
          /\ tree.count[k] > 0 => /\ u.tree.mode[k] = tree.mode[k]
                                  /\ k \in Pb => u.router.mode[k] = router.mode[k]
    <3> TAKE k \in AllPbs
    <3>1. u.tree.count[k] = tree.count[k]
      <4>1. k \in Gone(n) => tree.count[k] = 0
        BY <2>7, <1>7
      <4> QED BY <4>1, <2>1, <1>4 DEF TreeFreed
    <3>2. tree.count[k] > 0 => u.tree.mode[k] = tree.mode[k]
      BY <2>1, <2>7, <1>4 DEF TreeFreed
    <3>3. tree.count[k] > 0 /\ k \in Pb => u.router.mode[k] = router.mode[k]
      BY <2>1, <2>2, <1>4 DEF RouterForgets
    <3> QED BY <3>1, <3>2, <3>3
  <2>9. ASSUME NEW k \in Pb, u.tree.mode[k] # NoKids PROVE MadeFor(u, k, rest, Anc(n))
    <3>1. k \notin Gone(n) /\ s.tree.mode[k] # NoKids /\ k \in AllPbs
      BY <2>1, <2>9, <1>8 DEF TreeFreed
    <3>2. MadeFor(s, k, rest, {n} \cup Anc(n)) /\ k # n
      BY <3>1, <1>5 DEF Gone
    <3>3. CASE \E a \in rest : s.at[a] # None /\ k \in Anc(at[a])
      <4>1. PICK a \in rest : s.at[a] # None /\ k \in Anc(at[a])
        BY <3>3
      <4>2. CASE a \in I
        <5>1. n \in Anc(at[a]) /\ at[a] \in AllPbs
          BY <4>2, <2>3, <1>8, AcceptedFacts
        <5>2. k \in Anc(n) \/ n \in Anc(k)
          BY <5>1, <4>1, <3>2, AboveIsChain
        <5>3. n \notin Anc(k)
          BY <3>1, BelowIs DEF Gone
        <5> QED BY <5>2, <5>3 DEF MadeFor
      <4>3. CASE a \notin I
        <5>1. u.at[a] = s.at[a]
          BY <4>3, <2>1, <2>4 DEF LookupCleared
        <5> QED BY <5>1, <4>1 DEF MadeFor
      <4> QED BY <4>2, <4>3
    <3> QED BY <3>2, <3>3 DEF MadeFor
  <2>10. \A t \in Type : u.tree.mode[t] = tree.mode[t] /\ u.router.mode[t] \in {0, router.mode[t]}
    <3> TAKE t \in Type
    <3>1. t \notin Gone(n) /\ t # n /\ t \in AllPbs
      BY <2>2, <1>8, BelowIs DEF Gone
    <3> QED BY <3>1, <2>1, <1>6 DEF TreeFreed, RouterForgets
  <2>11. {at[a] : a \in Accepted} \subseteq u.tree.named
    BY <2>1, <2>3, <1>6 DEF TreeFreed
  <2>12. u.tree.named \subseteq {at[a] : a \in Accepted \cup {b \in rest : u.at[b] # None}}
    <3>1. ASSUME NEW x \in u.tree.named
          PROVE  x \in {at[a] : a \in Accepted \cup {b \in rest : u.at[b] # None}}
      <4>1. x \in s.tree.named /\ x \notin Gone(n)
        BY <2>1 DEF TreeFreed
      <4>2. PICK a \in Accepted \cup {b \in rest : s.at[b] # None} : x = at[a]
        BY <4>1, <1>6
      <4>3. CASE a \in Accepted
        BY <4>2, <4>3
      <4>4. CASE a \in rest /\ s.at[a] # None
        <5>1. a \notin I
          <6>1. ASSUME a \in I PROVE FALSE
            <7>1. s.at[a] = at[a] /\ s.at[a] \in Gone(n)
              BY <6>1, <2>3 DEF Inside, Gone
            <7> QED BY <7>1, <4>1, <4>2
          <6> QED BY <6>1
        <5>2. u.at[a] = s.at[a]
          BY <4>4, <5>1, <2>1, <2>4 DEF LookupCleared
        <5> QED BY <4>2, <4>4, <5>2
      <4> QED BY <4>2, <4>3, <4>4
    <3> QED BY <3>1
  <2>13. u.router.added = router.added \ Trial /\ u.router.saved = router.saved
    BY <2>1, <1>3 DEF RouterForgets
  <2>14. Reverting(u, rest, Anc(n))
    BY <2>1, <2>5, <2>6, <2>8, <2>9, <2>10, <2>11, <2>12, <2>13 DEF Reverting
  <2> QED BY <2>14 DEF u
<1> QED BY <1>9, <1>10, <1>11

\* The walk from the parent of a primitive up to the root.
LEMMA WalkKeeps ==
  ASSUME IInv, ~Resting, NEW s, NEW rest \in SUBSET Trial, NEW p \in Primitive,
         Reverting(s, rest, Anc(p))
  PROVE  Reverting(ReleaseAll(s, Above[p]), rest, {})
<1> DEFINE h == Height(p)
           Ahead(i) == {Above[p][j] : j \in (i + 1)..h}
<1>1. p \in AllPbs /\ h \in Nat /\ Len(Above[p]) = h
  BY PrimitiveIsLeaf, PathTypes DEF Height
<1>2. PICK f : /\ f[0] = s /\ ReleaseAll(s, Above[p]) = f[h]
               /\ \A i \in 1..h : f[i] = Release(f[i - 1], Above[p][i])
  BY <1>1, ReleaseAllSteps
<1> HIDE DEF h
<1>3. Ahead(0) = Anc(p)
  <2>1. \A m : m \in Anc(p) <=> \E j \in 1..h : m = Above[p][j]
    BY <1>1, PathTypes DEF h
  <2>2. 0 + 1 = 1
    OBVIOUS
  <2> QED BY <2>1, <2>2
<1>4. Ahead(h) = {}
  BY <1>1
<1>5. ASSUME NEW i \in 1..h
      PROVE  /\ Above[p][i] \in AllPbs /\ Above[p][i] \notin Primitive
             /\ Anc(Above[p][i]) = Ahead(i)
             /\ Ahead(i - 1) = {Above[p][i]} \cup Ahead(i)
  <2> DEFINE n == Above[p][i]
  <2>1. n \in AllPbs /\ n \in Anc(p)
    BY <1>1, PathTypes DEF h
  <2>2. n \notin Primitive
    <3>1. p \in Below[n]
      BY <2>1, BelowIs, PrimitiveIsLeaf
    <3> QED BY <3>1, PrimitiveIsLeaf
  <2>3. Height(n) = h - i /\ \A j \in 1..(h - i) : Above[n][j] = Above[p][i + j]
    BY <1>1, WayUp DEF h, Suffix
  <2>4. Anc(n) = {Above[n][j] : j \in 1..(h - i)}
    <3>1. \A m : m \in Anc(n) <=> \E j \in 1..Height(n) : m = Above[n][j]
      BY <2>1, PathTypes
    <3> HIDE DEF n
    <3> QED BY <2>3, <3>1
  <2> HIDE DEF n
  <2>5. Anc(n) \subseteq Ahead(i)
    <3>1. \A j \in 1..(h - i) : i + j \in (i + 1)..h
      BY <1>1
    <3> QED BY <3>1, <2>3, <2>4
  <2>6. Ahead(i) \subseteq Anc(n)
    <3>1. ASSUME NEW j \in (i + 1)..h PROVE Above[p][j] \in Anc(n)
      <4>1. j - i \in 1..(h - i) /\ i + (j - i) = j
        BY <1>1
      <4>2. Above[n][j - i] = Above[p][j]
        BY <4>1, <2>3
      <4> QED BY <4>1, <4>2, <2>4
    <3> QED BY <3>1
  <2>7. (i - 1) + 1 = i /\ i..h = {i} \cup ((i + 1)..h)
    BY <1>1
  <2>8. Ahead(i - 1) = {n} \cup Ahead(i)
    <3>1. Ahead(i - 1) = {Above[p][j] : j \in {i} \cup ((i + 1)..h)}
      BY <2>7
    <3> QED BY <3>1 DEF n
  <2> QED BY <2>1, <2>2, <2>5, <2>6, <2>8 DEF n
<1> HIDE DEF Ahead
<1> DEFINE Good == {i \in Nat : i <= h => Reverting(f[i], rest, Ahead(i))}
<1>6. 0 \in Good
  BY <1>2, <1>3
<1>7. \A i \in Nat : i \in Good => i + 1 \in Good
  <2> SUFFICES ASSUME NEW i \in Nat, Reverting(f[i], rest, Ahead(i)), i + 1 <= h
               PROVE  Reverting(f[i + 1], rest, Ahead(i + 1))
    BY <1>1
  <2>1. i + 1 \in 1..h /\ (i + 1) - 1 = i
    BY <1>1
  <2> DEFINE n == Above[p][i + 1]
  <2>2. /\ n \in AllPbs /\ n \notin Primitive /\ Anc(n) = Ahead(i + 1)
        /\ Ahead(i) = {n} \cup Ahead(i + 1)
    BY <2>1, <1>5
  <2>3. f[i + 1] = Release(f[i], n)
    BY <2>1, <1>2
  <2> HIDE DEF n
  <2>4. Reverting(f[i], rest, {n} \cup Anc(n))
    BY <2>2
  <2>5. Reverting(Release(f[i], n), rest, Anc(n))
    BY <2>2, <2>4, ReleaseKeeps
  <2> QED BY <2>2, <2>3, <2>5
<1>8. h \in Good
  <2> HIDE DEF Good
  <2>1. Nat \subseteq Good
    BY <1>6, <1>7, NatSetInduction
  <2> QED BY <2>1, <1>1
<1>9. Reverting(f[h], rest, {})
  <2>1. Reverting(f[h], rest, Ahead(h))
    BY <1>1, <1>8
  <2> QED BY <2>1, <1>4
<1> QED BY <1>2, <1>9

\* One atom of the molecule is taken back.
LEMMA RevertAtomKeeps ==
  ASSUME IInv, ~Resting, NEW s, NEW rest \in SUBSET Trial, NEW a \in rest,
         Reverting(s, rest, {})
  PROVE  Reverting(RevertAtom(s, a), rest \ {a}, {})
<1> DEFINE p == s.at[a]
           c == Cleared(s, {a})
           d == [c EXCEPT !.alive = @ /\ s.tree.mode[Parent(p)] # NoKids]
           u == Free(d, p)
<1>1. s \in UndoStates /\ Trial \subseteq Atom /\ Accepted \subseteq Atom
      /\ a \in Trial /\ Trial \subseteq InOpen /\ Open # 0
  BY AcceptedFacts DEF Reverting, Accepted
<1>2. /\ c \in UndoStates /\ LookupCleared(s, c, {a})
      /\ c.tree = s.tree /\ c.router = s.router /\ c.valid = s.valid
  <2>1. {a} \in SUBSET Atom
    BY <1>1
  <2> QED BY <1>1, <2>1, ClearedIs
<1>3. RevertAtom(s, a) = IF p = None THEN c ELSE ReleaseAll(u, Above[p])
  BY DEF RevertAtom
<1>4. /\ s.valid = valid /\ s.router.saved = router.saved
      /\ s.router.added = router.added \ Trial
      /\ \A b \in Atom \ Trial : s.at[b] = at[b] /\ s.clb[b] = clb[b]
      /\ \A b \in Trial : \/ s.at[b] = None /\ s.clb[b] = 0
                          \/ b \in rest /\ s.at[b] = at[b] /\ s.clb[b] = Open
  BY DEF Reverting
<1>5. \A k \in AllPbs :
        /\ s.tree.count[k] = tree.count[k]
        /\ tree.count[k] > 0 => /\ s.tree.mode[k] = tree.mode[k]
                                /\ k \in Pb => s.router.mode[k] = router.mode[k]
  BY DEF Reverting
<1>6. \A k \in Pb : s.tree.mode[k] # NoKids => MadeFor(s, k, rest, {})
  BY DEF Reverting
<1>7. /\ \A t \in Type : /\ s.tree.mode[t] = tree.mode[t]
                         /\ s.router.mode[t] \in {0, router.mode[t]}
      /\ {at[b] : b \in Accepted} \subseteq s.tree.named
      /\ s.tree.named \subseteq {at[b] : b \in Accepted \cup {e \in rest : s.at[e] # None}}
  BY DEF Reverting
<1> HIDE DEF c
<1>8. /\ \A b \in Atom \ Trial : c.at[b] = at[b] /\ c.clb[b] = clb[b]
      /\ \A b \in Trial : \/ c.at[b] = None /\ c.clb[b] = 0
                          \/ b \in rest \ {a} /\ c.at[b] = at[b] /\ c.clb[b] = Open
      /\ \A b \in rest : b # a => c.at[b] = s.at[b]
  BY <1>1, <1>2, <1>4 DEF LookupCleared
<1>9. CASE p = None
  <2>1. ASSUME NEW k \in Pb, c.tree.mode[k] # NoKids PROVE MadeFor(c, k, rest \ {a}, {})
    <3>1. MadeFor(s, k, rest, {})
      BY <2>1, <1>2, <1>6
    <3>2. \A b \in rest : s.at[b] # None => b \in rest \ {a} /\ c.at[b] = s.at[b]
      BY <1>8, <1>9
    <3> QED BY <3>1, <3>2 DEF MadeFor
  <2>2. c.tree.named \subseteq {at[b] : b \in Accepted \cup {e \in rest \ {a} : c.at[e] # None}}
    <3>1. \A e \in rest : s.at[e] # None => e \in rest \ {a} /\ c.at[e] # None
      BY <1>8, <1>9
    <3> QED BY <3>1, <1>2, <1>7
  <2>3. /\ c.router.added = router.added \ Trial /\ c.router.saved = router.saved
        /\ c.valid = valid
        /\ {at[b] : b \in Accepted} \subseteq c.tree.named
    BY <1>2, <1>4, <1>7
  <2>4. \A k \in AllPbs :
          /\ c.tree.count[k] = tree.count[k]
          /\ tree.count[k] > 0 => /\ c.tree.mode[k] = tree.mode[k]
                                  /\ k \in Pb => c.router.mode[k] = router.mode[k]
    BY <1>2, <1>5
  <2>5. \A t \in Type : /\ c.tree.mode[t] = tree.mode[t]
                         /\ c.router.mode[t] \in {0, router.mode[t]}
    BY <1>2, <1>7
  <2>6. c \in UndoStates
    BY <1>2
  <2>7. Reverting(c, rest \ {a}, {})
    BY <2>1, <2>2, <2>3, <2>4, <2>5, <2>6, <1>8 DEF Reverting
  <2> QED BY <2>7, <1>3, <1>9
<1>10. CASE p # None
  <2>1. p = at[a] /\ s.clb[a] = Open /\ clb[a] = Open /\ a \in Atom
    BY <1>1, <1>4, <1>10 DEF InOpen
  <2>2. p \in Primitive /\ p \in AllPbs /\ Below[p] = {} /\ p \in Pb
    BY <1>1, <2>1, AcceptedFacts, PrimitiveIsLeaf
  <2>3. Gone(p) = {p}
    BY <2>2 DEF Gone
  <2>4. /\ d \in UndoStates /\ d.tree = s.tree /\ d.router = s.router /\ d.valid = s.valid
        /\ d.at = c.at /\ d.clb = c.clb
    BY <1>2 DEF UndoStates
  <2> HIDE DEF p, d
  <2>5. /\ u \in UndoStates /\ LookupCleared(d, u, Inside(d, p)) /\ TreeFreed(d, u, p)
        /\ u.router = d.router /\ u.valid = d.valid
    BY <2>2, <2>4, FreeIs
  <2> HIDE DEF u
  <2>6. \A b \in InOpen : b # a => at[b] # p
    <3>1. Lookups
      BY DEF IInv
    <3>2. ASSUME NEW b \in Atom, clb[b] = Open, b # a PROVE at[b] # p
      BY <3>1, <3>2, <2>1, <1>1 DEF Lookups
    <3> QED BY <3>2 DEF InOpen
  <2>7. Inside(d, p) = {}
    <3>1. ASSUME NEW b \in Inside(d, p) PROVE FALSE
      <4>1. b \in Atom /\ c.clb[b] = Open /\ c.at[b] = p
        BY <2>2, <2>4 DEF Inside
      <4>2. b # a
        BY <4>1, <1>1, <1>2 DEF LookupCleared
      <4>3. b \in InOpen /\ at[b] = p
        BY <4>1, <4>2, <1>1, <1>8 DEF InOpen
      <4> QED BY <4>2, <4>3, <2>6
    <3> QED BY <3>1
  <2>8. \A b \in Atom : u.at[b] = c.at[b] /\ u.clb[b] = c.clb[b]
    BY <2>4, <2>5, <2>7 DEF LookupCleared
  <2>9. tree.count[p] = 0
    <3>1. Under(p, Accepted) = {}
      <4>1. \A b \in Accepted : at[b] \in Pb
        BY AcceptedFacts DEF Accepted
      <4>2. \A b \in Accepted : p \notin Anc(at[b])
        BY <4>1, <2>2, BelowIs
      <4> QED BY <4>2 DEF Under
    <3> QED BY <3>1, <2>2, AcceptedFacts
  <2>10. \A k \in AllPbs :
           /\ u.tree.count[k] = tree.count[k]
           /\ tree.count[k] > 0 => /\ u.tree.mode[k] = tree.mode[k]
                                   /\ k \in Pb => u.router.mode[k] = router.mode[k]
    <3> TAKE k \in AllPbs
    <3>1. CASE k = p
      BY <3>1, <2>3, <2>4, <2>5, <2>9 DEF TreeFreed
    <3>2. CASE k # p
      BY <3>2, <2>3, <2>4, <2>5, <1>5 DEF TreeFreed
    <3> QED BY <3>1, <3>2
  <2>11. ASSUME NEW k \in Pb, u.tree.mode[k] # NoKids
         PROVE  MadeFor(u, k, rest \ {a}, Anc(p))
    <3>1. s.tree.mode[k] # NoKids /\ k \in AllPbs
      BY <2>3, <2>4, <2>5, <2>11 DEF TreeFreed, AllPbs
    <3>2. MadeFor(s, k, rest, {})
      BY <3>1, <1>6
    <3>3. \A b \in rest : s.at[b] # None /\ k \in Anc(at[b]) =>
            k \in Anc(p) \/ (b \in rest \ {a} /\ u.at[b] # None)
      BY <1>1, <1>8, <2>1, <2>8
    <3> QED BY <3>2, <3>3 DEF MadeFor
  <2>12. \A t \in Type : u.tree.mode[t] = tree.mode[t] /\ u.router.mode[t] \in {0, router.mode[t]}
    <3> TAKE t \in Type
    <3>1. t # p /\ t \in AllPbs
      BY <2>2, TreeAssumption DEF AllPbs
    <3> QED BY <3>1, <2>3, <2>4, <2>5, <1>7 DEF TreeFreed
  <2>13. {at[b] : b \in Accepted} \subseteq u.tree.named
    <3>1. \A b \in Accepted : at[b] # p
      BY <2>6, <1>1 DEF Accepted
    <3> QED BY <3>1, <2>3, <2>4, <2>5, <1>7 DEF TreeFreed
  <2>14. u.tree.named \subseteq {at[b] : b \in Accepted \cup {e \in rest \ {a} : u.at[e] # None}}
    <3>1. ASSUME NEW x \in u.tree.named
          PROVE  x \in {at[b] : b \in Accepted \cup {e \in rest \ {a} : u.at[e] # None}}
      <4>1. x \in s.tree.named /\ x # p
        BY <2>3, <2>4, <2>5 DEF TreeFreed
      <4>2. PICK b \in Accepted \cup {e \in rest : s.at[e] # None} : x = at[b]
        BY <4>1, <1>7
      <4>3. b \in rest => b # a /\ u.at[b] = s.at[b]
        BY <4>1, <4>2, <1>1, <1>8, <2>1, <2>8
      <4> QED BY <4>2, <4>3
    <3> QED BY <3>1
  <2>15. /\ \A b \in Atom \ Trial : u.at[b] = at[b] /\ u.clb[b] = clb[b]
         /\ \A b \in Trial : \/ u.at[b] = None /\ u.clb[b] = 0
                             \/ b \in rest \ {a} /\ u.at[b] = at[b] /\ u.clb[b] = Open
    BY <1>1, <1>8, <2>8
  <2>16. /\ u.valid = valid /\ u.router.saved = router.saved
         /\ u.router.added = router.added \ Trial
    BY <2>4, <2>5, <1>4
  <2>17. Reverting(u, rest \ {a}, Anc(p))
    BY <2>5, <2>10, <2>11, <2>12, <2>13, <2>14, <2>15, <2>16 DEF Reverting
  <2>18. Reverting(ReleaseAll(u, Above[p]), rest \ {a}, {})
    <3>1. rest \ {a} \in SUBSET Trial
      OBVIOUS
    <3> QED BY <2>2, <2>17, <3>1, WalkKeeps
  <2> QED BY <2>18, <1>3, <1>10
<1> QED BY <1>9, <1>10

\* When nothing is left to be taken back, the cluster is at rest again.
LEMMA RevertedKeeps ==
  ASSUME IInv, pc = "revert", pc' = "find", NEW s, Reverting(s, {}, {}), Become(s),
         UNCHANGED <<loop, left, cluster, attempt, queue, usable, search, result>>
  PROVE  /\ IInv' /\ Accepted' = Accepted /\ \A a \in Accepted : at'[a] = at[a]
         /\ \A a \in Atom : clb'[a] = IF a \in Trial THEN 0 ELSE clb[a]
<1>1. ~Resting /\ Resting'
  BY DEF Resting
<1>2. /\ Types /\ Control /\ Lookups /\ Valids /\ Trees /\ Routers /\ Books /\ Seeds
  BY DEF IInv
<1>3. /\ tree' = s.tree /\ router' = s.router /\ at' = s.at /\ clb' = s.clb /\ valid' = s.valid
  BY DEF Become
<1>4. /\ stage' = stage /\ seen' = seen /\ seed' = seed /\ left' = left /\ type' = type
      /\ topMode' = topMode /\ opened' = opened /\ mol' = mol /\ site' = site
      /\ placed' = placed /\ search' = search /\ intra' = intra /\ used' = used
  BY DEF loop, cluster, attempt, result
<1>5. /\ s \in UndoStates
      /\ valid' = valid /\ router'.saved = router.saved
      /\ router'.added = router.added \ Trial
      /\ \A a \in Atom \ Trial : at'[a] = at[a] /\ clb'[a] = clb[a]
      /\ \A a \in Trial : at'[a] = None /\ clb'[a] = 0
  BY <1>3 DEF Reverting
<1>6. \A n \in AllPbs :
        /\ tree'.count[n] = tree.count[n]
        /\ tree.count[n] > 0 => /\ tree'.mode[n] = tree.mode[n]
                                /\ n \in Pb => router'.mode[n] = router.mode[n]
  BY <1>3 DEF Reverting
<1>7. \A n \in Pb : tree'.mode[n] # NoKids => tree.count[n] > 0
  BY <1>3 DEF Reverting, MadeFor
<1>8. /\ \A t \in Type : tree'.mode[t] = tree.mode[t] /\ router'.mode[t] \in {0, router.mode[t]}
      /\ tree'.named = {at[a] : a \in Accepted}
  BY <1>3 DEF Reverting
<1>9. /\ Trial \subseteq InOpen /\ InOpen \subseteq Atom /\ Open \in Nat /\ Open # 0
      /\ Accepted \subseteq Atom \ Trial
  BY AcceptedFacts DEF Accepted
<1>10. Trial' = {} /\ Open' = Open
  BY <1>1, <1>4 DEF Trial, Open, NumClb
<1>11. InOpen' = Accepted
  <2>1. InOpen' = {a \in Atom : clb'[a] = Open}
    BY <1>10 DEF InOpen
  <2>2. \A a \in Atom : clb'[a] = Open <=> a \in Accepted
    BY <1>5, <1>9 DEF Accepted, InOpen
  <2> QED BY <2>1, <2>2, <1>9
<1>12. Accepted' = Accepted /\ \A a \in Accepted : at'[a] = at[a]
  BY <1>5, <1>9, <1>10, <1>11 DEF Accepted
<1>13. \A n : Under(n, Accepted)' = Under(n, Accepted)
  <2>1. \A n : Under(n, Accepted)' = {a \in Accepted' : n \in Anc(at'[a])}
    BY DEF Under, Anc
  <2> QED BY <2>1, <1>12 DEF Under
<1>14. \A n : Under(n, InOpen)' = Under(n, Accepted)
  <2>1. \A n : Under(n, InOpen)' = {a \in InOpen' : n \in Anc(at'[a])}
    BY DEF Under, Anc
  <2> QED BY <2>1, <1>11, <1>12 DEF Under
<1>15. Pb \subseteq AllPbs /\ Type \subseteq AllPbs
  BY DEF AllPbs
<1>16. \A a \in Accepted : \A n \in Anc(at[a]) : n \in AllPbs /\ tree.count[n] > 0
  <2> TAKE a \in Accepted
  <2> TAKE n \in Anc(at[a])
  <2>1. at[a] \in AllPbs
    BY <1>9, <1>15, AcceptedFacts DEF Accepted
  <2>2. n \in AllPbs
    BY <2>1, PathTypes
  <2>3. Under(n, Accepted) # {}
    BY DEF Under
  <2> QED BY <2>2, <2>3, AcceptedFacts
<1>17. Types'
  <2>1. at' \in [Atom -> Holders] /\ clb' \in [Atom -> Nat] /\ tree' \in TreeStates
        /\ router' \in RouterStates
    BY <1>3, <1>5 DEF UndoStates
  <2>2. valid' \subseteq Molecule
    BY <1>2, <1>5 DEF Types
  <2> QED BY <2>1, <2>2, <1>2, <1>4 DEF Types
<1>18. Control'
  <2>1. /\ pc \in Working /\ pc \in Filling /\ pc \in FirstTry
        /\ pc' \in Working /\ pc' \in Filling /\ pc' \in FirstTry
    BY DEF Working, Filling, FirstTry
  <2> QED BY <2>1, <1>1, <1>2, <1>4, <1>5, <1>12 DEF Control
<1>19. Lookups'
  <2>1. \A a \in Atom : clb'[a] <= Open /\ (at'[a] = None <=> clb'[a] = 0)
    BY <1>2, <1>5, <1>9 DEF Lookups
  <2>2. \A a, b \in Atom : a # b /\ clb'[a] # 0 => <<clb'[a], at'[a]>> # <<clb'[b], at'[b]>>
    <3> SUFFICES ASSUME NEW a \in Atom, NEW b \in Atom, a # b, clb'[a] # 0,
                        clb'[a] = clb'[b], at'[a] = at'[b]
                 PROVE  FALSE
      OBVIOUS
    <3>1. a \notin Trial /\ b \notin Trial
      BY <1>5
    <3> QED BY <3>1, <1>2, <1>5 DEF Lookups
  <2>3. \A a \in InOpen' : at'[a] \in PrimitivesOf(type)
    BY <1>2, <1>11, <1>12 DEF Lookups, Accepted
  <2> QED BY <2>1, <2>2, <2>3, <1>1, <1>2, <1>4, <1>10, <1>12 DEF Lookups
<1>20. Valids'
  <2>1. valid = {m \in Molecule : \A a \in Atoms(m) : clb[a] = 0 \/ a \in Trial}
    BY <1>2 DEF Valids
  <2>2. \A a \in Atom : clb'[a] = 0 <=> clb[a] = 0 \/ a \in Trial
    BY <1>5
  <2>3. \A m \in Molecule : (\A a \in Atoms(m) : clb[a] = 0 \/ a \in Trial)
                              <=> (\A a \in Atoms(m) : clb'[a] = 0 \/ a \in Trial')
    BY <2>2, <1>10, MoleculeAtoms
  <2>4. valid' = {m \in Molecule : \A a \in Atoms(m) : clb'[a] = 0 \/ a \in Trial'}
    BY <2>1, <2>3, <1>5
  <2> QED BY <2>4, <1>2, <1>4, <1>5 DEF Valids
<1>21. Trees'
  <2>1. \A n \in AllPbs : tree'.count[n] = Cardinality(Under(n, Accepted)')
    BY <1>2, <1>6, <1>13 DEF Trees
  <2>2. \A n \in Pb : tree'.mode[n] # NoKids <=> Under(n, InOpen)' # {}
    <3> TAKE n \in Pb
    <3>1. tree.count[n] \in Nat /\ (tree.count[n] = 0 <=> Under(n, Accepted) = {})
      BY <1>15, AcceptedFacts
    <3>2. ASSUME tree.count[n] > 0 PROVE tree'.mode[n] # NoKids
      <4>1. Under(n, InOpen) # {}
        BY <3>1, <3>2 DEF Under, Accepted
      <4> QED BY <4>1, <3>2, <1>2, <1>6, <1>15 DEF Trees
    <3> QED BY <3>1, <3>2, <1>7, <1>14
  <2>3. \A t \in Type : t # type' => tree'.mode[t] = NoKids
    BY <1>2, <1>4, <1>8 DEF Trees
  <2>4. \A a \in InOpen' : \A n \in Anc(at'[a]) : tree'.mode[n] = ModeToward[n][at'[a]]
    <3>1. \A a \in Accepted : a \in InOpen
      BY DEF Accepted
    <3> QED BY <3>1, <1>2, <1>6, <1>11, <1>12, <1>16 DEF Trees
  <2>5. tree'.named = {at'[a] : a \in InOpen'} /\ tree'.named = {at'[a] : a \in Accepted'}
    BY <1>8, <1>11, <1>12
  <2> QED BY <2>1, <2>2, <2>3, <2>4, <2>5 DEF Trees, Anc
<1>22. Routers'
  <2>1. router'.added = InOpen'
    BY <1>2, <1>5, <1>9, <1>11 DEF Routers, Accepted
  <2>2. \A a \in InOpen' : \A n \in Anc(at'[a]) \cap Pb : router'.mode[n] = tree'.mode[n]
    <3>1. \A a \in Accepted : a \in InOpen
      BY DEF Accepted
    <3> QED BY <3>1, <1>2, <1>6, <1>11, <1>12, <1>16 DEF Routers
  <2>3. \A t \in Type : tree'.mode[t] # NoKids => router'.mode[t] \in {0, tree'.mode[t]}
    BY <1>2, <1>8 DEF Routers
  <2>4. Placement(Accepted)' = Placement(Accepted)
    <3>1. Placement(Accepted)' = {<<a, at'[a]>> : a \in Accepted'}
      BY DEF Placement
    <3> QED BY <3>1, <1>12 DEF Placement
  <2>5. stage' = 2 /\ opened' => router'.saved = Placement(Accepted)'
    BY <2>4, <1>2, <1>4, <1>5 DEF Routers
  <2> QED BY <2>1, <2>2, <2>3, <2>5 DEF Routers, Anc
<1>23. Books'
  <2>1. \A c \in 1..NumClb : \A a \in Atom : clb'[a] = c <=> clb[a] = c
    <3>1. NumClb \in Nat
      BY <1>2, LenProperties DEF Types, NumClb
    <3>2. \A c \in 1..NumClb : c # Open /\ c # 0
      BY <3>1 DEF Open
    <3> QED BY <3>2, <1>5, <1>9 DEF InOpen
  <2>2. NumClb' = NumClb
    BY <1>4 DEF NumClb
  <2>3. ASSUME NEW c \in 1..NumClb
        PROVE  intra'[c] = {<<a, at'[a]>> : a \in {b \in Atom : clb'[b] = c}}
    <3>1. {b \in Atom : clb'[b] = c} = {b \in Atom : clb[b] = c}
      BY <2>1
    <3>2. \A a \in {b \in Atom : clb[b] = c} : at'[a] = at[a]
      <4>1. c # Open
        <5>1. NumClb \in Nat
          BY <1>2, LenProperties DEF Types, NumClb
        <5> QED BY <5>1 DEF Open
      <4> QED BY <4>1, <1>5, <1>9 DEF InOpen
    <3>3. intra[c] = {<<a, at[a]>> : a \in {b \in Atom : clb[b] = c}}
      BY <1>2 DEF Books, Placement
    <3> QED BY <3>1, <3>2, <3>3, <1>4
  <2>4. ASSUME NEW t \in Type PROVE ClustersOf(t)' = ClustersOf(t)
    <3>1. ClustersOf(t)' = {clb'[a] : a \in {b \in Atom \ Trial' : clb'[b] # 0 /\ TypeOf(at'[b]) = t}}
      BY DEF ClustersOf, TypeOf
    <3>2. {b \in Atom \ Trial' : clb'[b] # 0 /\ TypeOf(at'[b]) = t}
            = {b \in Atom \ Trial : clb[b] # 0 /\ TypeOf(at[b]) = t}
      BY <1>5, <1>10
    <3> QED BY <3>1, <3>2, <1>5 DEF ClustersOf
  <2> QED BY <2>2, <2>3, <2>4, <1>2, <1>4 DEF Books, Placement
<1>24. Seeds'
  <2>1. NumClb' = NumClb
    BY <1>4 DEF NumClb
  <2>2. NumClb \in Nat
    BY <1>2, LenProperties DEF Types, NumClb
  <2>3. ASSUME NEW a \in seen, clb[a] \in 1..NumClb PROVE clb'[a] = clb[a]
    <3>1. clb[a] # Open /\ a \in Atom
      BY <2>2, <2>3, <1>2 DEF Open, Types
    <3> QED BY <3>1, <1>5, <1>9 DEF InOpen
  <2> QED BY <2>1, <2>3, <1>2, <1>4 DEF Seeds
<1> QED BY <1>5, <1>12, <1>17, <1>18, <1>19, <1>20, <1>21, <1>22, <1>23, <1>24 DEF IInv

\* A molecule that is refused is taken back to the last atom: the cluster is as
\* it was before its first one.
LEMMA RevertKeeps ==
  ASSUME IInv, Revert
  PROVE  /\ IInv' /\ Accepted' = Accepted /\ \A a \in Accepted : at'[a] = at[a]
         /\ \A a \in Atom : clb'[a] = IF a \in Trial THEN 0 ELSE clb[a]
<1> DEFINE start == RemovedFromRouter(Undoing)
           as == SubSeq(AtomsOf[mol], 1, placed)
           s == RevertAll(start, as)
           Rest(i) == {AtomsOf[mol][j] : j \in (i + 1)..placed}
<1>1. /\ pc = "revert" /\ pc' = "find" /\ Become(s)
      /\ UNCHANGED <<loop, left, cluster, attempt, queue, usable, search, result>>
  BY DEF Revert
<1>2. ~Resting
  BY <1>1 DEF Resting
<1>3. /\ Types /\ Control /\ Lookups /\ Valids /\ Trees /\ Routers /\ Books /\ Seeds
  BY DEF IInv
<1>4. /\ mol \in Molecule /\ mol \in valid /\ placed \in Nat /\ placed <= Len(AtomsOf[mol])
      /\ Trial = {AtomsOf[mol][i] : i \in 1..placed} /\ Trial \subseteq Atoms(mol)
  BY <1>2, InMolecule
<1>5. Trial \subseteq InOpen /\ InOpen \subseteq Atom /\ Open \in Nat /\ Open # 0
  BY AcceptedFacts
<1>6. Rest(0) = Trial /\ Rest(placed) = {}
  BY <1>4
<1>7. /\ start \in UndoStates
      /\ start.tree = tree /\ start.router.mode = router.mode /\ start.router.saved = router.saved
      /\ start.at = at /\ start.clb = clb /\ start.valid = valid
      /\ start.router.added = router.added \ Trial
  <2>1. Undoing \in UndoStates
    BY <1>3 DEF Types, Undoing, UndoStates
  <2>2. /\ Undoing.tree = tree /\ Undoing.router = router /\ Undoing.at = at
        /\ Undoing.clb = clb /\ Undoing.valid = valid
    BY DEF Undoing
  <2> DEFINE r == [router EXCEPT !.added = router.added \ Trial]
  <2>3. r \in RouterStates /\ r.mode = router.mode /\ r.saved = router.saved
        /\ r.added = router.added \ Trial
    BY <1>3 DEF Types, RouterStates
  <2>4. start = [Undoing EXCEPT !.router = r]
    BY <1>4, <2>2 DEF RemovedFromRouter
  <2> HIDE DEF r, start
  <2> QED BY <2>1, <2>2, <2>3, <2>4 DEF UndoStates
<1>8. Reverting(start, Trial, {})
  <2> HIDE DEF start
  <2>1. \A a \in Trial : a \in Trial /\ start.at[a] = at[a] /\ start.clb[a] = Open
    BY <1>5, <1>7 DEF InOpen
  <2>2. ASSUME NEW n \in Pb, start.tree.mode[n] # NoKids PROVE MadeFor(start, n, Trial, {})
    <3>1. PICK a \in InOpen : n \in Anc(at[a])
      BY <2>2, <1>3, <1>7 DEF Trees, Under
    <3>2. CASE a \in Trial
      <4>1. at[a] # None
        BY <3>1, AcceptedFacts, PrimitiveIsLeaf
      <4> QED BY <3>1, <3>2, <4>1, <1>7 DEF MadeFor
    <3>3. CASE a \notin Trial
      <4>1. Under(n, Accepted) # {}
        BY <3>1, <3>3 DEF Accepted, Under
      <4>2. tree.count[n] > 0
        BY <4>1, AcceptedFacts DEF AllPbs
      <4> QED BY <4>2 DEF MadeFor
    <3> QED BY <3>2, <3>3
  <2>3. \A t \in Type : start.router.mode[t] \in {0, router.mode[t]}
    BY <1>7
  <2>4. /\ {at[a] : a \in Accepted} \subseteq start.tree.named
        /\ start.tree.named \subseteq {at[a] : a \in Accepted \cup {b \in Trial : start.at[b] # None}}
    <3>1. \A b \in Trial : start.at[b] # None
      BY <1>5, <1>7, AcceptedFacts, PrimitiveIsLeaf
    <3>2. InOpen = Accepted \cup {b \in Trial : start.at[b] # None}
      BY <3>1, <1>5 DEF Accepted
    <3> QED BY <3>2, <1>3, <1>7 DEF Trees
  <2> QED BY <2>1, <2>2, <2>3, <2>4, <1>7 DEF Reverting
<1>9. Len(as) = placed /\ \A i \in 1..placed : as[i] = AtomsOf[mol][i]
  <2>1. AtomsOf[mol] \in Seq(Atom)
    BY <1>4, MoleculeAtoms
  <2> QED BY <2>1, <1>4
<1>10. PICK f : /\ f[0] = start /\ s = f[placed]
                /\ \A i \in 1..placed : f[i] = RevertAtom(f[i - 1], AtomsOf[mol][i])
  <2> HIDE DEF as, start
  <2>1. Len(as) \in Nat
    BY <1>4, <1>9
  <2>2. PICK f : /\ f[0] = start /\ RevertAll(start, as) = f[Len(as)]
                 /\ \A i \in 1..Len(as) : f[i] = RevertAtom(f[i - 1], as[i])
    <3>1. PICK s0 : s0 = start
      OBVIOUS
    <3>2. PICK as0 : as0 = as
      OBVIOUS
    <3>3. \E g : /\ g[0] = s0 /\ RevertAll(s0, as0) = g[Len(as0)]
                 /\ \A i \in 1..Len(as0) : g[i] = RevertAtom(g[i - 1], as0[i])
      <4>1. Len(as0) \in Nat
        BY <2>1, <3>2
      <4> QED BY ONLY <4>1, RevertAllSteps
    <3> QED BY <3>1, <3>2, <3>3
  <2> QED BY <2>2, <1>9
<1> HIDE DEF as, start
<1>11. ASSUME NEW i \in 1..placed
       PROVE  /\ AtomsOf[mol][i] \in Rest(i - 1) /\ Rest(i - 1) \in SUBSET Trial
              /\ Rest(i - 1) \ {AtomsOf[mol][i]} = Rest(i)
  <2>1. (i - 1) + 1 = i /\ i..placed = {i} \cup ((i + 1)..placed) /\ i..placed \subseteq 1..placed
    BY <1>4
  <2>2. \A j \in (i + 1)..placed : AtomsOf[mol][j] # AtomsOf[mol][i]
    <3>1. \A j \in (i + 1)..placed : j # i /\ j \in 1..Len(AtomsOf[mol])
      BY <1>4
    <3>2. i \in 1..Len(AtomsOf[mol])
      BY <1>4
    <3> QED BY <3>1, <3>2, <1>4, MoleculeAtoms
  <2> QED BY <2>1, <2>2, <1>4
<1> HIDE DEF Rest
<1> DEFINE Good == {i \in Nat : i <= placed => Reverting(f[i], Rest(i), {})}
<1>12. 0 \in Good
  BY <1>6, <1>8, <1>10
<1>13. \A i \in Nat : i \in Good => i + 1 \in Good
  <2> SUFFICES ASSUME NEW i \in Nat, Reverting(f[i], Rest(i), {}), i + 1 <= placed
               PROVE  Reverting(f[i + 1], Rest(i + 1), {})
    BY <1>4
  <2>1. i + 1 \in 1..placed /\ (i + 1) - 1 = i
    BY <1>4
  <2> DEFINE a == AtomsOf[mol][i + 1]
  <2>2. a \in Rest(i) /\ Rest(i) \in SUBSET Trial /\ Rest(i) \ {a} = Rest(i + 1)
    BY <2>1, <1>11
  <2>3. f[i + 1] = RevertAtom(f[i], a)
    BY <2>1, <1>10
  <2> HIDE DEF a
  <2>4. Reverting(RevertAtom(f[i], a), Rest(i) \ {a}, {})
    BY <2>2, <1>2, RevertAtomKeeps
  <2> QED BY <2>2, <2>3, <2>4
<1>14. Reverting(s, {}, {})
  <2>1. placed \in Good
    <3> HIDE DEF Good
    <3>1. Nat \subseteq Good
      BY <1>12, <1>13, NatSetInduction
    <3> QED BY <3>1, <1>4
  <2>2. Reverting(f[placed], Rest(placed), {})
    BY <2>1, <1>4
  <2> QED BY <2>2, <1>6, <1>10
<1> HIDE DEF s
<1>15. QED BY <1>1, <1>14, RevertedKeeps

-----------------------------------------------------------------------------
(* The lists of primitives.                                                *)

LEMMA RequeueAllSteps ==
  ASSUME NEW q, NEW ps, Len(SetToSeq(ps)) \in Nat
  PROVE  \E f : /\ f[0] = q /\ RequeueAll(ps, q) = f[Len(SetToSeq(ps))]
                /\ \A i \in 1..Len(SetToSeq(ps)) : f[i] = Requeue(SetToSeq(ps)[i], f[i - 1])
<1> DEFINE n == Len(SetToSeq(ps))
           Is(f, k) == f = [i \in 0..k |-> IF i = 0 THEN q ELSE Requeue(SetToSeq(ps)[i], f[i - 1])]
           Good == {k \in Nat : \E f : Is(f, k)}
<1>1. 0 \in Good
  <2>1. Is([i \in 0..0 |-> q], 0)
    OBVIOUS
  <2> HIDE DEF Is
  <2> QED BY <2>1
<1>2. \A k \in Nat : k \in Good => k + 1 \in Good
  <2> SUFFICES ASSUME NEW k \in Nat, k \in Good PROVE \E f : Is(f, k + 1)
    <3> HIDE DEF Is
    <3> QED OBVIOUS
  <2>1. PICK f : Is(f, k)
    <3> HIDE DEF Is
    <3> QED OBVIOUS
  <2> DEFINE g == [i \in 0..(k + 1) |-> IF i = k + 1 THEN Requeue(SetToSeq(ps)[k + 1], f[k]) ELSE f[i]]
  <2>2. ASSUME NEW i \in 0..(k + 1)
        PROVE  g[i] = IF i = 0 THEN q ELSE Requeue(SetToSeq(ps)[i], g[i - 1])
    <3>1. CASE i = k + 1
      <4>1. g[i] = Requeue(SetToSeq(ps)[k + 1], f[k]) /\ g[i - 1] = f[k] /\ i # 0
        BY <3>1
      <4> HIDE DEF g
      <4> QED BY <3>1, <4>1
    <3>2. CASE i # k + 1
      <4>1. i \in 0..k /\ g[i] = f[i]
        BY <3>2
      <4>2. f[i] = IF i = 0 THEN q ELSE Requeue(SetToSeq(ps)[i], f[i - 1])
        BY <2>1, <4>1
      <4>3. i # 0 => g[i - 1] = f[i - 1]
        BY <4>1
      <4> HIDE DEF g
      <4> QED BY <4>1, <4>2, <4>3
    <3> QED BY <3>1, <3>2
  <2>3. g = [i \in 0..(k + 1) |-> g[i]]
    OBVIOUS
  <2>4. Is(g, k + 1)
    <3> HIDE DEF g
    <3> QED BY <2>2, <2>3
  <2> HIDE DEF Is, g
  <2> QED BY <2>4
<1>3. n \in Good
  <2> HIDE DEF Good, n
  <2>1. Nat \subseteq Good
    BY <1>1, <1>2, NatSetInduction
  <2> QED BY <2>1 DEF n
<1>4. \E f : Is(f, n)
  <2> HIDE DEF Is
  <2> QED BY <1>3
<1> DEFINE h == CHOOSE f : Is(f, n)
<1>5. Is(h, n)
  <2> HIDE DEF Is
  <2> QED BY <1>4
<1>6. RequeueAll(ps, q) = h[n]
  BY DEF RequeueAll
<1>7. 0 \in 0..n /\ \A i \in 1..n : i \in 0..n /\ i # 0
  OBVIOUS
<1>8. h[0] = q /\ \A i \in 1..n : h[i] = Requeue(SetToSeq(ps)[i], h[i - 1])
  <2> HIDE DEF h
  <2> QED BY <1>5, <1>7
<1> HIDE DEF h
<1> QED BY <1>6, <1>8

LEMMA MaxIn ==
  ASSUME NEW n \in Nat, NEW S \in SUBSET (1..n), S # {}
  PROVE  Max(S) \in S
<1> DEFINE Good == {k \in Nat : \A T \in SUBSET (1..k) : T # {} => \E x \in T : \A y \in T : x >= y}
<1>1. 0 \in Good
  <2>1. 1..0 = {}
    OBVIOUS
  <2> QED BY <2>1
<1>2. \A k \in Nat : k \in Good => k + 1 \in Good
  <2> SUFFICES ASSUME NEW k \in Nat, k \in Good, NEW T \in SUBSET (1..(k + 1)), T # {}
               PROVE  \E x \in T : \A y \in T : x >= y
    OBVIOUS
  <2>1. CASE k + 1 \in T
    BY <2>1
  <2>2. CASE k + 1 \notin T
    <3>1. T \in SUBSET (1..k)
      BY <2>2
    <3> QED BY <3>1
  <2> QED BY <2>1, <2>2
<1>3. n \in Good
  <2> HIDE DEF Good
  <2>1. Nat \subseteq Good
    BY <1>1, <1>2, NatSetInduction
  <2> QED BY <2>1
<1>4. \E x \in S : \A y \in S : x >= y
  BY <1>3
<1> QED BY <1>4 DEF Max

\* A set as a sequence of its elements, each once.
LEMMA SetToSeqIs ==
  ASSUME NEW S, IsFiniteSet(S)
  PROVE  /\ Cardinality(S) \in Nat /\ Len(SetToSeq(S)) = Cardinality(S)
         /\ \A i \in 1..Cardinality(S) : SetToSeq(S)[i] \in S
         /\ \A x \in S : \E i \in 1..Cardinality(S) : SetToSeq(S)[i] = x
         /\ \A i, j \in 1..Cardinality(S) : SetToSeq(S)[i] = SetToSeq(S)[j] => i = j
<1> DEFINE n == Cardinality(S)
           o == SetToSeq(S)
<1>1. n \in Nat /\ ExistsBijection(1..n, S)
  BY FS_CardinalityType
<1>2. \E f \in [1..n -> S] : IsInjective(f)
  BY <1>1 DEF ExistsBijection, Bijection, Injection
<1>3. o \in [1..n -> S] /\ IsInjective(o)
  BY <1>2 DEF SetToSeq
<1>4. IsFiniteSet(1..n) /\ Cardinality(1..n) = n
  <2>1. 1 \in Int /\ n \in Int
    BY <1>1
  <2>2. IsFiniteSet(1..n) /\ Cardinality(1..n) = IF 1 > n THEN 0 ELSE n - 1 + 1
    BY ONLY <2>1, FS_Interval
  <2> HIDE DEF n
  <2> QED BY <1>1, <2>2
<1> HIDE DEF o
<1>5. o \in Injection(1..n, S)
  BY <1>3 DEF Injection
<1>6. Cardinality(1..n) = Cardinality(S)
  BY <1>4
<1> HIDE DEF n
<1>7. o \in Surjection(1..n, S)
  BY <1>5, <1>6, FS_Injection
<1>8. \A x \in S : \E i \in 1..n : o[i] = x
  BY <1>7 DEF Surjection
<1>9. Len(o) = n /\ \A i \in 1..n : o[i] \in S
  BY <1>1, <1>3
<1>10. \A i, j \in 1..n : o[i] = o[j] => i = j
  BY <1>3 DEF IsInjective
<1> QED BY <1>1, <1>8, <1>9, <1>10 DEF n, o

LEMMA KindsFinite ==
  ASSUME NEW t \in Type
  PROVE  /\ IsFiniteSet(PrimitivesOf(t)) /\ IsFiniteSet(KindsOf(t))
         /\ Cardinality(KindsOf(t)) \in Nat
         /\ \A p \in PrimitivesOf(t) : Kind[p] \in KindsOf(t)
<1>1. PrimitivesOf(t) \subseteq Pb
  BY PrimitivesOfType
<1>2. IsFiniteSet(PrimitivesOf(t))
  BY <1>1, TreeAssumption, FS_Subset
<1> DEFINE f == [p \in PrimitivesOf(t) |-> Kind[p]]
<1>3. f \in Surjection(PrimitivesOf(t), KindsOf(t))
  BY DEF Surjection, KindsOf
<1>4. IsFiniteSet(KindsOf(t))
  BY <1>2, <1>3, FS_Surjection
<1>5. Cardinality(KindsOf(t)) \in Nat
  BY <1>4, FS_CardinalityType
<1> QED BY <1>2, <1>4, <1>5 DEF KindsOf

\* q with the primitives in ps added to its buckets.
Returned(q, r, t, ps) ==
  /\ r \in QueueStates(t) /\ Sorted(r) /\ InBuckets(r) = InBuckets(q) \cup ps
  /\ r.tried = q.tried /\ r.flight = q.flight /\ r.invalid = q.invalid
  /\ r.current = q.current

\* There is a bucket for a primitive that comes back: its kind's, or an empty
\* one, as there are as many buckets as kinds.
LEMMA BucketFree ==
  ASSUME NEW t \in Type, NEW q \in QueueStates(t), Sorted(q), NEW p \in PrimitivesOf(t),
         \A i \in DOMAIN q.bucket : \A x \in q.bucket[i] : Kind[x] # Kind[p]
  PROVE  \E i \in DOMAIN q.bucket : q.bucket[i] = {}
<1> DEFINE n == Cardinality(KindsOf(t))
           K == KindsOf(t) \ {Kind[p]}
           f == [i \in 1..n |-> Kind[CHOOSE x \in q.bucket[i] : TRUE]]
<1> SUFFICES ASSUME \A i \in DOMAIN q.bucket : q.bucket[i] # {}
             PROVE  FALSE
  OBVIOUS
<1>1. n \in Nat /\ IsFiniteSet(KindsOf(t)) /\ Kind[p] \in KindsOf(t)
  BY KindsFinite
<1>2. q.bucket \in [1..n -> SUBSET PrimitivesOf(t)] /\ DOMAIN q.bucket = 1..n
  BY DEF QueueStates
<1>3. \A i \in 1..n : (CHOOSE x \in q.bucket[i] : TRUE) \in q.bucket[i]
  BY <1>2
<1>4. \A i \in 1..n : f[i] \in K
  <2> TAKE i \in 1..n
  <2> DEFINE x == CHOOSE y \in q.bucket[i] : TRUE
  <2>1. x \in q.bucket[i]
    BY <1>3
  <2>2. f[i] = Kind[x]
    OBVIOUS
  <2> HIDE DEF x
  <2>3. x \in PrimitivesOf(t) /\ Kind[x] # Kind[p]
    BY <2>1, <1>2
  <2> QED BY <2>2, <2>3, KindsFinite
<1>5. f \in [1..n -> K]
  BY <1>4
<1>6. IsFiniteSet(K) /\ Cardinality(K) = n - 1
  BY <1>1, FS_RemoveElement
<1>7. IsFiniteSet(1..n) /\ Cardinality(1..n) = n
  <2>1. 1 \in Int /\ n \in Int
    BY <1>1
  <2> HIDE DEF n
  <2>2. IsFiniteSet(1..n) /\ Cardinality(1..n) = IF 1 > n THEN 0 ELSE n - 1 + 1
    BY ONLY <2>1, FS_Interval
  <2> QED BY <1>1, <2>2
<1>8. Cardinality(K) < Cardinality(1..n)
  BY <1>1, <1>6, <1>7
<1>9. \A i \in 1..n : \E x \in q.bucket[i] : f[i] = Kind[x]
  BY <1>3
<1> HIDE DEF f, K, n
<1>10. PICK i \in 1..n, j \in 1..n : i # j /\ f[i] = f[j]
  BY <1>5, <1>6, <1>7, <1>8, FS_PigeonHole
<1>11. PICK x \in q.bucket[i], y \in q.bucket[j] : Kind[x] = Kind[y]
  BY <1>9, <1>10
<1> QED BY <1>2, <1>10, <1>11 DEF Sorted

LEMMA RequeueIs ==
  ASSUME NEW t \in Type, NEW q \in QueueStates(t), Sorted(q), NEW p \in PrimitivesOf(t)
  PROVE  Returned(q, Requeue(p, q), t, {p})
<1> DEFINE n == Cardinality(KindsOf(t))
           hold == Holding(q, {Kind[p]})
           empty == {i \in DOMAIN q.bucket : q.bucket[i] = {}}
           into == IF hold # {} THEN hold ELSE {Max(empty)}
           b == [i \in DOMAIN q.bucket |-> IF i \in into THEN q.bucket[i] \cup {p} ELSE q.bucket[i]]
           r == [q EXCEPT !.bucket = b]
<1>1. q.bucket \in [1..n -> SUBSET PrimitivesOf(t)] /\ DOMAIN q.bucket = 1..n /\ n \in Nat
  BY KindsFinite DEF QueueStates
<1>2. Requeue(p, q) = r
  BY DEF Requeue
<1>3. hold = {i \in 1..n : \E x \in q.bucket[i] : Kind[x] = Kind[p]}
  BY <1>1 DEF Holding
<1>4. \E k \in 1..n : /\ into = {k}
                      /\ \A x \in q.bucket[k] : Kind[x] = Kind[p]
                      /\ \A i \in 1..n : i # k => \A x \in q.bucket[i] : Kind[x] # Kind[p]
  <2>1. CASE hold # {}
    <3>1. PICK k \in 1..n : \E x \in q.bucket[k] : Kind[x] = Kind[p]
      BY <2>1, <1>3
    <3>2. PICK x \in q.bucket[k] : Kind[x] = Kind[p]
      BY <3>1
    <3>3. /\ \A y \in q.bucket[k] : Kind[y] = Kind[p]
          /\ \A i \in 1..n : i # k => \A y \in q.bucket[i] : Kind[y] # Kind[p]
      BY <3>2, <1>1 DEF Sorted
    <3>4. hold = {k}
      BY <3>2, <3>3, <1>3
    <3> QED BY <2>1, <3>3, <3>4
  <2>2. CASE hold = {}
    <3>1. \A i \in 1..n : \A x \in q.bucket[i] : Kind[x] # Kind[p]
      BY <2>2, <1>3
    <3>2. empty # {}
      BY <3>1, <1>1, BucketFree
    <3>3. Max(empty) \in empty
      BY <3>2, <1>1, MaxIn
    <3> DEFINE k == Max(empty)
    <3>4. into = {k}
      BY <2>2
    <3>5. k \in 1..n /\ q.bucket[k] = {}
      BY <3>3, <1>1
    <3> HIDE DEF k
    <3> QED BY <3>1, <3>4, <3>5
  <2> QED BY <2>1, <2>2
<1>5. PICK k \in 1..n : /\ into = {k}
                        /\ \A x \in q.bucket[k] : Kind[x] = Kind[p]
                        /\ \A i \in 1..n : i # k => \A x \in q.bucket[i] : Kind[x] # Kind[p]
  BY <1>4
<1>6. \A i \in 1..n : b[i] = IF i = k THEN q.bucket[i] \cup {p} ELSE q.bucket[i]
  BY <1>1, <1>5
<1>7. b \in [1..n -> SUBSET PrimitivesOf(t)] /\ DOMAIN b = 1..n
  BY <1>1, <1>6
<1> HIDE DEF b, into
<1>8. /\ r \in QueueStates(t) /\ r.bucket = b /\ r.tried = q.tried /\ r.flight = q.flight
      /\ r.invalid = q.invalid /\ r.current = q.current
  BY <1>7 DEF QueueStates
<1> HIDE DEF r
<1>9. Sorted(r)
  <2>1. ASSUME NEW i \in 1..n, NEW j \in 1..n, NEW x \in b[i], NEW y \in b[j]
        PROVE  Kind[x] = Kind[y] <=> i = j
    <3>1. x \in q.bucket[i] \/ (x = p /\ i = k)
      BY <1>6
    <3>2. y \in q.bucket[j] \/ (y = p /\ j = k)
      BY <1>6
    <3> QED BY <3>1, <3>2, <1>1, <1>5 DEF Sorted
  <2> QED BY <2>1, <1>7, <1>8 DEF Sorted
<1>10. InBuckets(r) = InBuckets(q) \cup {p}
  <2>1. \A x : x \in InBuckets(r) <=> \E i \in 1..n : x \in b[i]
    BY <1>7, <1>8 DEF InBuckets, Range
  <2>2. \A x : x \in InBuckets(q) <=> \E i \in 1..n : x \in q.bucket[i]
    BY <1>1 DEF InBuckets, Range
  <2>3. \A x : (\E i \in 1..n : x \in b[i]) <=> (\E i \in 1..n : x \in q.bucket[i]) \/ x = p
    BY <1>6
  <2> QED BY <2>1, <2>2, <2>3
<1> QED BY <1>2, <1>8, <1>9, <1>10 DEF Returned

LEMMA RequeueAllIs ==
  ASSUME NEW t \in Type, NEW q \in QueueStates(t), Sorted(q), NEW ps \in SUBSET PrimitivesOf(t)
  PROVE  Returned(q, RequeueAll(ps, q), t, ps)
<1> DEFINE o == SetToSeq(ps)
           n == Cardinality(ps)
<1>1. IsFiniteSet(ps)
  BY KindsFinite, FS_Subset
<1>2. /\ n \in Nat /\ Len(o) = n /\ \A i \in 1..n : o[i] \in ps
      /\ \A x \in ps : \E i \in 1..n : o[i] = x
  BY <1>1, SetToSeqIs
<1>3. PICK f : /\ f[0] = q /\ RequeueAll(ps, q) = f[n]
               /\ \A i \in 1..n : f[i] = Requeue(o[i], f[i - 1])
  BY <1>2, RequeueAllSteps
<1> HIDE DEF o, n
<1> DEFINE Done(k) == {o[i] : i \in 1..k}
           Good == {k \in Nat : k <= n => Returned(q, f[k], t, Done(k))}
<1>4. 0 \in Good
  BY <1>3 DEF Returned
<1>5. \A k \in Nat : k \in Good => k + 1 \in Good
  <2> SUFFICES ASSUME NEW k \in Nat, Returned(q, f[k], t, Done(k)), k + 1 <= n
               PROVE  Returned(q, f[k + 1], t, Done(k + 1))
    <3> HIDE DEF Done
    <3> QED BY <1>2
  <2>1. k + 1 \in 1..n /\ (k + 1) - 1 = k /\ 1..(k + 1) = (1..k) \cup {k + 1}
    BY <1>2
  <2>2. Done(k + 1) = Done(k) \cup {o[k + 1]}
    BY <2>1
  <2>3. f[k + 1] = Requeue(o[k + 1], f[k]) /\ o[k + 1] \in PrimitivesOf(t)
    BY <2>1, <1>2, <1>3
  <2> HIDE DEF Done
  <2>4. Returned(f[k], f[k + 1], t, {o[k + 1]})
    <3>1. f[k] \in QueueStates(t) /\ Sorted(f[k])
      BY DEF Returned
    <3> QED BY <2>3, <3>1, RequeueIs
  <2> QED BY <2>2, <2>4 DEF Returned
<1>6. n \in Good
  <2> HIDE DEF Good
  <2>1. Nat \subseteq Good
    BY <1>4, <1>5, NatSetInduction
  <2> QED BY <2>1, <1>2
<1>7. Done(n) = ps
  BY <1>2
<1> HIDE DEF Done
<1> QED BY <1>2, <1>3, <1>6, <1>7

LEMMA FlushIs ==
  ASSUME NEW t \in Type, NEW q, Sound(q, t)
  PROVE  /\ Sound(Flush(q), t) /\ Flush(q).tried = {} /\ Flush(q).flight = {}
         /\ Flush(q).invalid = q.invalid
<1> DEFINE ps == q.tried \cup q.flight
           all == RequeueAll(ps, q)
           r == [all EXCEPT !.tried = {}, !.flight = {}]
<1>1. q \in QueueStates(t) /\ Sorted(q) /\ Listed(q, t) /\ ps \in SUBSET PrimitivesOf(t)
  BY DEF Sound, QueueStates
<1>2. Returned(q, all, t, ps)
  <2> HIDE DEF ps
  <2> QED BY <1>1, RequeueAllIs
<1>3. Flush(q) = r
  BY DEF Flush
<1> HIDE DEF all
<1>4. /\ r \in QueueStates(t) /\ r.bucket = all.bucket /\ r.tried = {} /\ r.flight = {}
      /\ r.invalid = q.invalid
  BY <1>2 DEF Returned, QueueStates
<1> HIDE DEF r
<1>5. Sorted(r) /\ InBuckets(r) = InBuckets(q) \cup q.tried \cup q.flight
  BY <1>2, <1>4 DEF Returned, Sorted, InBuckets
<1>6. Listed(r, t)
  BY <1>1, <1>4, <1>5 DEF Listed
<1> QED BY <1>3, <1>4, <1>5, <1>6 DEF Sound

LEMMA SweepIs ==
  ASSUME NEW t \in Type, NEW q, Sound(q, t), NEW as
  PROVE  LET r == Sweep(q, as)
         IN  /\ Sound(r, t) /\ r.tried = q.tried /\ r.flight = q.flight
             /\ r.invalid \cap usable = q.invalid \cap usable
             /\ \A p \in r.invalid : p \in q.invalid \/ p \notin usable
<1> DEFINE n == Cardinality(KindsOf(t))
           swept == Holding(q, UNION {Hosts[a] : a \in as})
           b == [i \in DOMAIN q.bucket |-> IF i \in swept THEN q.bucket[i] \cap usable ELSE q.bucket[i]]
           out == UNION {q.bucket[i] \ usable : i \in swept}
           r == [q EXCEPT !.bucket = b, !.invalid = q.invalid \cup out]
<1>1. q \in QueueStates(t) /\ Sorted(q) /\ Listed(q, t)
  BY DEF Sound
<1>2. q.bucket \in [1..n -> SUBSET PrimitivesOf(t)] /\ DOMAIN q.bucket = 1..n
  BY <1>1 DEF QueueStates
<1>3. Sweep(q, as) = r
  BY DEF Sweep
<1>4. swept \subseteq 1..n
  BY <1>2 DEF Holding
<1> HIDE DEF swept
<1>5. /\ b \in [1..n -> SUBSET PrimitivesOf(t)] /\ DOMAIN b = 1..n
      /\ \A i \in 1..n : b[i] = IF i \in swept THEN q.bucket[i] \cap usable ELSE q.bucket[i]
  BY <1>2
<1>6. \A p : p \in out <=> \E i \in swept : p \in q.bucket[i] /\ p \notin usable
  OBVIOUS
<1>7. out \subseteq PrimitivesOf(t) /\ out \cap usable = {}
  BY <1>2, <1>4, <1>6
<1> HIDE DEF b, out
<1>8. /\ r \in QueueStates(t) /\ r.bucket = b /\ r.tried = q.tried /\ r.flight = q.flight
      /\ r.invalid = q.invalid \cup out
  BY <1>1, <1>5, <1>7 DEF QueueStates
<1> HIDE DEF r, n
<1>9. Sorted(r)
  BY <1>1, <1>2, <1>5, <1>8 DEF Sorted
<1>10. \A p : p \in InBuckets(q) <=> \E i \in 1..n : p \in q.bucket[i]
  BY <1>2 DEF InBuckets, Range
<1>11. \A p : p \in InBuckets(r) <=> \E i \in 1..n : p \in b[i]
  BY <1>5, <1>8 DEF InBuckets, Range
<1>12. InBuckets(q) = InBuckets(r) \cup out
  <2>1. ASSUME NEW p \in InBuckets(q) PROVE p \in InBuckets(r) \cup out
    <3>1. PICK i \in 1..n : p \in q.bucket[i]
      BY <1>10
    <3> QED BY <3>1, <1>5, <1>6, <1>11
  <2>2. \A p \in InBuckets(r) : p \in InBuckets(q)
    BY <1>5, <1>10, <1>11
  <2>3. \A p \in out : p \in InBuckets(q)
    BY <1>4, <1>6, <1>10
  <2> QED BY <2>1, <2>2, <2>3
<1>13. InBuckets(r) \cap out = {}
  <2>1. ASSUME NEW p, p \in InBuckets(r), p \in out PROVE FALSE
    <3>1. PICK i \in 1..n : p \in b[i]
      BY <2>1, <1>11
    <3>2. PICK j \in swept : p \in q.bucket[j] /\ p \notin usable
      BY <2>1, <1>6
    <3>3. p \in q.bucket[i] /\ (i \in swept => p \in usable)
      BY <3>1, <1>5
    <3>4. i = j
      BY <3>2, <3>3, <1>1, <1>2, <1>4 DEF Sorted
    <3> QED BY <3>2, <3>3, <3>4
  <2> QED BY <2>1
<1>14. Listed(r, t)
  BY <1>1, <1>8, <1>12, <1>13 DEF Listed
<1> QED BY <1>3, <1>7, <1>8, <1>9, <1>14 DEF Sound

\* What get_next_primitive_list starts from.
LEMMA PreparedIs ==
  ASSUME Queues, type \in Type, mol \in Molecule
  PROVE  /\ Sound(Prepared, type) /\ Prepared.flight = {}
         /\ Prepared.invalid \cap usable = {}
<1> DEFINE q == queue[type]
           f == Flush(q)
           a == [f EXCEPT !.current = mol]
           b == [q EXCEPT !.tried = q.tried \cup q.flight, !.flight = {}]
           next == IF q.current # mol THEN a ELSE b
<1>1. Sound(q, type) /\ q.invalid \cap usable = {}
  BY DEF Queues
<1>2. Prepared = Sweep(next, {AtomsOf[mol][Root[mol]]})
  BY DEF Prepared
<1> HIDE DEF q
<1>3. Sound(f, type) /\ f.flight = {} /\ f.invalid = q.invalid
  BY <1>1, FlushIs
<1> HIDE DEF f
<1>4. Sound(a, type) /\ a.flight = {} /\ a.invalid = q.invalid
  <2>1. /\ a \in QueueStates(type) /\ a.bucket = f.bucket /\ a.tried = f.tried
        /\ a.flight = f.flight /\ a.invalid = f.invalid
    BY <1>3 DEF Sound, QueueStates
  <2> HIDE DEF a
  <2> QED BY <2>1, <1>3 DEF Sound, Sorted, Listed, InBuckets
<1>5. Sound(b, type) /\ b.flight = {} /\ b.invalid = q.invalid
  <2>1. /\ b \in QueueStates(type) /\ b.bucket = q.bucket /\ b.tried = q.tried \cup q.flight
        /\ b.flight = {} /\ b.invalid = q.invalid
    BY <1>1 DEF Sound, QueueStates
  <2> HIDE DEF b
  <2> QED BY <2>1, <1>1 DEF Sound, Sorted, Listed, InBuckets
<1> HIDE DEF a, b
<1>6. Sound(next, type) /\ next.flight = {} /\ next.invalid = q.invalid
  BY <1>4, <1>5
<1> HIDE DEF next
<1>7. LET r == Sweep(next, {AtomsOf[mol][Root[mol]]})
      IN  /\ Sound(r, type) /\ r.flight = next.flight
          /\ r.invalid \cap usable = next.invalid \cap usable
  BY <1>6, SweepIs
<1> QED BY <1>1, <1>2, <1>6, <1>7

\* Starting in a mode of the root: every primitive is in a bucket, and those
\* of the mode are usable.
LEMMA StartModeIs ==
  ASSUME Queues, usable \subseteq Primitive, NEW t \in Type, NEW m, StartMode(t, m)
  PROVE  /\ Queues' /\ usable' \subseteq Primitive /\ topMode' = m
         /\ usable' \cap PrimitivesOf(t) = InMode(t, m)
<1> DEFINE f == Flush(queue[t])
           all == RequeueAll(f.invalid, f)
           full == [all EXCEPT !.invalid = {}, !.current = None]
<1>1. /\ topMode' = m /\ queue' = [queue EXCEPT ![t] = full]
      /\ usable' = (usable \ PrimitivesOf(t)) \cup ((UNION Range(full.bucket)) \cap InMode(t, m))
  BY DEF StartMode
<1>2. DOMAIN queue = Type /\ \A s \in Type : Sound(queue[s], s) /\ queue[s].invalid \cap usable = {}
  BY DEF Queues
<1>3. Sound(f, t) /\ f.tried = {} /\ f.flight = {}
  BY <1>2, FlushIs
<1> HIDE DEF f
<1>4. Returned(f, all, t, f.invalid)
  <2>1. f \in QueueStates(t) /\ Sorted(f) /\ f.invalid \in SUBSET PrimitivesOf(t)
    BY <1>3 DEF Sound, QueueStates
  <2> QED BY <2>1, RequeueAllIs
<1> HIDE DEF all
<1>5. /\ full \in QueueStates(t) /\ full.bucket = all.bucket /\ full.tried = {}
      /\ full.flight = {} /\ full.invalid = {}
  BY <1>3, <1>4 DEF Returned, QueueStates
<1> HIDE DEF full
<1>6. Sorted(full) /\ InBuckets(full) = PrimitivesOf(t)
  <2>1. InBuckets(full) = InBuckets(f) \cup f.invalid
    BY <1>4, <1>5 DEF Returned, InBuckets
  <2>2. InBuckets(f) \cup f.invalid = PrimitivesOf(t)
    BY <1>3 DEF Sound, Listed
  <2> QED BY <2>1, <2>2, <1>4, <1>5 DEF Returned, Sorted
<1>7. Sound(full, t)
  BY <1>5, <1>6 DEF Sound, Listed
<1>8. usable' = (usable \ PrimitivesOf(t)) \cup InMode(t, m)
  <2>1. UNION Range(full.bucket) = PrimitivesOf(t)
    BY <1>6 DEF InBuckets
  <2>2. InMode(t, m) \subseteq PrimitivesOf(t)
    BY DEF InMode
  <2>3. (UNION Range(full.bucket)) \cap InMode(t, m) = InMode(t, m)
    BY ONLY <2>1, <2>2
  <2>4. usable' = (usable \ PrimitivesOf(t)) \cup ((UNION Range(full.bucket)) \cap InMode(t, m))
    BY <1>1
  <2> QED BY ONLY <2>3, <2>4
<1>9. usable' \cap PrimitivesOf(t) = InMode(t, m)
  BY <1>8 DEF InMode
<1>10. usable' \subseteq Primitive
  BY <1>8 DEF InMode, PrimitivesOf
<1>11. ASSUME NEW s \in Type PROVE Sound(queue'[s], s) /\ queue'[s].invalid \cap usable' = {}
  <2>1. CASE s = t
    BY <2>1, <1>1, <1>2, <1>5, <1>7
  <2>2. CASE s # t
    <3>1. queue'[s] = queue[s] /\ Sound(queue[s], s) /\ queue[s].invalid \cap usable = {}
      BY <2>2, <1>1, <1>2
    <3>2. queue[s].invalid \subseteq PrimitivesOf(s)
      BY <3>1 DEF Sound, QueueStates
    <3>3. PrimitivesOf(s) \cap PrimitivesOf(t) = {}
      BY <2>2, PrimitivesOfType
    <3> QED BY <3>1, <3>2, <3>3, <1>8 DEF InMode
  <2> QED BY <2>1, <2>2
<1>12. DOMAIN queue' = Type
  BY <1>1, <1>2
<1>13. Queues'
  BY <1>11, <1>12 DEF Queues, Sound, QueueStates, Sorted, Listed, InBuckets, PrimitivesOf, Below,
           KindsOf, Primitive, AllPbs
<1> QED BY <1>1, <1>9, <1>10, <1>13

LEMMA NewQueueIs ==
  ASSUME NEW t \in Type
  PROVE  Sound(NewQueue(t), t) /\ NewQueue(t).invalid = {}
<1> DEFINE n == Cardinality(KindsOf(t))
           o == SetToSeq(KindsOf(t))
           b == [i \in 1..n |-> {p \in PrimitivesOf(t) : Kind[p] = o[i]}]
           q == NewQueue(t)
<1>1. /\ q.bucket = b /\ q.tried = {} /\ q.flight = {} /\ q.invalid = {} /\ q.current = None
      /\ q = [bucket |-> b, tried |-> {}, flight |-> {}, invalid |-> {}, current |-> None]
  BY DEF NewQueue
<1>2. /\ n \in Nat /\ \A k \in KindsOf(t) : \E i \in 1..n : o[i] = k
      /\ \A i, j \in 1..n : o[i] = o[j] => i = j
  BY KindsFinite, SetToSeqIs
<1> HIDE DEF o, q
<1>3. b \in [1..n -> SUBSET PrimitivesOf(t)] /\ DOMAIN b = 1..n
      /\ \A i \in 1..n : b[i] = {p \in PrimitivesOf(t) : Kind[p] = o[i]}
  OBVIOUS
<1> HIDE DEF b
<1>4. q \in QueueStates(t)
  BY <1>1, <1>3 DEF QueueStates
<1>5. Sorted(q)
  BY <1>1, <1>2, <1>3 DEF Sorted
<1>6. InBuckets(q) = PrimitivesOf(t)
  <2>1. \A p : p \in InBuckets(q) <=> \E i \in 1..n : p \in b[i]
    BY <1>1, <1>3 DEF InBuckets, Range
  <2>2. \A p \in PrimitivesOf(t) : \E i \in 1..n : p \in b[i]
    BY <1>2, <1>3, KindsFinite
  <2> QED BY <2>1, <2>2, <1>3
<1>7. Listed(q, t)
  BY <1>1, <1>6 DEF Listed
<1> QED BY <1>1, <1>4, <1>5, <1>7 DEF Sound, q

-----------------------------------------------------------------------------
(* The steps that leave the cluster as it is.                              *)

\* Between two attempts, when no atom and no pb is touched.
LEMMA AtRest ==
  ASSUME IInv, Resting, Resting',
         UNCHANGED <<at, clb, valid, tree, router, intra, used, type, opened>>,
         stage' = stage \/ ~opened,
         search'.list # NotValid => search'.list = search.list \/ search'.list \subseteq valid
  PROVE  /\ Lookups' /\ Valids' /\ Trees' /\ Routers' /\ Books'
         /\ Accepted' = Accepted /\ NumClb' = NumClb
<1>1. /\ Lookups /\ Valids /\ Trees /\ Routers /\ Books
  BY DEF IInv
<1>2. Trial = {} /\ Trial' = {} /\ NumClb' = NumClb /\ Open' = Open
  BY DEF Trial, NumClb, Open
<1>3. InOpen' = InOpen /\ Accepted' = Accepted /\ Accepted = InOpen
  BY <1>2 DEF InOpen, Accepted
<1>4. Lookups'
  BY <1>1, <1>2, <1>3 DEF Lookups
<1>5. Valids'
  BY <1>1, <1>2 DEF Valids
<1>6. \A n : Under(n, Accepted)' = Under(n, Accepted) /\ Under(n, InOpen)' = Under(n, InOpen)
  BY <1>3 DEF Under
<1>7. pc # "revert"
  BY DEF Resting
<1>8. Trees'
  BY <1>1, <1>3, <1>6, <1>7 DEF Trees
<1>9. Placement(Accepted)' = Placement(Accepted)
  BY <1>3 DEF Placement
<1>10. Routers'
  <2>1. stage' = 2 /\ opened' => router'.saved = Placement(Accepted)'
    BY <1>1, <1>9 DEF Routers
  <2> QED BY <2>1, <1>1, <1>3 DEF Routers
<1>11. Books'
  <2>1. \A t : ClustersOf(t)' = ClustersOf(t)
    BY <1>2 DEF ClustersOf
  <2> QED BY <2>1, <1>1, <1>2 DEF Books, Placement
<1> QED BY <1>2, <1>3, <1>4, <1>5, <1>8, <1>10, <1>11

LEMMA NextSeedKeeps ==
  ASSUME IInv, NextSeed
  PROVE  IInv'
<1>1. /\ pc = "seed" /\ pc' = "type" /\ stage' = 1 /\ left' = Candidates[seed']
      /\ UNCHANGED <<cluster, attempt, at, clb, valid, tree, router, queue, usable,
                     search, result>>
  BY DEF NextSeed
<1>2. UNCHANGED <<type, topMode, opened, mol, site, placed, intra, used>>
  BY <1>1 DEF cluster, attempt, result
<1>3. PICK a \in Unclustered \ seen :
        seen' = seen \cup {a} /\ \E m \in valid : a \in Atoms(m) /\ seed' = m
  BY DEF NextSeed
<1>4. seed' \in valid /\ a \in Atoms(seed') /\ a \in Atom
  BY <1>3 DEF Unclustered
<1>5. Types /\ Control /\ Seeds
  BY DEF IInv
<1>6. Resting /\ Resting' /\ ~opened
  BY <1>1, <1>5 DEF Resting, Control, Filling, Working
<1>7. /\ Lookups' /\ Valids' /\ Trees' /\ Routers' /\ Books' /\ NumClb' = NumClb
  BY <1>1, <1>2, <1>6, AtRest
<1>8. seed' \in Molecule
  BY <1>4, <1>5 DEF Types
<1>9. Types'
  BY <1>1, <1>2, <1>3, <1>4, <1>5, <1>8, NetlistAssumption DEF Types
<1>10. Control'
  BY <1>1, <1>2, <1>4, <1>5, <1>6, <1>8 DEF Control, Working, Filling, FirstTry
<1>11. Seeds'
  BY <1>1, <1>3, <1>4, <1>5, <1>7 DEF Seeds
<1> QED BY <1>7, <1>9, <1>10, <1>11 DEF IInv

LEMMA EndKeeps ==
  ASSUME IInv, Finish \/ NoType
  PROVE  IInv'
<1>1. /\ (pc = "seed" /\ pc' = "done") \/ (pc = "type" /\ pc' = "failed")
      /\ UNCHANGED <<loop, left, cluster, attempt, at, clb, valid, tree, router,
                     queue, usable, search, result>>
  BY DEF Finish, NoType
<1>2. UNCHANGED <<stage, seen, seed, type, topMode, opened, mol, site, placed, intra, used>>
  BY <1>1 DEF loop, cluster, attempt, result
<1>3. Types /\ Control /\ Seeds
  BY DEF IInv
<1>4. Resting /\ Resting' /\ ~opened
  BY <1>1, <1>3 DEF Resting, Control, Filling, Working
<1>5. /\ Lookups' /\ Valids' /\ Trees' /\ Routers' /\ Books' /\ NumClb' = NumClb
  BY <1>1, <1>2, <1>4, AtRest
<1>6. Types'
  BY <1>1, <1>2, <1>3 DEF Types
<1>7. Control'
  BY <1>1, <1>2, <1>3, <1>4 DEF Control, Working, Filling, FirstTry
<1>8. Seeds'
  BY <1>1, <1>2, <1>3, <1>5 DEF Seeds
<1> QED BY <1>5, <1>6, <1>7, <1>8 DEF IInv

LEMMA NextModeKeeps ==
  ASSUME IInv, NextMode
  PROVE  IInv'
<1>1. /\ pc = "mode" /\ pc' = "find" /\ topMode' = topMode + 1
      /\ UNCHANGED <<loop, left, type, opened, attempt, at, clb, valid, tree,
                     router, search, result>>
  BY DEF NextMode, StartMode
<1>2. UNCHANGED <<stage, seen, seed, mol, site, placed, intra, used>>
  BY <1>1 DEF loop, attempt, result
<1>3. Types /\ Control /\ Seeds
  BY DEF IInv
<1>4. Resting /\ Resting' /\ ~opened
  BY <1>1, <1>3 DEF Resting, Control, Filling, Working
<1>5. /\ Lookups' /\ Valids' /\ Trees' /\ Routers' /\ Books' /\ NumClb' = NumClb
  BY <1>1, <1>2, <1>4, AtRest
<1>6. Types'
  BY <1>1, <1>2, <1>3 DEF Types
<1>7. Control'
  BY <1>1, <1>2, <1>3, <1>4 DEF Control, Working, Filling, FirstTry
<1>8. Seeds'
  BY <1>1, <1>2, <1>3, <1>5 DEF Seeds
<1> QED BY <1>5, <1>6, <1>7, <1>8 DEF IInv

LEMMA NoSiteKeeps ==
  ASSUME IInv, NoSite
  PROVE  IInv'
<1>1. /\ pc = "find" /\ pc' = IF opened THEN "pick" ELSE "mode"
      /\ UNCHANGED <<loop, left, cluster, mol, at, clb, valid, tree, router, usable,
                     search, result>>
  BY DEF NoSite
<1>2. UNCHANGED <<stage, seen, seed, type, topMode, opened, intra, used>>
  BY <1>1 DEF loop, cluster, result
<1>3. Types /\ Control /\ Seeds
  BY DEF IInv
<1>4. Resting /\ Resting'
  BY <1>1 DEF Resting
<1>5. /\ Lookups' /\ Valids' /\ Trees' /\ Routers' /\ Books' /\ NumClb' = NumClb
      /\ Accepted' = Accepted
  BY <1>1, <1>2, <1>4, AtRest
<1>6. Types'
  BY <1>1, <1>2, <1>3 DEF Types
<1>7. Control'
  BY <1>1, <1>2, <1>3, <1>4, <1>5 DEF Control, Working, Filling, FirstTry
<1>8. Seeds'
  BY <1>1, <1>2, <1>3, <1>5 DEF Seeds
<1> QED BY <1>5, <1>6, <1>7, <1>8 DEF IInv

\* The three ways to look for candidates.
LEMMA LookKeeps ==
  ASSUME IInv, LookAtConnected \/ LookAtFanout \/ LookAtTransitive
  PROVE  IInv'
<1>1. /\ \/ pc = "pick" /\ pc' = "fanout"
         \/ pc = "fanout" /\ pc' = "transitive"
         \/ pc = "transitive" /\ pc' = "choose"
      /\ UNCHANGED <<loop, left, cluster, attempt, at, clb, valid, tree, router,
                     usable, result>>
  BY DEF LookAtConnected, LookAtFanout, LookAtTransitive
<1>2. UNCHANGED <<stage, seen, seed, type, topMode, opened, mol, site, placed, intra, used>>
  BY <1>1 DEF loop, cluster, attempt, result
<1>3. Types /\ Control /\ Seeds
  BY DEF IInv
<1>4. /\ search' \in SearchStates
      /\ search'.list = search.list \/ search'.list \subseteq valid
  <2>1. search \in SearchStates /\ valid \subseteq Molecule
    BY <1>3 DEF Types
  <2>2. \A q, ms : LookAt(q, ms) \subseteq ms
    BY DEF LookAt
  <2>3. CASE LookAtConnected
    <3>1. CASE UNCHANGED search
      BY <2>1, <3>1
    <3>2. CASE ~UNCHANGED search
      <4>1. PICK ms \in SUBSET valid :
              search' = [search EXCEPT
                             !.list = LookAt(queue[type], ms),
                             !.transitive = IF @ = "over" THEN "unexplored" ELSE @]
        BY <2>3, <3>2 DEF LookAtConnected
      <4> DEFINE l == LookAt(queue[type], ms)
                 tr == IF search.transitive = "over" THEN "unexplored" ELSE search.transitive
      <4>2. l \subseteq valid /\ tr \in {"unexplored", "explored", "over"}
        BY <2>1, <2>2 DEF SearchStates
      <4>3. search' = [search EXCEPT !.list = l, !.transitive = tr]
        BY <4>1
      <4> HIDE DEF l, tr
      <4> QED BY <4>2, <4>3, <2>1 DEF SearchStates
    <3> QED BY <3>1, <3>2
  <2>4. CASE LookAtFanout
    <3>1. CASE UNCHANGED search
      BY <2>1, <3>1
    <3>2. CASE ~UNCHANGED search
      <4>1. PICK ms \in SUBSET valid :
              search' = [search EXCEPT !.list = LookAt(Flush(queue[type]), ms), !.fanout = FALSE]
        BY <2>4, <3>2 DEF LookAtFanout
      <4> DEFINE l == LookAt(Flush(queue[type]), ms)
      <4>2. l \subseteq valid
        BY <2>2
      <4>3. search' = [search EXCEPT !.list = l, !.fanout = FALSE]
        BY <4>1
      <4> HIDE DEF l
      <4> QED BY <4>2, <4>3, <2>1 DEF SearchStates
    <3> QED BY <3>1, <3>2
  <2>5. CASE LookAtTransitive
    <3>1. CASE UNCHANGED search
      BY <2>1, <3>1
    <3>2. CASE search' = [search EXCEPT !.transitive = "over"]
      BY <2>1, <3>2 DEF SearchStates
    <3>3. CASE ~UNCHANGED search /\ search' # [search EXCEPT !.transitive = "over"]
      <4>1. PICK ms \in SUBSET valid :
              search' = [search EXCEPT !.list = LookAt(queue[type], ms), !.transitive = "explored"]
        BY <2>5, <3>3 DEF LookAtTransitive
      <4> DEFINE l == LookAt(queue[type], ms)
      <4>2. l \subseteq valid
        BY <2>2
      <4>3. search' = [search EXCEPT !.list = l, !.transitive = "explored"]
        BY <4>1
      <4> HIDE DEF l
      <4> QED BY <4>2, <4>3, <2>1 DEF SearchStates
    <3> QED BY <3>1, <3>2, <3>3
  <2> QED BY <2>3, <2>4, <2>5
<1>5. Resting /\ Resting'
  BY <1>1 DEF Resting
<1>6. /\ Lookups' /\ Valids' /\ Trees' /\ Routers' /\ Books' /\ NumClb' = NumClb
      /\ Accepted' = Accepted
  BY <1>1, <1>2, <1>4, <1>5, AtRest
<1>7. Types'
  BY <1>1, <1>2, <1>3, <1>4 DEF Types
<1>8. Control'
  BY <1>1, <1>2, <1>3, <1>5, <1>6 DEF Control, Working, Filling, FirstTry
<1>9. Seeds'
  BY <1>1, <1>2, <1>3, <1>6 DEF Seeds
<1> QED BY <1>6, <1>7, <1>8, <1>9 DEF IInv

LEMMA ChooseKeeps ==
  ASSUME IInv, ChooseCandidate \/ ChooseUnrelated \/ ChooseNone
  PROVE  IInv'
<1>1. /\ pc = "choose" /\ search' \in SearchStates
      /\ search'.list = search.list \/ search'.list \subseteq search.list
      /\ \E m \in valid \cup {None} : TryNext(m)
  <2>1. search \in SearchStates
    BY DEF IInv, Types
  <2>2. CASE ChooseCandidate
    <3>1. PICK m \in search.list : m \in valid /\ TryNext(m)
            /\ search' = [search EXCEPT !.list = @ \ {m}, !.attempts = 0]
      BY <2>2 DEF ChooseCandidate
    <3>2. search' \in SearchStates /\ search'.list \subseteq search.list
      BY <2>1, <3>1 DEF SearchStates
    <3> QED BY <3>1, <3>2, <2>2 DEF ChooseCandidate
  <2>3. CASE ChooseUnrelated
    <3>1. \E m \in valid \cup {None} : TryNext(m)
      BY <2>3, Zenon DEF ChooseUnrelated, LookAt
    <3>2. search' = [search EXCEPT !.attempts = 1]
      BY <2>3 DEF ChooseUnrelated
    <3>3. search' \in SearchStates /\ search'.list = search.list
      BY <2>1, <3>2 DEF SearchStates
    <3> QED BY <3>1, <3>3, <2>3 DEF ChooseUnrelated
  <2>4. CASE ChooseNone
    BY <2>1, <2>4 DEF ChooseNone
  <2> QED BY <2>2, <2>3, <2>4
<1>2. PICK m \in valid \cup {None} : TryNext(m)
  BY <1>1
<1>3. /\ pc' = IF m \in {None, mol} THEN "end" ELSE "find"
      /\ mol' = IF m = None THEN mol ELSE m
      /\ UNCHANGED <<loop, left, cluster, site, placed, at, clb, valid,
                     tree, router, usable, result>>
  BY <1>2 DEF TryNext
<1>4. UNCHANGED <<stage, seen, seed, type, topMode, opened, intra, used>>
  BY <1>3 DEF loop, cluster, result
<1>5. Types /\ Control /\ Seeds /\ Valids
  BY DEF IInv
<1>6. Resting /\ Resting' /\ opened
  BY <1>1, <1>3, <1>5 DEF Resting, Control, FirstTry, Working
<1>7. /\ Lookups' /\ Valids' /\ Trees' /\ Routers' /\ Books' /\ NumClb' = NumClb
      /\ Accepted' = Accepted
  <2>1. search'.list # NotValid => search'.list = search.list \/ search'.list \subseteq valid
    <3>1. CASE search.list = NotValid
      <4>1. search'.list \subseteq {None}
        BY <3>1, <1>1 DEF NotValid
      <4> QED BY <4>1 DEF NotValid
    <3>2. CASE search.list # NotValid
      BY <3>2, <1>1, <1>5 DEF Valids
    <3> QED BY <3>1, <3>2
  <2> QED BY <2>1, <1>3, <1>4, <1>6, AtRest
<1>8. Types'
  BY <1>1, <1>3, <1>4, <1>5 DEF Types
<1>9. Control'
  <2>1. mol' \in Molecule /\ (pc' = "find" => mol' \in valid)
    BY <1>1, <1>3, <1>5 DEF Control, Working, Types
  <2> QED BY <2>1, <1>1, <1>3, <1>4, <1>5, <1>6, <1>7 DEF Control, Working, Filling, FirstTry
<1>10. Seeds'
  BY <1>1, <1>3, <1>4, <1>5, <1>7 DEF Seeds
<1> QED BY <1>7, <1>8, <1>9, <1>10 DEF IInv

-----------------------------------------------------------------------------
(* The steps that fill a cluster or empty it.                              *)

LEMMA NextTypeKeeps ==
  ASSUME IInv, NextType
  PROVE  IInv'
<1>1. /\ pc = "type" /\ pc' = "find" /\ type' \in left /\ left' \subseteq left
      /\ topMode' = 0 /\ tree' = EmptyTree /\ router' = NewRouter /\ search' = NewSearch
      /\ mol' = seed /\ UNCHANGED <<loop, opened, at, clb, valid, result>>
  BY DEF NextType, StartMode
<1>2. UNCHANGED <<stage, seen, seed, intra, used>>
  BY <1>1 DEF loop, result
<1>3. /\ Types /\ Control /\ Lookups /\ Valids /\ Trees /\ Routers /\ Books /\ Seeds
  BY DEF IInv
<1>4. Resting /\ Resting' /\ ~opened /\ seed \in Molecule /\ seed \in valid
  BY <1>1, <1>3 DEF Resting, Control, Filling, Working
<1>5. Trial = {} /\ Trial' = {} /\ NumClb' = NumClb /\ Open' = Open
  BY <1>2, <1>4 DEF Trial, NumClb, Open
<1>6. InOpen = {} /\ InOpen' = {} /\ Accepted' = {}
  BY <1>1, <1>3, <1>4, <1>5 DEF InOpen, Accepted, Lookups
<1>7. Types'
  <2>1. EmptyTree \in TreeStates /\ NewRouter \in RouterStates /\ NewSearch \in SearchStates
    BY DEF EmptyTree, NewRouter, NewSearch, TreeStates, RouterStates, SearchStates, NoKids, NotValid
  <2> QED BY <2>1, <1>1, <1>2, <1>3 DEF Types
<1>8. Control'
  BY <1>1, <1>2, <1>3, <1>4 DEF Control, Types, Working, Filling, FirstTry
<1>9. Lookups'
  BY <1>1, <1>3, <1>4, <1>5, <1>6 DEF Lookups
<1>10. Valids'
  BY <1>1, <1>3, <1>5 DEF Valids, NewSearch
<1>11. \A n : Under(n, Accepted)' = {} /\ Under(n, InOpen)' = {}
  BY <1>6 DEF Under
<1>12. Trees'
  <2>1. \A n \in AllPbs : tree'.count[n] = 0 /\ tree'.mode[n] = NoKids
    BY <1>1 DEF EmptyTree
  <2>2. tree'.named = {}
    BY <1>1 DEF EmptyTree
  <2> QED BY <2>1, <2>2, <1>6, <1>11, FS_EmptySet DEF Trees, AllPbs
<1>13. Routers'
  <2>1. router'.added = {} /\ \A t \in Type : tree'.mode[t] = NoKids
    BY <1>1 DEF NewRouter, EmptyTree, AllPbs
  <2> QED BY <2>1, <1>1, <1>4, <1>6 DEF Routers
<1>14. Books'
  <2>1. \A t : ClustersOf(t)' = ClustersOf(t)
    BY <1>1, <1>5 DEF ClustersOf
  <2> QED BY <2>1, <1>1, <1>2, <1>3, <1>5 DEF Books, Placement
<1>15. Seeds'
  BY <1>1, <1>2, <1>3, <1>5 DEF Seeds
<1> QED BY <1>7, <1>8, <1>9, <1>10, <1>12, <1>13, <1>14, <1>15 DEF IInv

\* The last mode of a type has failed: its tree is freed, with nothing in it.
LEMMA NoModeKeeps ==
  ASSUME IInv, NoMode
  PROVE  IInv' /\ clb' = clb
<1> DEFINE s == Free(Undoing, type)
<1>1. /\ pc = "mode" /\ pc' = "type" /\ Become(s)
      /\ UNCHANGED <<loop, left, cluster, attempt, queue, usable, search, result>>
  BY DEF NoMode
<1>2. UNCHANGED <<stage, seen, seed, type, topMode, opened, mol, site, placed, intra, used>>
  BY <1>1 DEF loop, cluster, attempt, result
<1>3. /\ Types /\ Control /\ Lookups /\ Valids /\ Trees /\ Routers /\ Books /\ Seeds
  BY DEF IInv
<1>4. /\ Resting /\ Resting' /\ ~opened /\ mol = seed /\ mol \in valid /\ type \in Type
      /\ seed \in Molecule /\ type \in AllPbs
  BY <1>1, <1>3 DEF Resting, Control, Filling, Working, FirstTry, AllPbs
<1>5. Trial = {} /\ Trial' = {} /\ NumClb' = NumClb /\ Open' = Open
  BY <1>2, <1>4 DEF Trial, NumClb, Open
<1>6. InOpen = {} /\ Accepted = {}
  BY <1>3, <1>4, <1>5 DEF InOpen, Accepted, Lookups
<1>7. /\ Undoing \in UndoStates /\ Undoing.tree = tree /\ Undoing.router = router
      /\ Undoing.at = at /\ Undoing.clb = clb /\ Undoing.valid = valid
  BY <1>3 DEF Types, Undoing, UndoStates
<1>8. Inside(Undoing, type) = {}
  BY <1>6, <1>7 DEF Inside, InOpen
<1>9. /\ s \in UndoStates /\ LookupCleared(Undoing, s, {}) /\ TreeFreed(Undoing, s, type)
      /\ s.router = router /\ s.valid = valid
  BY <1>4, <1>7, <1>8, FreeIs
<1> HIDE DEF s
<1>10. /\ tree' = s.tree /\ router' = router /\ valid' = valid
       /\ at' \in [Atom -> Holders] /\ clb' \in [Atom -> Nat] /\ tree' \in TreeStates
       /\ \A a \in Atom : at'[a] = at[a] /\ clb'[a] = clb[a]
  BY <1>1, <1>7, <1>9 DEF Become, UndoStates, LookupCleared
<1>11. at' = at /\ clb' = clb
  <2>1. at \in [Atom -> Holders] /\ clb \in [Atom -> Nat]
    BY <1>3 DEF Types
  <2> QED BY <2>1, <1>10
<1>12. InOpen' = {} /\ Accepted' = {}
  BY <1>5, <1>6, <1>11 DEF InOpen, Accepted
<1>13. Types'
  BY <1>1, <1>2, <1>3, <1>10 DEF Types
<1>14. Control'
  BY <1>1, <1>2, <1>3, <1>4, <1>10 DEF Control, Working, Filling, FirstTry
<1>15. Lookups'
  BY <1>2, <1>3, <1>4, <1>5, <1>11, <1>12 DEF Lookups
<1>16. Valids'
  BY <1>1, <1>3, <1>5, <1>10, <1>11 DEF Valids
<1>17. \A n : Under(n, Accepted)' = {} /\ Under(n, InOpen)' = {}
  BY <1>12 DEF Under
<1>18. \A n : Under(n, Accepted) = {} /\ Under(n, InOpen) = {}
  BY <1>6 DEF Under
<1>19. \A k \in AllPbs : /\ tree'.mode[k] = IF k \in Gone(type) THEN NoKids ELSE tree.mode[k]
                         /\ tree'.count[k] = IF k \in Gone(type) THEN 0 ELSE tree.count[k]
  BY <1>7, <1>9, <1>10 DEF TreeFreed
<1>20. \A k \in AllPbs : tree'.mode[k] = NoKids /\ tree'.count[k] = 0
  <2>1. \A k \in AllPbs : tree.count[k] = 0
    BY <1>3, <1>18, FS_EmptySet DEF Trees
  <2>2. \A k \in AllPbs : k # type => tree.mode[k] = NoKids
    BY <1>3, <1>18 DEF Trees, AllPbs
  <2>3. type \in Gone(type)
    BY DEF Gone
  <2> QED BY <2>1, <2>2, <2>3, <1>19
<1>21. tree'.named = {}
  BY <1>3, <1>6, <1>7, <1>9, <1>10 DEF TreeFreed, Trees
<1>22. Trees'
  BY <1>12, <1>17, <1>20, <1>21, FS_EmptySet DEF Trees, AllPbs
<1>23. Routers'
  BY <1>2, <1>3, <1>4, <1>6, <1>10, <1>12, <1>20 DEF Routers, AllPbs
<1>24. Books'
  <2>1. \A t : ClustersOf(t)' = ClustersOf(t)
    BY <1>5, <1>11 DEF ClustersOf
  <2> QED BY <2>1, <1>2, <1>3, <1>5, <1>11 DEF Books, Placement
<1>25. Seeds'
  BY <1>1, <1>2, <1>3, <1>5, <1>11 DEF Seeds
<1> QED BY <1>11, <1>13, <1>14, <1>15, <1>16, <1>22, <1>23, <1>24, <1>25 DEF IInv

LEMMA FindSiteKeeps ==
  ASSUME IInv, Queues, FindSite
  PROVE  IInv'
<1>1. /\ pc = "find" /\ pc' = "place" /\ placed' = 0
      /\ UNCHANGED <<loop, left, cluster, mol, at, clb, valid, tree, router, usable,
                     search, result>>
  BY DEF FindSite
<1>2. UNCHANGED <<stage, seen, seed, type, topMode, opened, intra, used>>
  BY <1>1 DEF loop, cluster, result
<1>3. /\ Types /\ Control /\ Lookups /\ Valids /\ Trees /\ Routers /\ Books /\ Seeds
  BY DEF IInv
<1>4. /\ Resting /\ ~Resting' /\ mol \in valid /\ type \in Type /\ mol \in Molecule
  BY <1>1, <1>3 DEF Resting, Control, Working, FirstTry
<1>5. Trial = {} /\ Trial' = {} /\ NumClb' = NumClb /\ Open' = Open
  <2>1. 1..0 = {}
    OBVIOUS
  <2> QED BY <2>1, <1>1, <1>2, <1>4 DEF Trial, NumClb, Open
<1>6. InOpen' = InOpen /\ Accepted' = Accepted /\ Accepted = InOpen
  BY <1>1, <1>5 DEF InOpen, Accepted
<1>7. site' \in Sites[mol] /\ Range(site') \subseteq PrimitivesOf(type)
  <2>1. site' \in SitesIn(Prepared)
    BY DEF FindSite
  <2>2. /\ site' \in Sites[mol] /\ site'[Root[mol]] \in InBuckets(Prepared)
    BY <2>1 DEF SitesIn, InBuckets
  <2>3. InBuckets(Prepared) \subseteq PrimitivesOf(type)
    BY <1>4, PreparedIs DEF Sound, Listed
  <2>4. /\ site' \in [DOMAIN AtomsOf[mol] -> Primitive]
        /\ \A i, j \in DOMAIN site' : TypeOf(site'[i]) = TypeOf(site'[j])
        /\ Root[mol] \in DOMAIN site'
    BY <2>2, <1>4, TreeAssumption, NetlistAssumption
  <2>5. TypeOf(site'[Root[mol]]) = type
    BY <2>2, <2>3, <1>4, PrimitivesOfType
  <2>6. ASSUME NEW i \in DOMAIN site' PROVE site'[i] \in PrimitivesOf(type)
    <3>1. site'[i] \in Primitive /\ TypeOf(site'[i]) = type
      BY <2>4, <2>5
    <3>2. site'[i] \in Pb
      BY <3>1, PrimitiveIsLeaf
    <3>3. type \in Anc(site'[i])
      BY <3>1, <3>2, OneRoot
    <3>4. site'[i] \in Below[type]
      BY <3>2, <3>3, <1>4, BelowIs DEF AllPbs
    <3> QED BY <3>1, <3>4 DEF PrimitivesOf
  <2> QED BY <2>2, <2>6 DEF Range
<1>8. Types'
  BY <1>1, <1>2, <1>3 DEF Types
<1>9. Control'
  <2>1. 0 \in Nat /\ 0 < Len(AtomsOf[mol]) /\ 0 <= Len(AtomsOf[mol])
    BY <1>4, MoleculeAtoms
  <2>2. PrimitivesOf(type)' = PrimitivesOf(type)
    BY <1>2 DEF PrimitivesOf
  <2> QED BY <2>1, <2>2, <1>1, <1>2, <1>3, <1>4, <1>6, <1>7 DEF Control, Working, Filling, FirstTry
<1>10. Lookups'
  <2>1. \A i \in 1..Len(AtomsOf[mol]) : clb[AtomsOf[mol][i]] = 0 /\ ~(i <= 0)
    <3>1. \A a \in Atoms(mol) : clb[a] = 0
      BY <1>3, <1>4, <1>5 DEF Valids
    <3> QED BY <3>1, <1>4, MoleculeAtoms
  <2> QED BY <2>1, <1>1, <1>2, <1>3, <1>4, <1>5, <1>6 DEF Lookups
<1>11. Valids'
  BY <1>1, <1>3, <1>5 DEF Valids
<1>12. \A n : Under(n, Accepted)' = Under(n, Accepted) /\ Under(n, InOpen)' = Under(n, InOpen)
  BY <1>1, <1>6 DEF Under
<1>13. Trees'
  BY <1>1, <1>2, <1>3, <1>6, <1>12 DEF Trees
<1>14. Placement(Accepted)' = Placement(Accepted)
  BY <1>1, <1>6 DEF Placement
<1>15. Routers'
  BY <1>1, <1>2, <1>3, <1>6, <1>14 DEF Routers
<1>16. Books'
  <2>1. \A t : ClustersOf(t)' = ClustersOf(t)
    BY <1>1, <1>5 DEF ClustersOf
  <2> QED BY <2>1, <1>1, <1>2, <1>3, <1>5 DEF Books, Placement
<1>17. Seeds'
  BY <1>1, <1>2, <1>3, <1>5 DEF Seeds
<1> QED BY <1>8, <1>9, <1>10, <1>11, <1>13, <1>15, <1>16, <1>17 DEF IInv

LEMMA RejectKeeps ==
  ASSUME IInv, Reject
  PROVE  IInv'
<1>1. /\ pc = "check" /\ pc' = "revert"
      /\ UNCHANGED <<loop, left, cluster, attempt, at, clb, valid, tree, router,
                     queue, usable, search, result>>
  BY DEF Reject
<1>2. UNCHANGED <<stage, seen, seed, type, topMode, opened, mol, site, placed, intra, used>>
  BY <1>1 DEF loop, cluster, attempt, result
<1>3. /\ Types /\ Control /\ Lookups /\ Valids /\ Trees /\ Routers /\ Books /\ Seeds
  BY DEF IInv
<1>4. ~Resting /\ ~Resting'
  BY <1>1 DEF Resting
<1>5. Trial' = Trial /\ NumClb' = NumClb /\ Open' = Open
  BY <1>2, <1>4 DEF Trial, NumClb, Open
<1>6. InOpen' = InOpen /\ Accepted' = Accepted
  BY <1>1, <1>5 DEF InOpen, Accepted
<1>7. Types' /\ Valids'
  BY <1>1, <1>2, <1>3, <1>5 DEF Types, Valids
<1>8. Control'
  <2>1. PrimitivesOf(type)' = PrimitivesOf(type)
    BY <1>2 DEF PrimitivesOf
  <2> QED BY <2>1, <1>1, <1>2, <1>3, <1>4, <1>6 DEF Control, Working, Filling, FirstTry
<1>9. Lookups'
  BY <1>1, <1>2, <1>3, <1>4, <1>5, <1>6 DEF Lookups
<1>10. \A n : Under(n, Accepted)' = Under(n, Accepted) /\ Under(n, InOpen)' = Under(n, InOpen)
  BY <1>1, <1>6 DEF Under
<1>11. Trees'
  BY <1>1, <1>2, <1>3, <1>6, <1>10 DEF Trees
<1>12. Placement(Accepted)' = Placement(Accepted)
  BY <1>1, <1>6 DEF Placement
<1>13. Routers'
  BY <1>1, <1>2, <1>3, <1>6, <1>12 DEF Routers
<1>14. Books'
  <2>1. \A t : ClustersOf(t)' = ClustersOf(t)
    BY <1>1, <1>5 DEF ClustersOf
  <2> QED BY <2>1, <1>1, <1>2, <1>3, <1>5 DEF Books, Placement
<1>15. Seeds'
  BY <1>1, <1>2, <1>3, <1>5 DEF Seeds
<1> QED BY <1>7, <1>8, <1>9, <1>11, <1>13, <1>14, <1>15 DEF IInv

\* An atom is placed: it and the pbs made for it are on trial.
LEMMA PlaceAtomKeeps ==
  ASSUME IInv, PlaceAtom
  PROVE  IInv' /\ Accepted' = Accepted /\ \A b \in Accepted : at'[b] = at[b]
<1> DEFINE a == AtomsOf[mol][placed + 1]
           p == site[placed + 1]
           path == Range(Above[p])
           new == {n \in path : tree.mode[n] = NoKids}
           refused == placed + 1 = Root[mol] /\ p \notin ChainStarts[mol]
           modeT == [n \in AllPbs |-> IF n \in new THEN ModeToward[n][p] ELSE tree.mode[n]]
           modeR == [n \in AllPbs |-> IF n \in new THEN ModeToward[n][p] ELSE router.mode[n]]
           named == IF refused THEN tree.named ELSE tree.named \cup {p}
<1>1. /\ pc = "place" /\ placed' = placed + 1
      /\ \A n \in path \ new : tree.mode[n] = ModeToward[n][p]
      /\ topMode = ModeToward[type][p]
      /\ at[a] = None /\ clb[a] = 0
      /\ \A b \in InOpen : at[b] # p
      /\ a \notin router.added
      /\ tree' = [tree EXCEPT !.mode = modeT, !.named = named]
      /\ router' = [router EXCEPT !.added = router.added \cup {a}, !.mode = modeR]
      /\ at' = [at EXCEPT ![a] = p]
      /\ clb' = [clb EXCEPT ![a] = Open]
      /\ pc' = IF refused THEN "revert"
               ELSE IF placed + 1 = Len(AtomsOf[mol]) THEN "check" ELSE "place"
      /\ UNCHANGED <<loop, left, cluster, mol, site, valid, queue, usable, search, result>>
  BY DEF PlaceAtom
<1>2. UNCHANGED <<stage, seen, seed, type, topMode, opened, intra, used>>
  BY <1>1 DEF loop, cluster, result
<1>3. /\ Types /\ Control /\ Lookups /\ Valids /\ Trees /\ Routers /\ Books /\ Seeds
  BY DEF IInv
<1>4. ~Resting /\ ~Resting' /\ pc # "revert"
  BY <1>1 DEF Resting
<1>5. /\ mol \in Molecule /\ mol \in valid /\ placed \in Nat /\ placed < Len(AtomsOf[mol])
      /\ Trial = {AtomsOf[mol][i] : i \in 1..placed} /\ Trial \subseteq Atoms(mol)
      /\ type \in Type /\ site \in Sites[mol] /\ Range(site) \subseteq PrimitivesOf(type)
  <2>1. type \in Type /\ placed < Len(AtomsOf[mol])
        /\ site \in Sites[mol] /\ Range(site) \subseteq PrimitivesOf(type)
    BY <1>1, <1>3, <1>4 DEF Control, Working
  <2> QED BY <2>1, <1>4, InMolecule
<1>6. /\ Trial \subseteq InOpen /\ InOpen \subseteq Atom /\ Open \in Nat /\ Open # 0
      /\ \A b \in InOpen : at[b] \in Primitive /\ at[b] \in Pb /\ TypeOf(at[b]) = type
  BY AcceptedFacts
<1>7. /\ placed + 1 \in 1..Len(AtomsOf[mol]) /\ 1..(placed + 1) = (1..placed) \cup {placed + 1}
      /\ \A i \in 1..placed : i \in 1..Len(AtomsOf[mol])
  BY <1>5, MoleculeAtoms
<1>8. a \in Atom /\ a \in Atoms(mol) /\ a \notin InOpen /\ a \notin Trial
  <2>1. a \in Atoms(mol) /\ a \in Atom
    BY <1>5, <1>7, MoleculeAtoms
  <2> QED BY <2>1, <1>1, <1>6 DEF InOpen
<1>9. p \in PrimitivesOf(type) /\ placed + 1 \in DOMAIN site /\ DOMAIN site = 1..Len(AtomsOf[mol])
  <2>1. DOMAIN site = DOMAIN AtomsOf[mol]
    BY <1>5, TreeAssumption
  <2>2. DOMAIN AtomsOf[mol] = 1..Len(AtomsOf[mol])
    BY <1>5, MoleculeAtoms
  <2> QED BY <2>1, <2>2, <1>5, <1>7 DEF Range
<1>10. p \in Primitive /\ p \in Pb /\ p # None /\ type \in Anc(p) /\ TypeOf(p) = type
       /\ p \in AllPbs /\ path = Anc(p) /\ path \subseteq AllPbs
  BY <1>5, <1>9, PrimitivesOfType, PrimitiveIsLeaf, PathTypes DEF Anc
<1>11. \A n \in path : ModeToward[n][p] \in Nat /\ ModeToward[n][p] # NoKids
  BY <1>10, ModeTowardType
<1>12. /\ at \in [Atom -> Holders] /\ clb \in [Atom -> Nat] /\ tree \in TreeStates
       /\ router \in RouterStates
  BY <1>3 DEF Types
<1>13. named \subseteq Primitive /\ modeT \in [AllPbs -> Int] /\ modeR \in [AllPbs -> Int]
  <2>1. tree.named \subseteq Primitive /\ tree.mode \in [AllPbs -> Int] /\ router.mode \in [AllPbs -> Int]
    BY <1>12 DEF TreeStates, RouterStates
  <2>2. \A n \in new : ModeToward[n][p] \in Int
    BY <1>11
  <2>3. named \subseteq Primitive
    BY <2>1, <1>10
  <2> HIDE DEF new, named
  <2> QED BY <2>1, <2>2, <2>3
<1>14. /\ \A n \in AllPbs : modeT[n] = IF n \in new THEN ModeToward[n][p] ELSE tree.mode[n]
       /\ \A n \in AllPbs : modeR[n] = IF n \in new THEN ModeToward[n][p] ELSE router.mode[n]
  OBVIOUS
<1> HIDE DEF modeT, modeR, named
<1>15. /\ tree' \in TreeStates /\ tree'.mode = modeT /\ tree'.count = tree.count
       /\ tree'.named = named
  BY <1>1, <1>12, <1>13 DEF TreeStates
<1>16. /\ router' \in RouterStates /\ router'.mode = modeR /\ router'.saved = router.saved
       /\ router'.added = router.added \cup {a}
  BY <1>1, <1>8, <1>12, <1>13 DEF RouterStates
<1>17. /\ at' \in [Atom -> Holders] /\ clb' \in [Atom -> Nat]
       /\ at'[a] = p /\ clb'[a] = Open
       /\ \A b \in Atom : b # a => at'[b] = at[b] /\ clb'[b] = clb[b]
  BY <1>1, <1>6, <1>8, <1>10, <1>12 DEF Holders
<1>18. NumClb' = NumClb /\ Open' = Open
  BY <1>2 DEF NumClb, Open
<1>19. Trial' = Trial \cup {a}
  <2>1. Trial' = {AtomsOf[mol][i] : i \in 1..(placed + 1)}
    BY <1>1, <1>4 DEF Trial
  <2> QED BY <2>1, <1>5, <1>7
<1> HIDE DEF a, p
<1>20. InOpen' = InOpen \cup {a}
  <2>1. InOpen' = {b \in Atom : clb'[b] = Open}
    BY <1>18 DEF InOpen
  <2> QED BY <2>1, <1>8, <1>17 DEF InOpen
<1>21. Accepted' = Accepted /\ \A b \in Accepted : at'[b] = at[b] /\ b \in Atom /\ b # a
  <2>1. Accepted' = Accepted
    BY <1>8, <1>19, <1>20 DEF Accepted
  <2> QED BY <2>1, <1>6, <1>8, <1>17 DEF Accepted
<1>22. \A n : Under(n, Accepted)' = Under(n, Accepted)
  <2>1. \A n : Under(n, Accepted)' = {b \in Accepted' : n \in Anc(at'[b])}
    BY DEF Under, Anc
  <2> QED BY <2>1, <1>21 DEF Under
<1>23. \A n : Under(n, InOpen)' # {} <=> (Under(n, InOpen) # {} \/ n \in path)
  <2>1. \A n : Under(n, InOpen)' = {b \in InOpen' : n \in Anc(at'[b])}
    BY DEF Under, Anc
  <2>2. \A b \in InOpen : at'[b] = at[b]
    BY <1>6, <1>8, <1>17
  <2> QED BY <2>1, <2>2, <1>10, <1>17, <1>20 DEF Under
<1>24. ASSUME NEW b \in InOpen, NEW n \in Anc(at[b])
       PROVE  /\ n \in AllPbs /\ tree.mode[n] = ModeToward[n][at[b]] /\ tree.mode[n] # NoKids
              /\ n \notin new
  <2>1. n \in AllPbs
    BY <1>6, PathTypes DEF AllPbs
  <2>2. tree.mode[n] = ModeToward[n][at[b]] /\ ModeToward[n][at[b]] # NoKids
    BY <1>3, <1>6, ModeTowardType DEF Trees
  <2> QED BY <2>1, <2>2
<1>25. Types'
  BY <1>1, <1>2, <1>3, <1>15, <1>16, <1>17 DEF Types
<1>26. Control'
  <2>1. PrimitivesOf(type)' = PrimitivesOf(type)
    BY <1>2 DEF PrimitivesOf
  <2>2. pc' \in {"revert", "check", "place"}
    BY <1>1
  <2>3. placed' \in Nat /\ placed' <= Len(AtomsOf[mol])
        /\ (pc' = "place" => placed' < Len(AtomsOf[mol]))
        /\ (pc' = "check" => placed' = Len(AtomsOf[mol]))
    BY <1>1, <1>5, MoleculeAtoms
  <2> QED BY <2>1, <2>2, <2>3, <1>1, <1>2, <1>3, <1>4, <1>5, <1>21
          DEF Control, Working, Filling, FirstTry
<1>27. Lookups'
  <2>1. \A b \in Atom : clb'[b] <= Open /\ (at'[b] = None <=> clb'[b] = 0)
    <3> TAKE b \in Atom
    <3>1. CASE b = a
      BY <3>1, <1>6, <1>10, <1>17
    <3>2. CASE b # a
      BY <3>2, <1>3, <1>17 DEF Lookups
    <3> QED BY <3>1, <3>2
  <2>2. \A b, c \in Atom : b # c /\ clb'[b] # 0 => <<clb'[b], at'[b]>> # <<clb'[c], at'[c]>>
    <3> SUFFICES ASSUME NEW b \in Atom, NEW c \in Atom, b # c, clb'[b] # 0,
                        clb'[b] = clb'[c], at'[b] = at'[c]
                 PROVE  FALSE
      OBVIOUS
    <3>1. CASE b = a
      <4>1. c \in InOpen /\ at[c] = p
        BY <3>1, <1>17 DEF InOpen
      <4> QED BY <4>1, <1>1 DEF p
    <3>2. CASE c = a
      <4>1. b \in InOpen /\ at[b] = p
        BY <3>2, <1>17 DEF InOpen
      <4> QED BY <4>1, <1>1 DEF p
    <3>3. CASE b # a /\ c # a
      BY <3>3, <1>3, <1>17 DEF Lookups
    <3> QED BY <3>1, <3>2, <3>3
  <2>3. \A b \in InOpen' : at'[b] \in PrimitivesOf(type)
    BY <1>3, <1>6, <1>8, <1>9, <1>17, <1>20 DEF Lookups
  <2>4. ASSUME NEW i \in 1..Len(AtomsOf[mol])
        PROVE  IF i <= placed + 1
               THEN clb'[AtomsOf[mol][i]] = Open /\ at'[AtomsOf[mol][i]] = site[i]
               ELSE clb'[AtomsOf[mol][i]] = 0
    <3>1. AtomsOf[mol][i] \in Atom
      BY <1>5, MoleculeAtoms
    <3>2. CASE i = placed + 1
      BY <3>2, <1>5, <1>17 DEF a, p
    <3>3. CASE i # placed + 1
      <4>1. AtomsOf[mol][i] # a
        BY <3>3, <1>5, <1>7, MoleculeAtoms DEF a
      <4>2. clb'[AtomsOf[mol][i]] = clb[AtomsOf[mol][i]] /\ at'[AtomsOf[mol][i]] = at[AtomsOf[mol][i]]
        BY <3>1, <4>1, <1>17
      <4>3. i \in Nat /\ (i <= placed + 1 <=> i <= placed)
        BY <3>3, <1>5, MoleculeAtoms
      <4>4. IF i <= placed
            THEN clb[AtomsOf[mol][i]] = Open /\ at[AtomsOf[mol][i]] = site[i]
            ELSE clb[AtomsOf[mol][i]] = 0
        BY <1>3, <1>4 DEF Lookups
      <4> QED BY <4>2, <4>3, <4>4
    <3> QED BY <3>2, <3>3
  <2>5. opened <=> Accepted' # {}
    BY <1>3, <1>21 DEF Lookups
  <2>6. /\ \A b \in Atom : clb'[b] <= Open' /\ (at'[b] = None <=> clb'[b] = 0)
        /\ \A b \in InOpen' : at'[b] \in PrimitivesOf(type)'
    <3>1. PrimitivesOf(type)' = PrimitivesOf(type)
      BY <1>2 DEF PrimitivesOf
    <3> QED BY <3>1, <2>1, <2>3, <1>18
  <2>7. \A i \in 1..Len(AtomsOf[mol']) :
          IF i <= placed'
          THEN clb'[AtomsOf[mol'][i]] = Open' /\ at'[AtomsOf[mol'][i]] = site'[i]
          ELSE clb'[AtomsOf[mol'][i]] = 0
    BY <2>4, <1>1, <1>18
  <2> QED BY <2>2, <2>5, <2>6, <2>7, <1>2 DEF Lookups
<1>28. Valids'
  <2>1. valid = {m \in Molecule : \A b \in Atoms(m) : clb[b] = 0 \/ b \in Trial}
    BY <1>3 DEF Valids
  <2>2. \A b \in Atom : (clb'[b] = 0 \/ b \in Trial') <=> (clb[b] = 0 \/ b \in Trial)
    BY <1>1, <1>17, <1>19 DEF a
  <2>3. \A m \in Molecule : (\A b \in Atoms(m) : clb[b] = 0 \/ b \in Trial)
                              <=> (\A b \in Atoms(m) : clb'[b] = 0 \/ b \in Trial')
    BY <2>2, MoleculeAtoms
  <2>4. valid' = {m \in Molecule : \A b \in Atoms(m) : clb'[b] = 0 \/ b \in Trial'}
    BY <2>1, <2>3, <1>1
  <2> QED BY <2>4, <1>1, <1>3 DEF Valids
<1>29. Trees'
  <2>1. \A n \in AllPbs : tree'.count[n] = Cardinality(Under(n, Accepted)')
    BY <1>3, <1>15, <1>22 DEF Trees
  <2>2. \A n \in Pb : tree'.mode[n] # NoKids <=> Under(n, InOpen)' # {}
    <3> TAKE n \in Pb
    <3>1. n \in AllPbs
      BY DEF AllPbs
    <3>2. tree.mode[n] # NoKids <=> Under(n, InOpen) # {}
      BY <1>3 DEF Trees
    <3>3. CASE n \in new
      BY <3>1, <3>3, <1>11, <1>14, <1>15, <1>23
    <3>4. CASE n \notin new
      <4>1. tree'.mode[n] = tree.mode[n]
        BY <3>1, <3>4, <1>14, <1>15
      <4>2. n \in path => tree.mode[n] # NoKids
        BY <3>4
      <4> QED BY <4>1, <4>2, <3>2, <1>23
    <3> QED BY <3>3, <3>4
  <2>3. \A t \in Type : t # type' => tree'.mode[t] = NoKids
    <3> TAKE t \in Type
    <3>1. t \in AllPbs /\ (t # type => t \notin path)
      BY <1>10, OneRoot DEF AllPbs
    <3> QED BY <3>1, <1>2, <1>3, <1>14, <1>15 DEF Trees
  <2>4. \A b \in InOpen' : \A n \in Anc(at'[b]) : tree'.mode[n] = ModeToward[n][at'[b]]
    <3> TAKE b \in InOpen'
    <3> TAKE n \in Anc(at'[b])
    <3>1. CASE b = a
      <4>1. at'[b] = p /\ n \in path /\ n \in AllPbs
        BY <3>1, <1>10, <1>17
      <4>2. CASE n \in new
        BY <4>1, <4>2, <1>14, <1>15
      <4>3. CASE n \notin new
        <5>1. tree.mode[n] = ModeToward[n][p]
          BY <4>1, <4>3, <1>1 DEF p
        <5> QED BY <4>1, <4>3, <5>1, <1>14, <1>15
      <4> QED BY <4>2, <4>3
    <3>2. CASE b # a
      <4>1. b \in InOpen /\ at'[b] = at[b]
        BY <3>2, <1>6, <1>17, <1>20
      <4>2. n \in AllPbs /\ tree.mode[n] = ModeToward[n][at[b]] /\ n \notin new
        BY <4>1, <1>24
      <4> QED BY <4>1, <4>2, <1>14, <1>15
    <3> QED BY <3>1, <3>2
  <2>5. tree.named = {at[b] : b \in InOpen}
    BY <1>3, <1>4 DEF Trees
  <2>6. \A b \in InOpen : at'[b] = at[b]
    BY <1>6, <1>8, <1>17
  <2>7. {at'[b] : b \in InOpen'} = tree.named \cup {p}
    BY <2>5, <2>6, <1>17, <1>20
  <2>8. \A b \in Accepted : at'[b] \in tree'.named
    <3>1. \A b \in Accepted : at[b] \in tree.named
      BY <2>5 DEF Accepted
    <3>2. tree.named \subseteq tree'.named
      BY <1>15 DEF named
    <3> QED BY <3>1, <3>2, <1>21
  <2>9. tree'.named \subseteq {at'[b] : b \in InOpen'}
        /\ (pc' # "revert" => tree'.named = {at'[b] : b \in InOpen'})
    BY <2>7, <1>1, <1>15 DEF named, p
  <2> QED BY <2>1, <2>2, <2>3, <2>4, <2>8, <2>9, <1>21 DEF Trees, Anc
<1>30. Routers'
  <2>1. router'.added = InOpen'
    BY <1>3, <1>16, <1>20 DEF Routers
  <2>2. \A b \in InOpen' : \A n \in Anc(at'[b]) \cap Pb : router'.mode[n] = tree'.mode[n]
    <3> TAKE b \in InOpen'
    <3> TAKE n \in Anc(at'[b]) \cap Pb
    <3>0. n \in AllPbs
      BY DEF AllPbs
    <3>1. CASE n \in new
      BY <3>0, <3>1, <1>14, <1>15, <1>16
    <3>2. CASE n \notin new
      <4>1. Under(n, InOpen) # {}
        <5>1. CASE b = a
          <6>1. n \in path /\ tree.mode[n] # NoKids
            BY <5>1, <3>2, <1>10, <1>17
          <6> QED BY <6>1, <1>3 DEF Trees
        <5>2. CASE b # a
          <6>1. b \in InOpen /\ at'[b] = at[b]
            BY <5>2, <1>6, <1>17, <1>20
          <6> QED BY <6>1 DEF Under
        <5> QED BY <5>1, <5>2
      <4>2. PICK c \in InOpen : n \in Anc(at[c])
        BY <4>1 DEF Under
      <4>3. router.mode[n] = tree.mode[n]
        BY <4>2, <1>3 DEF Routers
      <4> QED BY <4>3, <3>0, <3>2, <1>14, <1>15, <1>16
    <3> QED BY <3>1, <3>2
  <2>3. \A t \in Type : tree'.mode[t] # NoKids => router'.mode[t] \in {0, tree'.mode[t]}
    <3> TAKE t \in Type
    <3>1. t \in AllPbs
      BY DEF AllPbs
    <3>2. tree.mode[t] # NoKids => router.mode[t] \in {0, tree.mode[t]}
      BY <1>3 DEF Routers
    <3>3. CASE t \in new
      BY <3>1, <3>3, <1>14, <1>15, <1>16
    <3>4. CASE t \notin new
      BY <3>1, <3>2, <3>4, <1>14, <1>15, <1>16
    <3> QED BY <3>3, <3>4
  <2>4. Placement(Accepted)' = Placement(Accepted)
    <3>1. Placement(Accepted)' = {<<b, at'[b]>> : b \in Accepted'}
      BY DEF Placement
    <3> QED BY <3>1, <1>21 DEF Placement
  <2>5. stage' = 2 /\ opened' => router'.saved = Placement(Accepted)'
    BY <2>4, <1>2, <1>3, <1>16 DEF Routers
  <2> QED BY <2>1, <2>2, <2>3, <2>5 DEF Routers, Anc
<1>31. NumClb \in Nat
  BY <1>3, LenProperties DEF Types, NumClb
<1>32. Books'
  <2>1. \A c \in 1..NumClb : c # Open /\ c # 0
    BY <1>31 DEF Open
  <2>2. ASSUME NEW c \in 1..NumClb
        PROVE  intra'[c] = {<<b, at'[b]>> : b \in {e \in Atom : clb'[e] = c}}
    <3>1. \A e \in Atom : clb'[e] = c <=> clb[e] = c
      BY <2>1, <1>1, <1>17 DEF a
    <3>2. \A e \in Atom : clb[e] = c => at'[e] = at[e]
      BY <2>1, <1>1, <1>17 DEF a
    <3>3. intra[c] = {<<b, at[b]>> : b \in {e \in Atom : clb[e] = c}}
      BY <1>3 DEF Books, Placement
    <3> QED BY <3>1, <3>2, <3>3, <1>2
  <2>3. ASSUME NEW t \in Type PROVE ClustersOf(t)' = ClustersOf(t)
    <3>1. ClustersOf(t)' = {clb'[b] : b \in {e \in Atom \ Trial' : clb'[e] # 0 /\ TypeOf(at'[e]) = t}}
      BY DEF ClustersOf, TypeOf
    <3>2. {e \in Atom \ Trial' : clb'[e] # 0 /\ TypeOf(at'[e]) = t}
            = {e \in Atom \ Trial : clb[e] # 0 /\ TypeOf(at[e]) = t}
      BY <1>1, <1>17, <1>19 DEF a
    <3>3. \A e \in Atom \ Trial : clb[e] # 0 => clb'[e] = clb[e]
      BY <1>1, <1>17 DEF a
    <3> QED BY <3>1, <3>2, <3>3 DEF ClustersOf
  <2> QED BY <2>2, <2>3, <1>2, <1>3, <1>18 DEF Books, Placement
<1>33. Seeds'
  <2>1. ASSUME NEW b \in seen, clb[b] \in 1..NumClb PROVE clb'[b] = clb[b]
    <3>1. clb[b] # 0 /\ b \in Atom
      BY <2>1, <1>3, <1>31 DEF Types
    <3> QED BY <3>1, <1>1, <1>17 DEF a
  <2>2. pc' \notin {"seed", "done"}
    BY <1>1
  <2> QED BY <2>1, <2>2, <1>2, <1>3, <1>18 DEF Seeds
<1> QED BY <1>21, <1>25, <1>26, <1>27, <1>28, <1>29, <1>30, <1>32, <1>33 DEF IInv

\* update_cluster_stats counts each atom of the molecule once for every pb
\* above it.
LEMMA CountTrial ==
  ASSUME IInv, pc = "check", NEW n \in AllPbs
  PROVE  /\ Trial = Atoms(mol)
         /\ IsFiniteSet(Under(n, Accepted)) /\ IsFiniteSet(Under(n, Trial))
         /\ Cardinality({i \in DOMAIN site : n \in Range(Above[site[i]])})
              = Cardinality(Under(n, Trial))
<1> DEFINE I == {i \in DOMAIN site : n \in Range(Above[site[i]])}
           U == Under(n, Trial)
           f == [i \in I |-> AtomsOf[mol][i]]
<1>1. ~Resting /\ Control /\ Lookups
  BY DEF Resting, IInv
<1>2. /\ mol \in Molecule /\ placed = Len(AtomsOf[mol]) /\ site \in Sites[mol]
      /\ Trial = {AtomsOf[mol][i] : i \in 1..placed}
  BY <1>1, InMolecule DEF Control
<1>3. Trial = Atoms(mol) /\ Trial \subseteq Atom
  BY <1>2, MoleculeAtoms
<1>4. DOMAIN site = 1..placed
  <2>1. DOMAIN site = DOMAIN AtomsOf[mol]
    BY <1>2, TreeAssumption
  <2>2. DOMAIN AtomsOf[mol] = 1..Len(AtomsOf[mol])
    BY <1>2, MoleculeAtoms
  <2> QED BY <2>1, <2>2, <1>2
<1>5. \A i \in 1..placed : at[AtomsOf[mol][i]] = site[i]
  <2> TAKE i \in 1..placed
  <2>1. i \in 1..Len(AtomsOf[mol]) /\ i <= placed
    BY <1>2, MoleculeAtoms
  <2> QED BY <2>1, <1>1 DEF Lookups
<1>6. IsFiniteSet(Under(n, Accepted)) /\ IsFiniteSet(U)
  <2>1. Under(n, Accepted) \subseteq Atom /\ U \subseteq Atom
    BY <1>3, AcceptedFacts DEF Under, Accepted
  <2> QED BY <2>1, NetlistAssumption, FS_Subset
<1>7. \A i \in 1..placed : i \in I <=> AtomsOf[mol][i] \in U
  BY <1>2, <1>4, <1>5 DEF Under, Anc
<1>8. I \subseteq 1..placed
  BY <1>4
<1>9. \A a \in U : \E i \in 1..placed : a = AtomsOf[mol][i]
  BY <1>2 DEF Under
<1> HIDE DEF I, U
<1>10. f \in [I -> U]
  BY <1>7, <1>8
<1>11. \A i, j \in I : f[i] = f[j] => i = j
  BY <1>2, <1>8, MoleculeAtoms
<1>12. \A a \in U : \E i \in I : f[i] = a
  BY <1>7, <1>8, <1>9
<1>13. f \in Bijection(I, U)
  <2> HIDE DEF f
  <2>1. f \in Injection(I, U)
    BY <1>10, <1>11 DEF Injection, IsInjective
  <2>2. f \in Surjection(I, U)
    BY <1>10, <1>12 DEF Surjection
  <2> QED BY <2>1, <2>2 DEF Bijection
<1>14. IsFiniteSet(I)
  <2>1. 1 \in Int /\ placed \in Int
    BY <1>2, MoleculeAtoms
  <2>2. IsFiniteSet(1..placed)
    BY ONLY <2>1, FS_Interval
  <2> QED BY <2>2, <1>8, FS_Subset
<1>15. Cardinality(U) = Cardinality(I)
  <2>1. ExistsBijection(I, U)
    BY <1>13 DEF ExistsBijection
  <2> QED BY ONLY <2>1, <1>14, FS_Bijection
<1> QED BY <1>3, <1>6, <1>15 DEF I, U

\* The open cluster is counted once its first molecule is in.
LEMMA ClustersFacts ==
  ASSUME IInv
  PROVE  /\ \A t : IsFiniteSet(ClustersOf(t))
         /\ Open \in ClustersOf(type) <=> opened
<1>1. Types /\ Lookups
  BY DEF IInv
<1>2. /\ Open \in Nat /\ Open # 0 /\ InOpen \subseteq Atom
      /\ \A a \in InOpen : TypeOf(at[a]) = type
  BY AcceptedFacts
<1>3. ASSUME NEW t PROVE IsFiniteSet(ClustersOf(t))
  <2>1. ClustersOf(t) \subseteq 0..Open
    <3>1. \A a \in Atom : clb[a] \in Nat /\ clb[a] <= Open
      BY <1>1 DEF Lookups, Types
    <3> QED BY <3>1, <1>2 DEF ClustersOf
  <2>2. IsFiniteSet(0..Open)
    <3>1. 0 \in Int /\ Open \in Int
      BY <1>2
    <3> QED BY ONLY <3>1, FS_Interval
  <2> QED BY <2>1, <2>2, FS_Subset
<1>4. Accepted # {} <=> opened
  BY <1>1 DEF Lookups
<1>5. ASSUME Open \in ClustersOf(type) PROVE Accepted # {}
  <2>1. PICK a \in Atom \ Trial : clb[a] = Open
    BY <1>5 DEF ClustersOf
  <2> QED BY <2>1 DEF Accepted, InOpen
<1>6. ASSUME NEW a \in Accepted PROVE Open \in ClustersOf(type)
  <2>1. a \in Atom \ Trial /\ clb[a] = Open /\ TypeOf(at[a]) = type
    BY <1>6, <1>2 DEF Accepted, InOpen
  <2> QED BY <2>1, <1>2 DEF ClustersOf
<1> QED BY <1>3, <1>4, <1>5, <1>6

\* A molecule is in: it and the pbs above it are no longer on trial.
LEMMA AcceptKeeps ==
  ASSUME IInv, Accept
  PROVE  IInv'
<1>1. /\ pc = "check" /\ pc' = "pick"
      /\ valid' = {m \in valid : Atoms(m) \cap Atoms(mol) = {}}
      /\ router' = [router EXCEPT !.saved = IF stage = 2 THEN Placement(InOpen) ELSE @]
      /\ tree' = [tree EXCEPT !.count = Counted(@)]
      /\ opened' = TRUE
      /\ used' = IF opened THEN used ELSE [used EXCEPT ![type] = @ + 1]
      /\ UNCHANGED <<loop, left, type, topMode, attempt, at, clb, intra>>
  BY DEF Accept
<1>2. UNCHANGED <<stage, seen, seed, type, topMode, mol, site, placed, intra>>
  BY <1>1 DEF loop, attempt
<1>3. /\ Types /\ Control /\ Lookups /\ Valids /\ Trees /\ Routers /\ Books /\ Seeds
  BY DEF IInv
<1>4. ~Resting /\ Resting' /\ pc \in Working /\ pc' \in Filling /\ pc' \in Working
      /\ pc' \notin FirstTry
  BY <1>1 DEF Resting, Working, Filling, FirstTry
<1>5. /\ mol \in Molecule /\ mol \in valid /\ type \in Type
  BY <1>3, <1>4, InMolecule DEF Control
<1>6. Trial = Atoms(mol) /\ Atoms(mol) # {}
  BY <1>1, <1>5, CountTrial, MoleculeAtoms DEF AllPbs
<1>7. /\ Trial \subseteq InOpen /\ InOpen \subseteq Atom /\ Open \in Nat /\ Open # 0
      /\ \A a \in InOpen : at[a] \in Primitive /\ at[a] \in Pb /\ type \in Anc(at[a]) /\ TypeOf(at[a]) = type
  BY AcceptedFacts
<1>8. Trial' = {} /\ NumClb' = NumClb /\ Open' = Open
  BY <1>2, <1>4 DEF Trial, NumClb, Open
<1>9. InOpen' = InOpen /\ Accepted' = InOpen /\ InOpen = Accepted \cup Trial
  BY <1>1, <1>7, <1>8 DEF InOpen, Accepted
<1>10. \A n : /\ Under(n, Accepted)' = Under(n, InOpen) /\ Under(n, InOpen)' = Under(n, InOpen)
              /\ Under(n, InOpen) = Under(n, Accepted) \cup Under(n, Trial)
              /\ Under(n, Accepted) \cap Under(n, Trial) = {}
  <2>1. \A n : Under(n, Accepted)' = Under(n, InOpen) /\ Under(n, InOpen)' = Under(n, InOpen)
    BY <1>1, <1>9 DEF Under
  <2>2. \A n : Under(n, InOpen) = Under(n, Accepted) \cup Under(n, Trial)
    BY <1>9 DEF Under
  <2>3. \A n : Under(n, Accepted) \cap Under(n, Trial) = {}
    BY DEF Under, Accepted
  <2> QED BY <2>1, <2>2, <2>3
<1>11. Counted(tree.count) \in [AllPbs -> Nat]
       /\ \A n \in AllPbs : Counted(tree.count)[n] = Cardinality(Under(n, InOpen))
  <2>1. ASSUME NEW n \in AllPbs
        PROVE  /\ Counted(tree.count)[n] = Cardinality(Under(n, InOpen))
               /\ Counted(tree.count)[n] \in Nat
    <3>1. /\ IsFiniteSet(Under(n, Accepted)) /\ IsFiniteSet(Under(n, Trial))
          /\ Cardinality({i \in DOMAIN site : n \in Range(Above[site[i]])})
               = Cardinality(Under(n, Trial))
      BY <1>1, CountTrial
    <3>2. Counted(tree.count)[n] = Cardinality(Under(n, Accepted)) + Cardinality(Under(n, Trial))
      BY <3>1, <1>3 DEF Counted, Trees
    <3>3. /\ IsFiniteSet(Under(n, InOpen))
          /\ Cardinality(Under(n, InOpen))
               = Cardinality(Under(n, Accepted)) + Cardinality(Under(n, Trial)) - Cardinality({})
      BY <3>1, <1>10, FS_Union
    <3>4. Cardinality({}) = 0 /\ Cardinality(Under(n, Accepted)) \in Nat
          /\ Cardinality(Under(n, Trial)) \in Nat
      BY <3>1, FS_EmptySet, FS_CardinalityType
    <3> QED BY <3>2, <3>3, <3>4
  <2> QED BY <2>1 DEF Counted
<1>12. /\ tree' \in TreeStates /\ tree'.mode = tree.mode /\ tree'.named = tree.named
       /\ tree'.count = Counted(tree.count)
  <2> DEFINE c == Counted(tree.count)
  <2>1. c \in [AllPbs -> Nat] /\ tree' = [tree EXCEPT !.count = c]
    BY <1>1, <1>11
  <2> HIDE DEF c
  <2>2. /\ tree' \in TreeStates /\ tree'.mode = tree.mode /\ tree'.named = tree.named
        /\ tree'.count = c
    BY <2>1, <1>3 DEF Types, TreeStates
  <2> QED BY <2>2 DEF c
<1>13. Placement(InOpen) \in SUBSET (Atom \X Holders)
  <2>1. \A a \in InOpen : a \in Atom /\ at[a] \in Holders
    BY <1>3, <1>7 DEF Types
  <2> QED BY <2>1 DEF Placement
<1>14. /\ router' \in RouterStates /\ router'.mode = router.mode /\ router'.added = router.added
       /\ stage = 2 => router'.saved = Placement(InOpen)
  <2> DEFINE p == IF stage = 2 THEN Placement(InOpen) ELSE router.saved
  <2>1. p \in SUBSET (Atom \X Holders) /\ (stage = 2 => p = Placement(InOpen))
    BY <1>3, <1>13 DEF Types, RouterStates
  <2>2. router' = [router EXCEPT !.saved = p]
    BY <1>1
  <2> HIDE DEF p
  <2> QED BY <2>1, <2>2, <1>3 DEF Types, RouterStates
<1>15. search' \in SearchStates /\ search'.list = NotValid
  <2>1. PICK fanout \in BOOLEAN :
          search' = [search EXCEPT !.list = NotValid, !.attempts = 0,
                                   !.fanout = fanout \/ search.fanout]
    BY DEF Accept
  <2>2. search \in SearchStates
    BY <1>3 DEF Types
  <2> DEFINE g == fanout \/ search.fanout
  <2>3. g \in BOOLEAN
    OBVIOUS
  <2>4. search' = [search EXCEPT !.list = NotValid, !.attempts = 0, !.fanout = g]
    BY <2>1
  <2> HIDE DEF g
  <2> QED BY <2>2, <2>3, <2>4 DEF SearchStates, NotValid
<1>16. used' \in [Type -> Int]
  BY <1>1, <1>3, <1>5 DEF Types
<1>17. Types'
  BY <1>1, <1>2, <1>3, <1>12, <1>14, <1>15, <1>16 DEF Types
<1>18. Atoms(seed) \subseteq InOpen
  <2>1. CASE opened
    BY <2>1, <1>3, <1>9 DEF Control
  <2>2. CASE ~opened
    BY <2>2, <1>3, <1>4, <1>6, <1>7 DEF Control
  <2> QED BY <2>1, <2>2, <1>3 DEF Control
<1>19. Control'
  <2>1. pc' \notin {"seed", "done", "type"}
    BY <1>1
  <2> QED BY <2>1, <1>1, <1>2, <1>3, <1>4, <1>5, <1>9, <1>18 DEF Control, Working
<1>20. Lookups'
  BY <1>1, <1>2, <1>3, <1>4, <1>6, <1>7, <1>8, <1>9 DEF Lookups
<1>21. Valids'
  <2>1. \A a \in Trial : a \in Atom /\ clb[a] # 0
    BY <1>7 DEF InOpen
  <2>2. \A m \in Molecule : m \in valid <=> \A a \in Atoms(m) : clb[a] = 0 \/ a \in Trial
    BY <1>3 DEF Valids
  <2>3. ASSUME NEW m \in Molecule
        PROVE  m \in valid' <=> \A a \in Atoms(m) : clb[a] = 0
    BY <2>1, <2>2, <1>1, <1>6
  <2>4. valid' \subseteq Molecule
    BY <1>1, <1>3 DEF Types
  <2>5. valid' = {m \in Molecule : \A a \in Atoms(m) : clb'[a] = 0 \/ a \in Trial'}
    BY <2>3, <2>4, <1>1, <1>8
  <2> QED BY <2>5, <1>15 DEF Valids
<1>22. Trees'
  <2>1. \A n \in AllPbs : tree'.count[n] = Cardinality(Under(n, Accepted)')
    BY <1>10, <1>11, <1>12
  <2>2. \A n \in Pb : tree'.mode[n] # NoKids <=> Under(n, InOpen)' # {}
    <3> TAKE n \in Pb
    <3>1. tree.mode[n] # NoKids <=> Under(n, InOpen) # {}
      BY <1>3 DEF Trees
    <3> QED BY <3>1, <1>10, <1>12
  <2>4. \A t \in Type : t # type' => tree'.mode[t] = NoKids
    BY <1>2, <1>3, <1>12 DEF Trees
  <2>5. \A a \in InOpen' : \A n \in Anc(at'[a]) : tree'.mode[n] = ModeToward[n][at'[a]]
    <3>1. \A a \in InOpen : \A n \in Anc(at[a]) : tree.mode[n] = ModeToward[n][at[a]]
      BY <1>3 DEF Trees
    <3> QED BY <3>1, <1>1, <1>9, <1>12
  <2>3. tree'.named = {at'[a] : a \in InOpen'} /\ tree'.named = {at'[a] : a \in Accepted'}
    BY <1>1, <1>3, <1>9, <1>12 DEF Trees
  <2> QED BY <2>1, <2>2, <2>3, <2>4, <2>5 DEF Trees, Anc
<1>23. Routers'
  <2>1. Placement(Accepted)' = Placement(InOpen)
    BY <1>1, <1>9 DEF Placement
  <2> QED BY <2>1, <1>1, <1>2, <1>3, <1>9, <1>12, <1>14 DEF Routers
<1>24. Books'
  <2>1. ASSUME NEW t \in Type
        PROVE  ClustersOf(t)' = ClustersOf(t) \cup (IF t = type THEN {Open} ELSE {})
    <3>1. ClustersOf(t)' = {clb[a] : a \in {b \in Atom : clb[b] # 0 /\ TypeOf(at[b]) = t}}
      BY <1>1, <1>8 DEF ClustersOf
    <3>2. {b \in Atom : clb[b] # 0 /\ TypeOf(at[b]) = t}
            = {b \in Atom \ Trial : clb[b] # 0 /\ TypeOf(at[b]) = t}
                \cup {b \in Trial : t = type}
      BY <1>7 DEF InOpen
    <3>3. {clb[a] : a \in {b \in Trial : t = type}} = IF t = type THEN {Open} ELSE {}
      BY <1>6, <1>7 DEF InOpen
    <3> QED BY <3>1, <3>2, <3>3 DEF ClustersOf
  <2>2. (Open \in ClustersOf(type) <=> opened) /\ \A t : IsFiniteSet(ClustersOf(t))
    BY ClustersFacts
  <2>4. ASSUME NEW t \in Type PROVE used'[t] = Cardinality(ClustersOf(t)')
    <3>1. used[t] = Cardinality(ClustersOf(t)) /\ used \in [Type -> Int]
      BY <1>3 DEF Books, Types
    <3>2. CASE t # type
      BY <3>1, <3>2, <2>1, <1>1
    <3>3. CASE t = type /\ opened
      <4>1. ClustersOf(t)' = ClustersOf(t)
        BY <3>3, <2>1, <2>2
      <4> QED BY <4>1, <3>1, <3>3, <1>1
    <3>4. CASE t = type /\ ~opened
      <4>1. ClustersOf(t)' = ClustersOf(t) \cup {Open} /\ Open \notin ClustersOf(t)
        BY <3>4, <2>1, <2>2
      <4>2. Cardinality(ClustersOf(t)') = Cardinality(ClustersOf(t)) + 1
        BY <4>1, <2>2, FS_AddElement
      <4> QED BY <4>2, <3>1, <3>4, <1>1
    <3> QED BY <3>2, <3>3, <3>4
  <2>5. \A c \in 1..NumClb : intra'[c] = Placement({a \in Atom : clb[a] = c})'
    BY <1>1, <1>3 DEF Books, Placement
  <2> QED BY <2>4, <2>5, <1>8 DEF Books
<1>25. Seeds'
  <2>1. pc' \notin {"seed", "done"} /\ pc \notin {"seed", "done"}
    BY <1>1
  <2> QED BY <2>1, <1>1, <1>2, <1>3, <1>8 DEF Seeds
<1> QED BY <1>17, <1>19, <1>20, <1>21, <1>22, <1>23, <1>24, <1>25 DEF IInv

\* A finished cluster is routed for the placement it has.
LEMMA CloseClusterKeeps ==
  ASSUME IInv, CloseCluster
  PROVE  IInv'
<1>1. /\ pc = "end" /\ pc' = "seed" /\ opened' = FALSE
      /\ intra' = Append(intra, IF stage = 1 THEN Placement(InOpen) ELSE router.saved)
      /\ tree' = EmptyTree /\ router' = NewRouter
      /\ UNCHANGED <<loop, left, type, topMode, attempt, at, clb, valid, search, used>>
  BY DEF CloseCluster
<1>2. UNCHANGED <<stage, seen, seed, type, topMode, mol, site, placed>>
  BY <1>1 DEF loop, attempt
<1>3. /\ Types /\ Control /\ Lookups /\ Valids /\ Trees /\ Routers /\ Books /\ Seeds
  BY DEF IInv
<1>4. Resting /\ Resting' /\ opened
  BY <1>1, <1>3 DEF Resting, Control, Working, FirstTry
<1>5. Trial = {} /\ Trial' = {}
  BY <1>4 DEF Trial
<1>6. Accepted = InOpen /\ InOpen \subseteq Atom
  BY <1>5 DEF Accepted, InOpen
<1>7. intra \in Seq(SUBSET (Atom \X Holders)) /\ NumClb \in Nat /\ Open = NumClb + 1
  BY <1>3, LenProperties DEF Types, NumClb, Open
<1> DEFINE last == IF stage = 1 THEN Placement(InOpen) ELSE router.saved
<1>8. last = Placement(InOpen) /\ last \in SUBSET (Atom \X Holders)
  <2>1. last = Placement(InOpen)
    BY <1>3, <1>4, <1>6 DEF Control, Routers
  <2>2. \A a \in InOpen : a \in Atom /\ at[a] \in Holders
    BY <1>3, <1>6 DEF Types
  <2>3. Placement(InOpen) \in SUBSET (Atom \X Holders)
    BY <2>2 DEF Placement
  <2> QED BY <2>1, <2>3
<1> HIDE DEF last
<1>9. /\ intra' \in Seq(SUBSET (Atom \X Holders)) /\ NumClb' = NumClb + 1
      /\ \A c \in 1..NumClb : intra'[c] = intra[c]
      /\ intra'[Open] = Placement(InOpen)
  <2>1. intra' = Append(intra, last)
    BY <1>1 DEF last
  <2> QED BY <2>1, <1>7, <1>8, AppendProperties DEF NumClb
<1>10. Open' = Open + 1 /\ NumClb' = Open
  BY <1>7, <1>9 DEF Open
<1>11. \A a \in Atom : clb[a] \in Nat /\ clb[a] <= Open /\ clb[a] # Open + 1
  BY <1>3, <1>7 DEF Types, Lookups
<1>12. InOpen' = {} /\ Accepted' = {}
  <2>1. InOpen' = {a \in Atom : clb[a] = Open + 1}
    BY <1>1, <1>10 DEF InOpen
  <2> QED BY <2>1, <1>11 DEF Accepted
<1>13. \A n : Under(n, Accepted)' = {} /\ Under(n, InOpen)' = {}
  BY <1>12 DEF Under
<1>14. Types'
  <2>1. EmptyTree \in TreeStates /\ NewRouter \in RouterStates
    BY DEF EmptyTree, NewRouter, TreeStates, RouterStates, NoKids
  <2> QED BY <2>1, <1>1, <1>2, <1>3, <1>9 DEF Types
<1>15. Control'
  BY <1>1, <1>2, <1>3, <1>4 DEF Control, Working, FirstTry
<1>16. Lookups'
  <2>1. \A a \in Atom : clb'[a] <= Open' /\ (at'[a] = None <=> clb'[a] = 0)
    BY <1>1, <1>3, <1>7, <1>10, <1>11 DEF Lookups
  <2> QED BY <2>1, <1>1, <1>3, <1>4, <1>12 DEF Lookups
<1>17. Valids'
  BY <1>1, <1>3, <1>5 DEF Valids
<1>18. Trees'
  <2>1. \A n \in AllPbs : tree'.count[n] = 0 /\ tree'.mode[n] = NoKids
    BY <1>1 DEF EmptyTree
  <2>2. tree'.named = {}
    BY <1>1 DEF EmptyTree
  <2> QED BY <2>1, <2>2, <1>12, <1>13, FS_EmptySet DEF Trees, AllPbs
<1>19. Routers'
  <2>1. router'.added = {} /\ \A t \in Type : tree'.mode[t] = NoKids
    BY <1>1 DEF NewRouter, EmptyTree, AllPbs
  <2> QED BY <2>1, <1>1, <1>12 DEF Routers
<1>20. Books'
  <2>1. \A t : ClustersOf(t)' = ClustersOf(t)
    BY <1>1, <1>5 DEF ClustersOf
  <2>2. ASSUME NEW c \in 1..NumClb'
        PROVE  intra'[c] = Placement({a \in Atom : clb[a] = c})
    <3>1. CASE c = Open
      BY <3>1, <1>9 DEF InOpen
    <3>2. CASE c # Open
      <4>1. c \in 1..NumClb
        BY <3>2, <1>7, <1>10
      <4> QED BY <4>1, <1>3, <1>9 DEF Books
    <3> QED BY <3>1, <3>2
  <2>3. \A c \in 1..NumClb' : intra'[c] = Placement({a \in Atom : clb[a] = c})'
    BY <2>2, <1>1 DEF Placement
  <2> QED BY <2>1, <2>3, <1>1, <1>3 DEF Books
<1>21. Seeds'
  <2>1. \A a \in seen : clb[a] \in 1..Open
    <3> TAKE a \in seen
    <3>1. CASE clb[a] \in 1..NumClb
      BY <3>1, <1>7
    <3>2. CASE a \in Atoms(seed)
      <4>1. a \in InOpen
        BY <3>2, <1>3, <1>4, <1>6 DEF Control
      <4> QED BY <4>1, <1>7 DEF InOpen
    <3> QED BY <3>1, <3>2, <1>3 DEF Seeds
  <2> QED BY <2>1, <1>1, <1>2, <1>10 DEF Seeds
<1> QED BY <1>14, <1>15, <1>16, <1>17, <1>18, <1>19, <1>20, <1>21 DEF IInv

\* A cluster that cannot be routed is emptied: all its molecules are valid again.
LEMMA UndoClusterKeeps ==
  ASSUME IInv, UndoCluster
  PROVE  IInv' /\ \A a \in Atom : clb'[a] = IF a \in InOpen THEN 0 ELSE clb[a]
<1> DEFINE r == Revalid(Undoing, type)
           f == Free(r, type)
           s == [f EXCEPT !.router = NewRouter]
<1>1. /\ pc = "end" /\ pc' = "type" /\ opened' = FALSE /\ stage' = 2
      /\ used' = [used EXCEPT ![type] = @ - 1]
      /\ Become(s) /\ left' = Candidates[seed]
      /\ UNCHANGED <<seen, seed, type, topMode, attempt, search, intra>>
  BY DEF UndoCluster
<1>2. UNCHANGED <<seen, seed, type, topMode, mol, site, placed>>
  BY <1>1 DEF attempt
<1>3. /\ Types /\ Control /\ Lookups /\ Valids /\ Trees /\ Routers /\ Books /\ Seeds
  BY DEF IInv
<1>4. /\ Resting /\ Resting' /\ opened /\ type \in Type /\ type \in AllPbs
      /\ seed \in Molecule
  BY <1>1, <1>3 DEF Resting, Control, Working, FirstTry, AllPbs
<1>5. Trial = {} /\ Trial' = {} /\ NumClb' = NumClb /\ Open' = Open
  BY <1>1, <1>4 DEF Trial, NumClb, Open
<1>6. Accepted = InOpen /\ InOpen \subseteq Atom /\ Open \in Nat /\ Open # 0 /\ NumClb \in Nat
  BY <1>3, <1>5, AcceptedFacts, LenProperties DEF Accepted, Types, NumClb
<1>7. /\ Undoing \in UndoStates /\ Undoing.tree = tree /\ Undoing.router = router
      /\ Undoing.at = at /\ Undoing.clb = clb /\ Undoing.valid = valid
  BY <1>3 DEF Types, Undoing, UndoStates
<1>8. Inside(Undoing, type) = InOpen
  <2>1. ASSUME NEW a \in InOpen PROVE at[a] \in tree.named /\ at[a] \in Below[type]
    BY <1>3, <1>4, <1>6, PrimitivesOfType DEF Trees, Lookups
  <2> QED BY <2>1, <1>6, <1>7 DEF Inside, InOpen
<1>9. /\ r \in UndoStates /\ LookupCleared(Undoing, r, InOpen) /\ r.tree = tree
      /\ r.valid = valid \cup {m \in Molecule : /\ Atoms(m) \cap InOpen # {}
                                                /\ \A a \in Atoms(m) : r.clb[a] = 0}
  BY <1>4, <1>7, <1>8, RevalidIs
<1> HIDE DEF r
<1>10. Inside(r, type) = {}
  <2>1. \A a \in Atom : r.clb[a] # Open
    BY <1>6, <1>7, <1>9 DEF LookupCleared, InOpen
  <2> QED BY <2>1 DEF Inside
<1>11. /\ f \in UndoStates /\ LookupCleared(r, f, {}) /\ TreeFreed(r, f, type)
       /\ f.valid = r.valid
  BY <1>4, <1>9, <1>10, FreeIs
<1> HIDE DEF f
<1>12. NewRouter \in RouterStates
  BY DEF NewRouter, RouterStates
<1>13. /\ s \in UndoStates /\ s.tree = f.tree /\ s.at = f.at /\ s.clb = f.clb
       /\ s.valid = f.valid /\ s.router = NewRouter
  BY <1>11, <1>12 DEF UndoStates
<1> HIDE DEF s
<1>14. /\ tree' = f.tree /\ router' = NewRouter /\ at' = f.at /\ clb' = f.clb /\ valid' = r.valid
  BY <1>1, <1>11, <1>13 DEF Become
<1>15. \A a \in Atom : /\ at'[a] = IF a \in InOpen THEN None ELSE at[a]
                       /\ clb'[a] = IF a \in InOpen THEN 0 ELSE clb[a]
                       /\ r.clb[a] = clb'[a]
  BY <1>7, <1>9, <1>11, <1>14 DEF LookupCleared
<1>16. InOpen' = {} /\ Accepted' = {}
  <2>1. InOpen' = {a \in Atom : clb'[a] = Open}
    BY <1>5 DEF InOpen
  <2> QED BY <2>1, <1>6, <1>15 DEF InOpen, Accepted
<1>17. \A n : Under(n, Accepted)' = {} /\ Under(n, InOpen)' = {}
  BY <1>16 DEF Under
<1>18. ASSUME NEW k \in AllPbs, k \notin Gone(type)
       PROVE  Under(k, Accepted) = {} /\ Under(k, InOpen) = {}
  <2>1. ASSUME NEW a \in InOpen, k \in Anc(at[a]) PROVE FALSE
    <3>1. type \in Anc(at[a]) /\ at[a] \in AllPbs
      BY AcceptedFacts DEF AllPbs
    <3>2. k = type \/ k \in Anc(type) \/ type \in Anc(k)
      BY <2>1, <3>1, AboveIsChain
    <3>3. Anc(type) = {}
      BY <1>4, PathTypes
    <3>4. k # type /\ k \notin Below[type]
      BY <1>18 DEF Gone
    <3>5. k \in Pb
      <4>1. type \in Anc(k)
        BY <3>2, <3>3, <3>4
      <4> QED BY <4>1, PathTypes DEF AllPbs
    <3> QED BY <1>4, <3>2, <3>3, <3>4, <3>5, BelowIs
  <2> QED BY <2>1, <1>6 DEF Under
<1>19. \A k \in AllPbs : tree'.mode[k] = NoKids /\ tree'.count[k] = 0
  <2> TAKE k \in AllPbs
  <2>1. CASE k \in Gone(type)
    BY <2>1, <1>11, <1>14 DEF TreeFreed
  <2>2. CASE k \notin Gone(type)
    <3>1. tree'.mode[k] = tree.mode[k] /\ tree'.count[k] = tree.count[k]
      BY <2>2, <1>9, <1>11, <1>14 DEF TreeFreed
    <3>2. tree.count[k] = 0
      BY <2>2, <1>3, <1>18, FS_EmptySet DEF Trees
    <3>3. tree.mode[k] = NoKids
      <4>1. k # type
        BY <2>2 DEF Gone
      <4> QED BY <4>1, <2>2, <1>3, <1>18 DEF Trees, AllPbs
    <3> QED BY <3>1, <3>2, <3>3
  <2> QED BY <2>1, <2>2
<1>20. tree'.named = {}
  <2>1. tree.named \subseteq Gone(type)
    BY <1>3, <1>4, PrimitivesOfType DEF Trees, Lookups, Gone
  <2> QED BY <2>1, <1>9, <1>11, <1>14 DEF TreeFreed
<1>21. valid' = {m \in Molecule : \A a \in Atoms(m) : clb'[a] = 0} /\ valid \subseteq valid'
  <2>1. valid = {m \in Molecule : \A a \in Atoms(m) : clb[a] = 0}
    BY <1>3, <1>5 DEF Valids
  <2>2. \A m \in Molecule : \A a \in Atoms(m) : a \in Atom
    BY MoleculeAtoms
  <2>3. ASSUME NEW m \in Molecule
        PROVE  m \in r.valid <=> \A a \in Atoms(m) : clb'[a] = 0
    <3>1. \A a \in Atoms(m) : r.clb[a] = clb'[a]
      BY <2>2, <1>15
    <3>2. m \in valid <=> \A a \in Atoms(m) : clb[a] = 0
      BY <2>1
    <3>3. CASE Atoms(m) \cap InOpen = {}
      <4>1. \A a \in Atoms(m) : clb'[a] = clb[a]
        BY <3>3, <2>2, <1>15
      <4> QED BY <4>1, <3>2, <3>3, <1>9
    <3>4. CASE Atoms(m) \cap InOpen # {}
      <4>1. m \notin valid
        BY <3>2, <3>4, <1>6 DEF InOpen
      <4> QED BY <4>1, <3>1, <3>4, <1>9
    <3> QED BY <3>3, <3>4
  <2>4. r.valid \subseteq Molecule /\ valid \subseteq r.valid
    BY <1>9 DEF UndoStates
  <2> QED BY <2>3, <2>4, <1>14
<1>22. Types'
  <2>1. at' \in [Atom -> Holders] /\ clb' \in [Atom -> Nat] /\ tree' \in TreeStates
        /\ valid' \subseteq Molecule
    BY <1>11, <1>14, <1>21 DEF UndoStates
  <2>2. left' \subseteq Type
    BY <1>1, <1>4, NetlistAssumption
  <2>3. used' \in [Type -> Int]
    <3>1. used \in [Type -> Int] /\ used[type] - 1 \in Int
      BY <1>3, <1>4 DEF Types
    <3> QED BY <3>1, <1>1
  <2> QED BY <2>1, <2>2, <2>3, <1>1, <1>2, <1>3, <1>12, <1>14 DEF Types
<1>23. Control'
  <2>1. seed \in valid'
    <3>1. \A a \in Atoms(seed) : a \in InOpen /\ a \in Atom
      BY <1>3, <1>4, <1>6 DEF Control
    <3>2. \A a \in Atoms(seed) : clb'[a] = 0
      BY <3>1, <1>15
    <3> QED BY <3>2, <1>4, <1>21
  <2> QED BY <2>1, <1>1, <1>2, <1>3, <1>4 DEF Control, Working, FirstTry
<1>24. Lookups'
  <2>1. \A a \in Atom : clb'[a] <= Open /\ (at'[a] = None <=> clb'[a] = 0)
    BY <1>3, <1>6, <1>15 DEF Lookups
  <2>2. \A a, b \in Atom : a # b /\ clb'[a] # 0 => <<clb'[a], at'[a]>> # <<clb'[b], at'[b]>>
    <3> SUFFICES ASSUME NEW a \in Atom, NEW b \in Atom, a # b, clb'[a] # 0,
                        clb'[a] = clb'[b], at'[a] = at'[b]
                 PROVE  FALSE
      OBVIOUS
    <3>1. a \notin InOpen /\ b \notin InOpen
      BY <1>15
    <3> QED BY <3>1, <1>3, <1>15 DEF Lookups
  <2> QED BY <2>1, <2>2, <1>1, <1>4, <1>5, <1>16 DEF Lookups
<1>25. Valids'
  <2>1. valid' = {m \in Molecule : \A a \in Atoms(m) : clb'[a] = 0 \/ a \in Trial'}
    BY <1>5, <1>21
  <2>2. search'.list # NotValid => search'.list \subseteq valid'
    BY <1>1, <1>3, <1>21 DEF Valids
  <2> QED BY <2>1, <2>2 DEF Valids
<1>26. Trees'
  BY <1>16, <1>17, <1>19, <1>20, FS_EmptySet DEF Trees, AllPbs
<1>27. Routers'
  <2>1. router'.added = {} /\ \A t \in Type : tree'.mode[t] = NoKids
    BY <1>14, <1>19 DEF NewRouter, AllPbs
  <2> QED BY <2>1, <1>1, <1>16 DEF Routers
<1>28. Books'
  <2>1. (Open \in ClustersOf(type)) /\ \A t : IsFiniteSet(ClustersOf(t))
    BY <1>4, ClustersFacts
  <2>2. ASSUME NEW t \in Type PROVE ClustersOf(t)' = ClustersOf(t) \ {Open}
    <3>1. ClustersOf(t)' = {clb'[a] : a \in {b \in Atom : clb'[b] # 0 /\ TypeOf(at'[b]) = t}}
      BY <1>5 DEF ClustersOf, TypeOf
    <3>2. ClustersOf(t) = {clb[a] : a \in {b \in Atom : clb[b] # 0 /\ TypeOf(at[b]) = t}}
      BY <1>5 DEF ClustersOf
    <3>3. {b \in Atom : clb'[b] # 0 /\ TypeOf(at'[b]) = t}
            = {b \in Atom : clb[b] # 0 /\ clb[b] # Open /\ TypeOf(at[b]) = t}
      BY <1>15 DEF InOpen
    <3>4. \A b \in Atom : clb[b] # Open => clb'[b] = clb[b]
      BY <1>15 DEF InOpen
    <3> QED BY <3>1, <3>2, <3>3, <3>4
  <2>3. ASSUME NEW t \in Type PROVE used'[t] = Cardinality(ClustersOf(t)')
    <3>1. used[t] = Cardinality(ClustersOf(t)) /\ used \in [Type -> Int]
      BY <1>3 DEF Books, Types
    <3>2. CASE t = type
      <4>1. Cardinality(ClustersOf(t)') = Cardinality(ClustersOf(t)) - 1
        BY <3>2, <2>1, <2>2, FS_RemoveElement
      <4> QED BY <4>1, <3>1, <3>2, <1>1
    <3>3. CASE t # type
      <4>1. Open \notin ClustersOf(t)
        <5>1. \A b \in Atom : clb[b] = Open => TypeOf(at[b]) = type
          BY AcceptedFacts DEF InOpen
        <5> QED BY <5>1, <3>3 DEF ClustersOf
      <4> QED BY <4>1, <3>1, <3>3, <2>2, <1>1
    <3> QED BY <3>2, <3>3
  <2>4. ASSUME NEW c \in 1..NumClb
        PROVE  intra'[c] = {<<a, at'[a]>> : a \in {b \in Atom : clb'[b] = c}}
    <3>1. c # Open /\ c # 0
      BY <1>6 DEF Open
    <3>2. \A b \in Atom : (clb'[b] = c <=> clb[b] = c) /\ (clb[b] = c => at'[b] = at[b])
      BY <3>1, <1>15 DEF InOpen
    <3>3. intra[c] = {<<a, at[a]>> : a \in {b \in Atom : clb[b] = c}}
      BY <1>3 DEF Books, Placement
    <3> QED BY <3>2, <3>3, <1>1
  <2> QED BY <2>3, <2>4, <1>5 DEF Books, Placement
<1>29. Seeds'
  <2>1. ASSUME NEW a \in seen, clb[a] \in 1..NumClb PROVE clb'[a] = clb[a]
    <3>1. clb[a] # Open /\ a \in Atom
      BY <2>1, <1>3, <1>6 DEF Open, Types
    <3> QED BY <3>1, <1>15 DEF InOpen
  <2> QED BY <2>1, <1>1, <1>2, <1>3, <1>5 DEF Seeds
<1> QED BY <1>15, <1>22, <1>23, <1>24, <1>25, <1>26, <1>27, <1>28, <1>29 DEF IInv

-----------------------------------------------------------------------------
(* The lists of primitives, step by step.                                  *)

LEMMA InitKeeps ==
  ASSUME Init
  PROVE  IInv /\ QInv
<1>1. Resting /\ Trial = {} /\ NumClb = 0 /\ Open = 1
  BY DEF Init, Resting, Trial, NumClb, Open
<1>2. InOpen = {} /\ Accepted = {} /\ \A n : Under(n, InOpen) = {} /\ Under(n, Accepted) = {}
  BY <1>1 DEF Init, InOpen, Accepted, Under
<1>3. \A a \in Atom : at[a] = None /\ clb[a] = 0
  BY DEF Init
<1>4. Types
  <2>1. EmptyTree \in TreeStates /\ NewRouter \in RouterStates /\ NewSearch \in SearchStates
    BY DEF EmptyTree, NewRouter, NewSearch, TreeStates, RouterStates, SearchStates, NoKids, NotValid
  <2>2. at \in [Atom -> Holders] /\ clb \in [Atom -> Nat]
    BY DEF Init, Holders
  <2>3. intra \in Seq(SUBSET (Atom \X Holders)) /\ used \in [Type -> Int]
    BY EmptySeq DEF Init
  <2> QED BY <2>1, <2>2, <2>3 DEF Init, Types
<1>5. Control
  BY <1>1 DEF Init, Control, Working, FirstTry, Filling
<1>6. Lookups
  BY <1>1, <1>2, <1>3 DEF Lookups, Init
<1>7. Valids
  BY <1>3, MoleculeAtoms DEF Valids, Init, NewSearch
<1>8. Trees
  <2>1. \A n \in AllPbs : tree.count[n] = 0 /\ tree.mode[n] = NoKids
    BY DEF Init, EmptyTree
  <2>2. tree.named = {}
    BY DEF Init, EmptyTree
  <2> QED BY <2>1, <2>2, <1>2, FS_EmptySet DEF Trees, AllPbs
<1>9. Routers
  <2>1. router.added = {} /\ \A t \in Type : tree.mode[t] = NoKids
    BY DEF Init, NewRouter, EmptyTree, AllPbs
  <2> QED BY <2>1, <1>2 DEF Routers, Init
<1>10. Books
  <2>1. \A t : ClustersOf(t) = {}
    BY <1>3 DEF ClustersOf
  <2>2. 1..NumClb = {}
    BY <1>1
  <2> QED BY <2>1, <2>2, FS_EmptySet DEF Books, Init
<1>11. Seeds
  BY DEF Seeds, Init
<1>12. Queues
  BY NewQueueIs DEF Queues, Init
<1>13. Usables
  BY DEF Usables, Init, Working
<1> QED BY <1>4, <1>5, <1>6, <1>7, <1>8, <1>9, <1>10, <1>11, <1>12, <1>13 DEF IInv, QInv

\* The same formulas of the state after a step.
LEMMA QueuesNext ==
  ASSUME DOMAIN queue' = Type,
         \A t \in Type : Sound(queue'[t], t) /\ queue'[t].invalid \cap usable' = {}
  PROVE  Queues'
BY DEF Queues, Sound, QueueStates, Sorted, Listed, InBuckets, PrimitivesOf, Below, KindsOf,
       Primitive, AllPbs

LEMMA QueuePut ==
  ASSUME Queues, type \in Type, usable' \subseteq usable,
         NEW r, Sound(r, type), r.invalid \cap usable = {},
         queue' = queue \/ queue' = [queue EXCEPT ![type] = r]
  PROVE  Queues'
<1>1. DOMAIN queue' = Type
  BY DEF Queues
<1>2. \A t \in Type : queue'[t] = queue[t] \/ (t = type /\ queue'[t] = r)
  BY DEF Queues
<1>3. \A t \in Type : Sound(queue'[t], t) /\ queue'[t].invalid \cap usable = {}
  BY <1>2 DEF Queues
<1>4. \A t \in Type : queue'[t].invalid \cap usable' = {}
  BY <1>3
<1> QED BY <1>1, <1>3, <1>4, QueuesNext

LEMMA UsablesNext ==
  ASSUME usable' \subseteq Primitive,
         pc' \in Working =>
           usable' \cap PrimitivesOf(type') =
             {p \in InMode(type', topMode') : \A a \in Accepted' : p \notin BlockedBy[at'[a]]}
  PROVE  Usables'
<1>1. PrimitivesOf(type)' = PrimitivesOf(type')
  BY DEF PrimitivesOf
<1>2. InMode(type, topMode)' = InMode(type', topMode')
  BY DEF InMode, PrimitivesOf
<1> QED BY <1>1, <1>2 DEF Usables

\* While the same molecules are in, the same primitives are usable.
LEMMA UsablesStay ==
  ASSUME Usables, usable' = usable, pc \in Working, type' = type, topMode' = topMode,
         Accepted' = Accepted, \A a \in Accepted : at'[a] = at[a]
  PROVE  Usables'
<1>1. /\ usable \subseteq Primitive
      /\ usable \cap PrimitivesOf(type) =
           {p \in InMode(type, topMode) : \A a \in Accepted : p \notin BlockedBy[at[a]]}
  BY DEF Usables
<1> QED BY <1>1, UsablesNext

LEMMA LookedIs ==
  ASSUME NEW t \in Type, NEW q, Sound(q, t), q.invalid \cap usable = {}, NEW ms
  PROVE  Sound(Looked(q, ms), t) /\ Looked(q, ms).invalid \cap usable = {}
<1> DEFINE as == UNION {Atoms(m) : m \in ms}
<1>1. Looked(q, ms) = Sweep(q, as)
  BY DEF Looked
<1> HIDE DEF as
<1>2. Sound(Sweep(q, as), t) /\ Sweep(q, as).invalid \cap usable = q.invalid \cap usable
  BY SweepIs
<1> QED BY <1>1, <1>2

\* The steps between clusters, and those that place or take back.
LEMMA QueuesStay ==
  ASSUME IInv, QInv,
         NextSeed \/ Finish \/ NoType \/ NoMode \/ PlaceAtom \/ Reject \/ Revert
           \/ CloseCluster \/ UndoCluster
  PROVE  QInv'
<1>1. queue' = queue /\ usable' = usable
  BY DEF NextSeed, Finish, NoType, NoMode, PlaceAtom, Reject, Revert, CloseCluster, UndoCluster
<1>2. Queues'
  BY <1>1, QueuesNext DEF QInv, Queues
<1>3. CASE NextSeed \/ Finish \/ NoType \/ NoMode \/ CloseCluster \/ UndoCluster
  <2>1. pc' \notin Working
    BY <1>3 DEF NextSeed, Finish, NoType, NoMode, CloseCluster, UndoCluster, Working
  <2>2. usable' \subseteq Primitive
    BY <1>1 DEF QInv, Usables
  <2>3. Usables'
    BY <2>1, <2>2, UsablesNext
  <2> QED BY <2>3, <1>2 DEF QInv
<1>4. CASE PlaceAtom \/ Reject \/ Revert
  <2>1. pc \in Working /\ type' = type /\ topMode' = topMode
    BY <1>4 DEF PlaceAtom, Reject, Revert, Working, cluster
  <2>2. Accepted' = Accepted /\ \A a \in Accepted : at'[a] = at[a]
    <3>1. CASE Reject
      <4>1. ~Resting /\ ~Resting' /\ UNCHANGED <<mol, placed, at, clb, intra>>
        BY <3>1 DEF Reject, Resting, attempt, result
      <4> QED BY <4>1 DEF Accepted, InOpen, Trial, Open, NumClb
    <3> QED BY <3>1, <1>4, PlaceAtomKeeps, RevertKeeps
  <2>3. Usables
    BY DEF QInv
  <2>4. Usables'
    BY <2>1, <2>2, <2>3, <1>1, UsablesStay
  <2> QED BY <2>4, <1>2 DEF QInv
<1> QED BY <1>3, <1>4

\* The steps that look at primitives.
LEMMA QueuesLooked ==
  ASSUME IInv, QInv,
         NoSite \/ LookAtConnected \/ LookAtFanout \/ LookAtTransitive
           \/ ChooseCandidate \/ ChooseUnrelated \/ ChooseNone
  PROVE  QInv'
<1>1. /\ pc \in Working /\ Resting /\ Resting'
      /\ UNCHANGED <<type, topMode, at, clb, intra, usable>>
  BY DEF NoSite, LookAtConnected, LookAtFanout, LookAtTransitive, ChooseCandidate,
         ChooseUnrelated, ChooseNone, TryNext, Working, Resting, cluster, result
<1>2. type \in Type /\ (pc = "find" => mol \in Molecule)
  BY <1>1 DEF IInv, Control
<1>3. Accepted' = Accepted
  BY <1>1 DEF Accepted, InOpen, Trial, Open, NumClb
<1>4. Usables'
  BY <1>1, <1>3, UsablesStay DEF QInv
<1>5. Queues /\ Sound(queue[type], type) /\ queue[type].invalid \cap usable = {}
  BY <1>2 DEF QInv, Queues
<1>6. Sound(Flush(queue[type]), type) /\ Flush(queue[type]).invalid \cap usable = {}
  BY <1>2, <1>5, FlushIs
<1>7. \E r : /\ Sound(r, type) /\ r.invalid \cap usable = {}
             /\ queue' = queue \/ queue' = [queue EXCEPT ![type] = r]
  <2>1. CASE NoSite
    <3>1. Sound(Prepared, type) /\ Prepared.invalid \cap usable = {}
      BY <2>1, <1>2, <1>5, PreparedIs DEF NoSite
    <3>2. queue' = [queue EXCEPT ![type] = Prepared]
      BY <2>1 DEF NoSite
    <3> QED BY <3>1, <3>2
  <2>2. CASE queue' = queue
    BY <2>2, <1>5
  <2>3. CASE \E ms : queue' = [queue EXCEPT ![type] = Looked(queue[type], ms)]
    <3>1. PICK ms : queue' = [queue EXCEPT ![type] = Looked(queue[type], ms)]
      BY <2>3
    <3>2. /\ Sound(Looked(queue[type], ms), type)
          /\ Looked(queue[type], ms).invalid \cap usable = {}
      BY <1>2, <1>5, LookedIs
    <3> QED BY <3>1, <3>2
  <2>4. CASE \E ms : queue' = [queue EXCEPT ![type] = Looked(Flush(queue[type]), ms)]
    <3>1. PICK ms : queue' = [queue EXCEPT ![type] = Looked(Flush(queue[type]), ms)]
      BY <2>4
    <3>2. /\ Sound(Looked(Flush(queue[type]), ms), type)
          /\ Looked(Flush(queue[type]), ms).invalid \cap usable = {}
      BY <1>2, <1>6, LookedIs
    <3> QED BY <3>1, <3>2
  <2>5. CASE LookAtConnected
    BY <2>2, <2>3, <2>5 DEF LookAtConnected
  <2>6. CASE LookAtFanout
    BY <2>2, <2>4, <2>6 DEF LookAtFanout
  <2>7. CASE LookAtTransitive
    BY <2>2, <2>3, <2>7 DEF LookAtTransitive
  <2>8. CASE ChooseCandidate \/ ChooseNone
    BY <2>2, <2>8 DEF ChooseCandidate, ChooseNone
  <2>9. CASE ChooseUnrelated
    BY <2>3, <2>9 DEF ChooseUnrelated
  <2> QED BY <2>1, <2>5, <2>6, <2>7, <2>8, <2>9
<1>8. Queues'
  BY <1>1, <1>2, <1>5, <1>7, QueuePut
<1> QED BY <1>4, <1>8 DEF QInv

\* A site is found: its root leaves the bucket it was in and is in flight.
LEMMA QueuesFindSite ==
  ASSUME IInv, QInv, FindSite
  PROVE  QInv'
<1>1. /\ pc = "find" /\ pc' = "place" /\ placed' = 0
      /\ UNCHANGED <<type, topMode, mol, at, clb, intra, usable>>
  BY DEF FindSite, cluster, result
<1>2. type \in Type /\ mol \in Molecule /\ pc \in Working
  BY <1>1 DEF IInv, Control, Working
<1>3. Accepted' = Accepted
  <2>1. Trial = {} /\ Trial' = {}
    <3>1. 1..0 = {}
      OBVIOUS
    <3> QED BY <3>1, <1>1 DEF Trial, Resting
  <2> QED BY <2>1, <1>1 DEF Accepted, InOpen, Open, NumClb
<1>4. Usables'
  BY <1>1, <1>2, <1>3, UsablesStay DEF QInv
<1>5. Queues /\ Sound(Prepared, type) /\ Prepared.flight = {} /\ Prepared.invalid \cap usable = {}
  BY <1>2, PreparedIs DEF QInv
<1> DEFINE q == Prepared
<1>6. PICK s \in SitesIn(q) :
        queue' = [queue EXCEPT ![type] =
                    [q EXCEPT !.flight = {s[Root[mol]]},
                              !.bucket = [i \in DOMAIN @ |-> @[i] \ {s[Root[mol]]}]]]
  BY DEF FindSite
<1> DEFINE p == s[Root[mol]]
           b == [i \in DOMAIN q.bucket |-> q.bucket[i] \ {p}]
           r == [q EXCEPT !.flight = {p}, !.bucket = b]
           n == Cardinality(KindsOf(type))
<1>7. queue' = [queue EXCEPT ![type] = r]
  BY <1>6
<1>8. p \in InBuckets(q)
  BY <1>6 DEF SitesIn, InBuckets
<1>9. q \in QueueStates(type) /\ Sorted(q) /\ Listed(q, type) /\ q.flight = {}
      /\ q.invalid \cap usable = {}
  BY <1>5 DEF Sound
<1> HIDE DEF p, q
<1>10. p \in PrimitivesOf(type)
  BY <1>8, <1>9 DEF Listed
<1>11. q.bucket \in [1..n -> SUBSET PrimitivesOf(type)] /\ DOMAIN q.bucket = 1..n
  BY <1>9 DEF QueueStates
<1> HIDE DEF n
<1>12. /\ b \in [1..n -> SUBSET PrimitivesOf(type)] /\ DOMAIN b = 1..n
       /\ \A i \in 1..n : b[i] = q.bucket[i] \ {p}
  BY <1>11
<1> HIDE DEF b
<1>13. /\ r \in QueueStates(type) /\ r.bucket = b /\ r.flight = {p} /\ r.tried = q.tried
       /\ r.invalid = q.invalid
  BY <1>9, <1>10, <1>12 DEF QueueStates, n
<1> HIDE DEF r
<1>14. Sorted(r)
  BY <1>9, <1>11, <1>12, <1>13 DEF Sorted
<1>15. InBuckets(r) = InBuckets(q) \ {p}
  <2>1. \A x : x \in InBuckets(q) <=> \E i \in 1..n : x \in q.bucket[i]
    BY <1>11 DEF InBuckets, Range
  <2>2. \A x : x \in InBuckets(r) <=> \E i \in 1..n : x \in b[i]
    BY <1>12, <1>13 DEF InBuckets, Range
  <2> QED BY <2>1, <2>2, <1>12
<1>16. Listed(r, type)
  BY <1>8, <1>9, <1>13, <1>15 DEF Listed
<1>17. Sound(r, type) /\ r.invalid \cap usable = {}
  BY <1>9, <1>13, <1>14, <1>16 DEF Sound
<1>18. Queues'
  BY <1>1, <1>2, <1>5, <1>7, <1>17, QueuePut
<1> QED BY <1>4, <1>18 DEF QInv

\* A mode of the root is started, with every primitive of it usable.
LEMMA QueuesStart ==
  ASSUME IInv, QInv, NextType \/ NextMode
  PROVE  QInv'
<1>1. /\ pc' = "find" /\ Resting' /\ ~opened /\ Resting /\ UNCHANGED <<at, clb, intra>>
  BY DEF NextType, NextMode, Resting, IInv, Control, Filling, Working, result
<1>2. Accepted' = {}
  BY <1>1 DEF IInv, Lookups, Accepted, InOpen, Trial, Open, NumClb
<1>3. PICK t \in Type, m \in Nat : StartMode(t, m) /\ type' = t
  <2>1. CASE NextType
    BY <2>1 DEF NextType, IInv, Types
  <2>2. CASE NextMode
    <3>1. type \in Type /\ topMode + 1 \in Nat
      BY <2>2 DEF NextMode, IInv, Control, Working, Types
    <3> QED BY <2>2, <3>1 DEF NextMode
  <2> QED BY <2>1, <2>2
<1>4. /\ Queues' /\ usable' \subseteq Primitive /\ topMode' = m
      /\ usable' \cap PrimitivesOf(t) = InMode(t, m)
  BY <1>3, StartModeIs DEF QInv, Usables
<1>5. Usables'
  BY <1>2, <1>3, <1>4, UsablesNext
<1> QED BY <1>4, <1>5 DEF QInv

\* A molecule is in: its primitives, and those that exclude them, are taken.
LEMMA QueuesAccept ==
  ASSUME IInv, QInv, Accept
  PROVE  QInv'
<1>1. /\ pc = "check" /\ pc' = "pick"
      /\ usable' = usable \ UNION {BlockedBy[p] : p \in Range(site)}
      /\ queue' = [queue EXCEPT ![type] = Flush(queue[type])]
      /\ UNCHANGED <<type, topMode, mol, at, clb, intra>>
  BY DEF Accept, attempt
<1>2. type \in Type /\ ~Resting /\ Resting' /\ pc \in Working
  BY <1>1 DEF IInv, Control, Working, Resting
<1>3. Queues /\ Sound(queue[type], type) /\ queue[type].invalid \cap usable = {}
      /\ usable \subseteq Primitive
  BY <1>2 DEF QInv, Queues, Usables
<1>4. Sound(Flush(queue[type]), type) /\ Flush(queue[type]).invalid \cap usable = {}
  BY <1>2, <1>3, FlushIs
<1>5. Queues'
  BY <1>1, <1>2, <1>3, <1>4, QueuePut
<1>6. Accepted' = Accepted \cup Trial
  <2>1. Trial' = {} /\ InOpen' = InOpen
    BY <1>1, <1>2 DEF Trial, InOpen, Open, NumClb
  <2> QED BY <2>1, AcceptedFacts DEF Accepted
<1>7. Range(site) = {at[a] : a \in Trial}
  <2>1. /\ Trial = Atoms(mol) /\ mol \in Molecule /\ placed = Len(AtomsOf[mol])
        /\ site \in Sites[mol]
    BY <1>1, <1>2, CountTrial, InMolecule DEF IInv, Control, AllPbs
  <2>2. DOMAIN site = 1..Len(AtomsOf[mol]) /\ Atoms(mol) = {AtomsOf[mol][i] : i \in 1..Len(AtomsOf[mol])}
    <3>1. DOMAIN site = DOMAIN AtomsOf[mol]
      BY <2>1, TreeAssumption
    <3> QED BY <3>1, <2>1, MoleculeAtoms
  <2>3. \A i \in 1..Len(AtomsOf[mol]) : at[AtomsOf[mol][i]] = site[i]
    <3> TAKE i \in 1..Len(AtomsOf[mol])
    <3>1. i <= placed
      BY <2>1, MoleculeAtoms
    <3> QED BY <3>1, <1>2 DEF IInv, Lookups
  <2> QED BY <2>1, <2>2, <2>3 DEF Range
<1>8. \A p : p \in usable' <=> p \in usable /\ \A a \in Trial : p \notin BlockedBy[at[a]]
  BY <1>1, <1>7
<1>9. usable' \cap PrimitivesOf(type') =
        {p \in InMode(type', topMode') : \A a \in Accepted' : p \notin BlockedBy[at'[a]]}
  <2>1. usable \cap PrimitivesOf(type) =
          {p \in InMode(type, topMode) : \A a \in Accepted : p \notin BlockedBy[at[a]]}
    BY <1>2 DEF QInv, Usables
  <2>2. InMode(type, topMode) \subseteq PrimitivesOf(type)
    BY DEF InMode
  <2>3. ASSUME NEW p
        PROVE  p \in usable' \cap PrimitivesOf(type) <=>
                 /\ p \in InMode(type, topMode)
                 /\ \A a \in Accepted \cup Trial : p \notin BlockedBy[at[a]]
    BY <2>1, <2>2, <1>8
  <2> QED BY <2>2, <2>3, <1>1, <1>6
<1>10. Usables'
  BY <1>1, <1>3, <1>9, UsablesNext
<1> QED BY <1>5, <1>10 DEF QInv

LEMMA StepKeeps ==
  ASSUME IInv, QInv, [Next]_vars
  PROVE  IInv' /\ QInv'
<1>1. Queues
  BY DEF QInv
<1>2. CASE UNCHANGED vars
  <2>1. /\ UNCHANGED <<pc, stage, seen, seed, left, type, topMode, opened, mol, site, placed>>
        /\ UNCHANGED <<at, clb, valid, tree, router, queue, usable, search, intra, used>>
    BY <1>2 DEF vars, loop, cluster, attempt, result
  <2>2. IInv'
    <3>1. Resting' = Resting /\ NumClb' = NumClb /\ Open' = Open
      BY <2>1 DEF Resting, NumClb, Open
    <3>2. Trial' = Trial /\ InOpen' = InOpen /\ Accepted' = Accepted
      BY <2>1, <3>1 DEF Trial, InOpen, Accepted
    <3>3. \A n : Under(n, Accepted)' = Under(n, Accepted) /\ Under(n, InOpen)' = Under(n, InOpen)
      BY <2>1, <3>2 DEF Under
    <3>4. \A t : ClustersOf(t)' = ClustersOf(t)
      BY <2>1, <3>2 DEF ClustersOf
    <3>5. PrimitivesOf(type)' = PrimitivesOf(type)
      BY <2>1 DEF PrimitivesOf
    <3>6. Types' /\ Valids'
      BY <2>1, <3>2 DEF IInv, Types, Valids
    <3>7. Control'
      BY <2>1, <3>1, <3>2, <3>5 DEF IInv, Control
    <3>8. Lookups'
      BY <2>1, <3>1, <3>2, <3>5 DEF IInv, Lookups
    <3>9. Trees'
      BY <2>1, <3>2, <3>3 DEF IInv, Trees
    <3>10. Routers'
      BY <2>1, <3>2 DEF IInv, Routers, Placement
    <3>11. Books' /\ Seeds'
      BY <2>1, <3>1, <3>4 DEF IInv, Books, Seeds, Placement
    <3> QED BY <3>6, <3>7, <3>8, <3>9, <3>10, <3>11 DEF IInv
  <2>3. QInv'
    <3>1. Queues'
      BY <2>1, QueuesNext DEF QInv, Queues
    <3>2. Usables'
      <4>1. Accepted' = Accepted
        BY <2>1 DEF Accepted, InOpen, Trial, Resting, Open, NumClb
      <4>2. Usables
        BY DEF QInv
      <4> QED BY <2>1, <4>1, <4>2, UsablesNext DEF Usables
    <3> QED BY <3>1, <3>2 DEF QInv
  <2> QED BY <2>2, <2>3
<1>3. CASE NextSeed
  BY <1>3, NextSeedKeeps, QueuesStay
<1>4. CASE Finish \/ NoType
  BY <1>4, EndKeeps, QueuesStay
<1>5. CASE NextType
  BY <1>5, NextTypeKeeps, QueuesStart
<1>6. CASE NextMode
  BY <1>6, NextModeKeeps, QueuesStart
<1>7. CASE NoMode
  BY <1>7, NoModeKeeps, QueuesStay
<1>8. CASE FindSite
  BY <1>1, <1>8, FindSiteKeeps, QueuesFindSite
<1>9. CASE NoSite
  BY <1>9, NoSiteKeeps, QueuesLooked
<1>10. CASE PlaceAtom
  BY <1>10, PlaceAtomKeeps, QueuesStay
<1>11. CASE Reject
  BY <1>11, RejectKeeps, QueuesStay
<1>12. CASE Revert
  BY <1>12, RevertKeeps, QueuesStay
<1>13. CASE Accept
  BY <1>13, AcceptKeeps, QueuesAccept
<1>14. CASE LookAtConnected \/ LookAtFanout \/ LookAtTransitive
  BY <1>14, LookKeeps, QueuesLooked
<1>15. CASE ChooseCandidate \/ ChooseUnrelated \/ ChooseNone
  BY <1>15, ChooseKeeps, QueuesLooked
<1>16. CASE CloseCluster
  BY <1>16, CloseClusterKeeps, QueuesStay
<1>17. CASE UndoCluster
  BY <1>17, UndoClusterKeeps, QueuesStay
<1> QED BY <1>2, <1>3, <1>4, <1>5, <1>6, <1>7, <1>8, <1>9, <1>10, <1>11, <1>12, <1>13, <1>14,
           <1>15, <1>16, <1>17 DEF Next, PackerStep, Terminated

\* What holds after any number of steps: where the search stands, the look-ups,
\* the valid flags, the tree and the router agree with one another, and the
\* lists of primitives with them.
THEOREM PackerInvariant == Spec => [](IInv /\ QInv)
<1>1. Init => IInv /\ QInv
  BY InitKeeps
<1>2. IInv /\ QInv /\ [Next]_vars => (IInv /\ QInv)'
  BY StepKeeps
<1> QED BY <1>1, <1>2, PTL DEF Spec

-----------------------------------------------------------------------------
(* What follows.                                                           *)

\* Between two attempts nothing is left of what failed: the pbs, the router,
\* the look-ups and the valid flags are those of the molecules that are in, and
\* each finished cluster is routed for its placement.
THEOREM PackerLeavesNothingBehind == Spec => []NothingLeftBehind
<1>1. ASSUME IInv, Resting PROVE NothingLeftBehind
  <2>1. Types /\ Control /\ Lookups /\ Valids /\ Trees /\ Routers /\ Books
    BY <1>1 DEF IInv
  <2>2. Trial = {} /\ Accepted = InOpen
    BY <1>1 DEF Trial, Accepted
  <2>3. /\ InOpen \subseteq Atom
        /\ \A a \in InOpen : at[a] \in Primitive /\ at[a] \in Pb /\ type \in Type
                             /\ type \in Anc(at[a]) /\ TypeOf(at[a]) = type
    BY <1>1, AcceptedFacts
  <2>4. at \in [Atom -> Primitive \cup {None}] /\ \A a \in Atom : at[a] = None <=> clb[a] = 0
    BY <2>1 DEF Types, Holders, Lookups
  <2>5. \A a, b \in Atom : a # b /\ clb[a] # 0 => <<clb[a], at[a]>> # <<clb[b], at[b]>>
    BY <2>1 DEF Lookups
  <2>6. valid = {m \in Molecule : Atoms(m) \subseteq Unclustered}
    <3>1. \A m \in Molecule : Atoms(m) \subseteq Atom
      BY MoleculeAtoms
    <3>2. \A m \in Molecule :
            Atoms(m) \subseteq Unclustered <=> \A a \in Atoms(m) : clb[a] = 0 \/ a \in Trial
      BY <3>1, <2>2 DEF Unclustered
    <3> QED BY <3>2, <2>1 DEF Valids
  <2>7. /\ search.list # NotValid => search.list \subseteq valid
        /\ opened <=> InOpen # {}
        /\ router.added = InOpen
    BY <2>1, <2>2 DEF Valids, Lookups, Routers
  <2>8. /\ tree.named = {at[a] : a \in InOpen}
        /\ opened /\ stage = 2 => router.saved = Placement(InOpen)
    BY <1>1, <2>1, <2>2 DEF Trees, Routers, Resting
  <2>9. ASSUME opened, NEW n \in AllPbs
        PROVE  LET in == {a \in InOpen : n \in Range(Above[at[a]])}
               IN /\ tree.count[n] = Cardinality(in)
                  /\ tree.mode[n] # NoKids <=> in # {}
                  /\ in # {} => \/ router.mode[n] = tree.mode[n]
                                \/ n = type /\ router.mode[n] = 0
                  /\ \A a \in in : tree.mode[n] = ModeToward[n][at[a]]
    <3> DEFINE in == {a \in InOpen : n \in Range(Above[at[a]])}
    <3>1. in = Under(n, InOpen)
      BY DEF Under, Anc
    <3>2. \A a \in in : a \in InOpen /\ n \in Anc(at[a])
      BY DEF Anc
    <3> HIDE DEF in
    <3>3. tree.count[n] = Cardinality(in)
      BY <3>1, <2>1, <2>2 DEF Trees
    <3>4. \A a \in in : tree.mode[n] = ModeToward[n][at[a]] /\ ModeToward[n][at[a]] # NoKids
      <4> TAKE a \in in
      <4>1. tree.mode[n] = ModeToward[n][at[a]]
        BY <3>2, <2>1 DEF Trees
      <4>2. ModeToward[n][at[a]] # NoKids
        BY <3>2, <2>3, ModeTowardType
      <4> QED BY <4>1, <4>2
    <3>5. CASE n \in Pb
      <4>1. tree.mode[n] # NoKids <=> in # {}
        BY <3>1, <3>5, <2>1 DEF Trees
      <4>2. in # {} => router.mode[n] = tree.mode[n]
        BY <3>2, <3>5, <2>1 DEF Routers
      <4> QED BY <3>3, <3>4, <4>1, <4>2 DEF in
    <3>6. CASE n \in Type
      <4>1. \A a \in in : n = type
        BY <3>2, <3>6, <2>3, OneRoot
      <4>2. n = type => in # {}
        <5>1. PICK a \in InOpen : TRUE
          BY <2>7, <2>9
        <5>2. type \in Anc(at[a])
          BY <5>1, <2>3
        <5> QED BY <5>1, <5>2, <3>1 DEF Under
      <4>3. tree.mode[n] # NoKids <=> in # {}
        <5>1. n # type => tree.mode[n] = NoKids
          BY <3>6, <2>1 DEF Trees
        <5> QED BY <5>1, <4>1, <4>2, <3>4
      <4>4. in # {} => router.mode[n] \in {0, tree.mode[n]}
        BY <4>3, <3>6, <2>1 DEF Routers
      <4> QED BY <3>3, <3>4, <4>1, <4>3, <4>4 DEF in
    <3> QED BY <3>5, <3>6 DEF AllPbs
  <2>10. \A c \in 1..NumClb : intra[c] = Placement({a \in Atom : clb[a] = c})
    BY <2>1 DEF Books
  <2>11. \A t \in Type :
           used[t] = Cardinality({clb[a] : a \in {b \in Atom : /\ clb[b] # 0
                                                                /\ TypeOf(at[b]) = t}})
    <3>1. \A t : ClustersOf(t)
                   = {clb[a] : a \in {b \in Atom : clb[b] # 0 /\ TypeOf(at[b]) = t}}
      BY <2>2 DEF ClustersOf
    <3> QED BY <3>1, <2>1 DEF Books
  <2> QED BY <2>4, <2>5, <2>6, <2>7, <2>8, <2>9, <2>10, <2>11 DEF NothingLeftBehind
<1>2. IInv => NothingLeftBehind
  BY <1>1 DEF NothingLeftBehind
<1> QED BY <1>2, PackerInvariant, PTL

LEMMA AtMostOne ==
  ASSUME NEW S, \A x, y \in S : x = y
  PROVE  Cardinality(S) <= 1
<1>1. CASE S = {}
  BY <1>1, FS_EmptySet
<1>2. CASE S # {}
  <2>1. PICK x \in S : S = {x}
    BY <1>2
  <2> QED BY <2>1, FS_Singleton
<1> QED BY <1>1, <1>2

\* The lists of a type, as the property names them, are a partition of its
\* primitives.
ListsOf(q) == [i \in DOMAIN q.bucket \cup {0, -1, -2} |->
                 CASE i = 0 -> q.tried [] i = -1 -> q.flight
                   [] i = -2 -> q.invalid [] OTHER -> q.bucket[i]]

LEMMA ListsPartition ==
  ASSUME NEW t \in Type, NEW q, Sound(q, t)
  PROVE  /\ UNION Range(ListsOf(q)) = PrimitivesOf(t)
         /\ \A i, j \in DOMAIN ListsOf(q) : i # j => ListsOf(q)[i] \cap ListsOf(q)[j] = {}
<1> DEFINE n == Cardinality(KindsOf(t))
           lists == ListsOf(q)
<1>1. q \in QueueStates(t) /\ Sorted(q) /\ Listed(q, t) /\ n \in Nat
  BY KindsFinite DEF Sound
<1>2. DOMAIN q.bucket = 1..n
  BY <1>1 DEF QueueStates
<1> HIDE DEF n
<1>3. /\ DOMAIN lists = (1..n) \cup {0, -1, -2}
      /\ lists[0] = q.tried /\ lists[-1] = q.flight /\ lists[-2] = q.invalid
      /\ \A i \in 1..n : lists[i] = q.bucket[i]
  BY <1>1, <1>2 DEF ListsOf
<1> HIDE DEF lists
<1>4. \A p : p \in InBuckets(q) <=> \E i \in 1..n : p \in q.bucket[i]
  BY <1>2 DEF InBuckets, Range
<1>5. \A p : p \in UNION Range(lists) <=> \E i \in DOMAIN lists : p \in lists[i]
  BY DEF Range
<1>6. UNION Range(lists) = InBuckets(q) \cup q.tried \cup q.flight \cup q.invalid
  <2>1. \A p \in UNION Range(lists) : p \in InBuckets(q) \cup q.tried \cup q.flight \cup q.invalid
    BY <1>3, <1>4, <1>5
  <2>2. \A p \in InBuckets(q) : p \in UNION Range(lists)
    BY <1>3, <1>4, <1>5
  <2>3. 0 \in DOMAIN lists /\ -1 \in DOMAIN lists /\ -2 \in DOMAIN lists
    BY <1>3
  <2>4. \A p \in q.tried \cup q.flight \cup q.invalid : p \in UNION Range(lists)
    BY <2>3, <1>3, <1>5
  <2> QED BY <2>1, <2>2, <2>4
<1>7. ASSUME NEW i \in DOMAIN lists, NEW j \in DOMAIN lists, i # j, NEW p \in lists[i],
             p \in lists[j]
      PROVE  FALSE
  <2>1. CASE i \in 1..n /\ j \in 1..n
    BY <1>7, <2>1, <1>1, <1>2, <1>3 DEF Sorted
  <2>2. CASE i \in 1..n /\ j \notin 1..n
    <3>1. p \in InBuckets(q) /\ p \in q.tried \cup q.flight \cup q.invalid
      BY <1>7, <2>2, <1>3, <1>4
    <3> QED BY <3>1, <1>1 DEF Listed
  <2>3. CASE i \notin 1..n /\ j \in 1..n
    <3>1. p \in InBuckets(q) /\ p \in q.tried \cup q.flight \cup q.invalid
      BY <1>7, <2>3, <1>3, <1>4
    <3> QED BY <3>1, <1>1 DEF Listed
  <2>4. CASE i \notin 1..n /\ j \notin 1..n
    <3>1. i \in {0, -1, -2} /\ j \in {0, -1, -2}
      BY <2>4, <1>3
    <3> QED BY <3>1, <1>7, <1>1, <1>3 DEF Listed
  <2> QED BY <2>1, <2>2, <2>3, <2>4
<1>8. UNION Range(lists) = PrimitivesOf(t)
  BY <1>1, <1>6 DEF Listed
<1> QED BY <1>7, <1>8 DEF lists

\* A primitive is excluded by those that are taken when, and only when, the
\* modes of the pbs above it do not allow it.
LEMMA UsableIsReachable ==
  ASSUME IInv, QInv, Resting, opened
  PROVE  usable \cap PrimitivesOf(type) = {p \in PrimitivesOf(type) : Reachable(p)}
<1>1. Control /\ Lookups /\ Trees /\ Usables
  BY DEF IInv, QInv
<1>2. pc \in Working /\ type \in Type /\ Accepted = InOpen
  BY <1>1 DEF Control, Filling, Working, Accepted, Trial
<1>3. usable \cap PrimitivesOf(type) =
        {p \in InMode(type, topMode) : \A a \in InOpen : p \notin BlockedBy[at[a]]}
  BY <1>1, <1>2 DEF Usables
<1>4. /\ InOpen # {}
      /\ \A a \in InOpen : at[a] \in Primitive /\ at[a] \in Pb /\ type \in Anc(at[a])
                           /\ TypeOf(at[a]) = type
  BY <1>1, <1>2, AcceptedFacts DEF Lookups
<1>5. \A a \in InOpen : \A n \in Anc(at[a]) :
        tree.mode[n] = ModeToward[n][at[a]] /\ tree.mode[n] # NoKids
  <2> TAKE a \in InOpen
  <2> TAKE n \in Anc(at[a])
  <2>1. tree.mode[n] = ModeToward[n][at[a]]
    BY <1>1 DEF Trees
  <2>2. ModeToward[n][at[a]] # NoKids
    BY <1>4, ModeTowardType
  <2> QED BY <2>1, <2>2
<1>6. ASSUME NEW p \in PrimitivesOf(type)
      PROVE  (\A a \in InOpen : p \notin BlockedBy[at[a]])
               <=> /\ \A a \in InOpen : at[a] # p
                   /\ \A n \in Anc(p) : tree.mode[n] \in {NoKids, ModeToward[n][p]}
  <2>1. p \in Pb /\ type \in Anc(p) /\ p \in AllPbs
    BY <1>2, PrimitivesOfType DEF AllPbs
  <2>2. \A a \in InOpen :
          p \in BlockedBy[at[a]]
            <=> \/ p = at[a]
                \/ \E n \in Anc(at[a]) \cap Anc(p) : ModeToward[n][p] # ModeToward[n][at[a]]
    BY <1>4 DEF BlockedBy, Anc
  <2>3. ASSUME NEW n \in Anc(p), tree.mode[n] # NoKids
        PROVE  \E a \in InOpen : n \in Anc(at[a])
    <3>1. n \in AllPbs
      BY <2>1, PathTypes
    <3>2. CASE n \in Pb
      BY <2>3, <3>2, <1>1 DEF Trees, Under
    <3>3. CASE n \in Type
      <4>1. n = type
        BY <2>1, <3>3, <1>2, OneRoot
      <4> QED BY <4>1, <1>4
    <3> QED BY <3>1, <3>2, <3>3 DEF AllPbs
  <2>4. ASSUME \A a \in InOpen : p \notin BlockedBy[at[a]]
        PROVE  /\ \A a \in InOpen : at[a] # p
               /\ \A n \in Anc(p) : tree.mode[n] \in {NoKids, ModeToward[n][p]}
    <3>1. \A a \in InOpen : at[a] # p
      BY <2>2, <2>4
    <3>2. ASSUME NEW n \in Anc(p), tree.mode[n] # NoKids PROVE tree.mode[n] = ModeToward[n][p]
      <4>1. PICK a \in InOpen : n \in Anc(at[a])
        BY <2>3, <3>2
      <4> QED BY <4>1, <2>2, <2>4, <1>5
    <3> QED BY <3>1, <3>2
  <2>5. ASSUME \A a \in InOpen : at[a] # p,
               \A n \in Anc(p) : tree.mode[n] \in {NoKids, ModeToward[n][p]},
               NEW a \in InOpen
        PROVE  p \notin BlockedBy[at[a]]
    BY <2>2, <2>5, <1>5
  <2> QED BY <2>4, <2>5
<1>7. \A p \in PrimitivesOf(type) :
        Reachable(p) <=> /\ p \in InMode(type, topMode)
                         /\ \A a \in InOpen : p \notin BlockedBy[at[a]]
  BY <1>6 DEF Reachable, InMode, Anc
<1>8. InMode(type, topMode) \subseteq PrimitivesOf(type)
  BY DEF InMode
<1> QED BY <1>3, <1>7, <1>8

\* Each primitive is in exactly one list of its type, and those that are usable
\* are those that the modes of the pbs still allow.
THEOREM PackerTracksPrimitives == Spec => []PrimitivesTracked
<1>1. ASSUME IInv, QInv PROVE PrimitivesTracked
  <2>1. ASSUME NEW t \in Type
        PROVE  /\ Sound(queue[t], t) /\ queue[t].invalid \cap usable = {}
               /\ Sorted(queue[t]) /\ Cardinality(queue[t].flight) <= 1
    <3>1. Sound(queue[t], t) /\ queue[t].invalid \cap usable = {}
      BY <1>1 DEF QInv, Queues
    <3>2. Cardinality(queue[t].flight) <= 1
      <4>1. \A x, y \in queue[t].flight : x = y
        BY <3>1 DEF Sound, Listed
      <4> QED BY <4>1, AtMostOne
    <3> QED BY <3>1, <3>2 DEF Sound
  <2>2. Resting /\ opened =>
          usable \cap PrimitivesOf(type) = {p \in PrimitivesOf(type) : Reachable(p)}
    BY <1>1, UsableIsReachable
  <2>3. ASSUME NEW t \in Type
        PROVE  /\ UNION Range(ListsOf(queue[t])) = PrimitivesOf(t)
               /\ \A i, j \in DOMAIN ListsOf(queue[t]) :
                    i # j => ListsOf(queue[t])[i] \cap ListsOf(queue[t])[j] = {}
    BY <2>1, ListsPartition
  <2> QED BY <2>1, <2>2, <2>3 DEF PrimitivesTracked, Sorted, ListsOf
<1> QED BY <1>1, PackerInvariant, PTL

-----------------------------------------------------------------------------
(* The packer keeps the promise of Clustering.                             *)

\* The atoms on trial are in no cluster yet.
LEMMA PackedIs ==
  ASSUME IInv
  PROVE  /\ \A a \in Atom : Packed(a) = IF a \in Trial THEN 0 ELSE clb[a]
         /\ Promise!InOpen = Accepted
<1>1. ASSUME NEW a \in Atom PROVE Packed(a) = IF a \in Trial THEN 0 ELSE clb[a]
  <2>1. CASE Resting
    BY <2>1 DEF Packed, Trial
  <2>2. CASE ~Resting /\ a \in Atoms(mol) /\ a \notin Trial
    <3>1. /\ mol \in Molecule /\ placed \in Nat
          /\ Trial = {AtomsOf[mol][i] : i \in 1..placed}
      BY <2>2, InMolecule
    <3>2. PICK i \in 1..Len(AtomsOf[mol]) : a = AtomsOf[mol][i]
      BY <2>2, <3>1, MoleculeAtoms
    <3>3. ~(i <= placed)
      BY <2>2, <3>1, <3>2
    <3>4. clb[a] = 0
      BY <2>2, <3>2, <3>3 DEF IInv, Lookups
    <3> QED BY <2>2, <3>4 DEF Packed
  <2>3. CASE ~Resting /\ a \in Trial
    BY <2>3, InMolecule DEF Packed
  <2>4. CASE ~Resting /\ a \notin Atoms(mol) /\ a \notin Trial
    BY <2>4 DEF Packed
  <2> QED BY <2>1, <2>2, <2>3, <2>4
<1>2. Promise!InOpen = {a \in Atom : Packed(a) = Open}
  BY DEF Promise!InOpen, Open
<1>3. Promise!InOpen = Accepted
  <2>1. Open # 0 /\ InOpen \subseteq Atom
    BY AcceptedFacts
  <2> QED BY <1>1, <1>2, <2>1 DEF Accepted, InOpen
<1> QED BY <1>1, <1>3

\* The variables of Clustering that the packer stands for.
Outcome == IF pc \in {"done", "failed"} THEN pc ELSE "packing"
Undone == stage = 2 /\ pc \notin {"seed", "done"}

LEMMA Stutters ==
  ASSUME \A a \in Atom : Packed(a)' = Packed(a),
         UNCHANGED <<NumClb, Undone, Outcome>>
  PROVE  UNCHANGED Promise!vars
<1>1. [a \in Atom |-> Packed(a)]' = [a \in Atom |-> Packed(a)]
  OBVIOUS
<1> QED BY <1>1 DEF Promise!vars, Undone, Outcome

LEMMA StepKeepsPromise ==
  ASSUME IInv, IInv', QInv, [Next]_vars
  PROVE  [Promise!Next]_(Promise!vars)
<1>1. /\ Control /\ Lookups /\ Valids /\ Seeds
  BY DEF IInv
<1>2. \A a \in Atom : Packed(a) = IF a \in Trial THEN 0 ELSE clb[a]
  BY PackedIs
<1>3. \A a \in Atom : Packed(a)' = IF ~Resting' /\ a \in Atoms(mol') THEN 0 ELSE clb'[a]
  BY DEF Packed, Atoms
<1>4. Resting => Trial = {}
  BY DEF Trial
<1>5. Queues
  BY DEF QInv
<1> USE DEF Undone, Outcome
<1>6. CASE UNCHANGED vars \/ Terminated
  <2>1. UNCHANGED <<pc, stage, mol, clb, intra>>
    BY <1>6 DEF Terminated, vars, loop, attempt, result
  <2>2. \A a \in Atom : Packed(a)' = Packed(a)
    BY <2>1 DEF Packed, Resting
  <2> QED BY <2>1, <2>2, Stutters DEF NumClb
<1>7. CASE NextSeed \/ NextType \/ NextMode \/ NoMode \/ NoSite
             \/ LookAtConnected \/ LookAtFanout \/ LookAtTransitive
             \/ ChooseCandidate \/ ChooseUnrelated \/ ChooseNone
  <2>1. Resting /\ Resting'
    BY <1>7 DEF NextSeed, NextType, NextMode, NoMode, NoSite, LookAtConnected, LookAtFanout,
                LookAtTransitive, ChooseCandidate, ChooseUnrelated, ChooseNone, TryNext, Resting
  <2>2. clb' = clb
    <3>1. CASE NoMode
      BY <3>1, NoModeKeeps
    <3> QED BY <3>1, <1>7 DEF NextSeed, NextType, NextMode, NoSite, LookAtConnected,
                LookAtFanout, LookAtTransitive, ChooseCandidate, ChooseUnrelated, ChooseNone, TryNext
  <2>3. intra' = intra /\ pc \notin {"done", "failed"} /\ pc' \notin {"seed", "done", "failed"}
    BY <1>7 DEF NextSeed, NextType, NextMode, NoMode, NoSite, LookAtConnected, LookAtFanout,
                LookAtTransitive, ChooseCandidate, ChooseUnrelated, ChooseNone, TryNext, result
  <2>5. \/ pc = "seed" /\ stage' = 1
        \/ pc # "seed" /\ stage' = stage
    BY <1>7 DEF NextSeed, NextType, NextMode, NoMode, NoSite, LookAtConnected, LookAtFanout,
                LookAtTransitive, ChooseCandidate, ChooseUnrelated, ChooseNone, TryNext, loop
  <2>6. Undone' = Undone /\ Outcome' = Outcome
    BY <2>3, <2>5
  <2>4. \A a \in Atom : Packed(a)' = Packed(a)
    BY <2>1, <2>2, <1>2, <1>3, <1>4
  <2> QED BY <2>3, <2>4, <2>6, Stutters DEF NumClb
<1>8. CASE FindSite
  <2>1. /\ Resting /\ ~Resting' /\ UNCHANGED <<mol, clb, intra, Undone, Outcome>>
        /\ mol \in valid
    BY <1>1, <1>8 DEF FindSite, Resting, loop, result, Control, FirstTry
  <2>2. \A a \in Atoms(mol) : clb[a] = 0
    BY <2>1, <1>1, <1>4 DEF Valids
  <2>3. \A a \in Atom : Packed(a)' = Packed(a)
    BY <2>1, <2>2, <1>2, <1>3, <1>4
  <2> QED BY <2>1, <2>3, Stutters DEF NumClb
<1>9. CASE PlaceAtom
  <2>1. /\ ~Resting /\ ~Resting' /\ UNCHANGED <<mol, intra, Undone, Outcome>>
        /\ clb' = [clb EXCEPT ![AtomsOf[mol][placed + 1]] = Open]
    BY <1>9 DEF PlaceAtom, Resting, loop, result
  <2>2. AtomsOf[mol][placed + 1] \in Atoms(mol)
    <3>1. mol \in Molecule /\ placed + 1 \in 1..Len(AtomsOf[mol])
      BY <1>1, <1>9, <2>1, InMolecule, MoleculeAtoms DEF Control, PlaceAtom
    <3> QED BY <3>1, MoleculeAtoms
  <2>3. clb \in [Atom -> Nat]
    BY DEF IInv, Types
  <2>4. \A a \in Atom : a \notin Atoms(mol) => clb'[a] = clb[a]
    BY <2>1, <2>2, <2>3
  <2>5. \A a \in Atom : Packed(a)' = Packed(a)
    BY <2>1, <2>4, <1>3 DEF Packed
  <2> QED BY <2>1, <2>5, Stutters DEF NumClb
<1>10. CASE Reject
  <2>1. ~Resting /\ ~Resting' /\ UNCHANGED <<mol, clb, intra, Undone, Outcome>>
    BY <1>10 DEF Reject, Resting, loop, attempt, result
  <2>2. \A a \in Atom : Packed(a)' = Packed(a)
    BY <2>1, <1>3 DEF Packed
  <2> QED BY <2>1, <2>2, Stutters DEF NumClb
<1>11. CASE Revert
  <2>1. Resting' /\ UNCHANGED <<intra, Undone, Outcome>>
    BY <1>11 DEF Revert, Resting, loop, result
  <2>2. \A a \in Atom : clb'[a] = IF a \in Trial THEN 0 ELSE clb[a]
    BY <1>11, RevertKeeps
  <2>3. \A a \in Atom : Packed(a)' = Packed(a)
    BY <2>1, <2>2, <1>2, <1>3
  <2> QED BY <2>1, <2>3, Stutters DEF NumClb
<1>12. CASE Accept
  <2>1. /\ ~Resting /\ Resting' /\ pc = "check" /\ pc' = "pick"
        /\ UNCHANGED <<mol, clb, intra, Undone, Outcome>>
    BY <1>12 DEF Accept, Resting, loop, attempt, result
  <2>2. /\ mol \in Molecule /\ Trial = Atoms(mol) /\ type \in AllPbs
        /\ \A a \in Atoms(mol) : a \in Atom /\ clb[a] = Open
    <3>1. type \in AllPbs
      BY <1>1, <2>1 DEF Control, Working, AllPbs
    <3>2. Trial = Atoms(mol) /\ Trial \subseteq InOpen /\ mol \in Molecule
      BY <2>1, <3>1, CountTrial, AcceptedFacts, InMolecule
    <3> QED BY <3>1, <3>2 DEF InOpen
  <2>3. Promise!Atoms(mol) = Atoms(mol)
    BY DEF Promise!Atoms, Atoms, Range
  <2>4. Promise!Pack(mol)
    <3>1. \A a \in Atoms(mol) : Packed(a) = 0
      BY <2>2, <1>2
    <3>2. \A a \in Atom : Packed(a)' = IF a \in Atoms(mol) THEN NumClb + 1 ELSE Packed(a)
      BY <2>1, <2>2, <1>2, <1>3 DEF Open
    <3>3. [a \in Atom |-> Packed(a)]'
             = [a \in Atom |-> IF a \in Atoms(mol) THEN NumClb + 1 ELSE Packed(a)]
      BY <3>2
    <3> QED BY <2>1, <2>2, <2>3, <3>1, <3>3 DEF Promise!Pack, NumClb
  <2> QED BY <2>1, <2>2, <2>4 DEF Promise!Next
<1>13. CASE UndoCluster
  <2>1. /\ pc = "end" /\ pc' = "type" /\ stage = 1 /\ stage' = 2 /\ UNCHANGED intra
        /\ Resting /\ Resting' /\ opened
    BY <1>1, <1>13 DEF UndoCluster, Resting, Control, Working, FirstTry
  <2>2. \A a \in Atom : clb'[a] = IF a \in InOpen THEN 0 ELSE clb[a]
    BY <1>13, UndoClusterKeeps
  <2>3. Promise!InOpen = InOpen /\ InOpen # {}
    BY <1>1, <1>4, <2>1, PackedIs DEF Lookups, Accepted
  <2>4. Promise!Undo
    <3>1. \A a \in Atom : Packed(a)' = IF a \in InOpen THEN 0 ELSE Packed(a)
      BY <2>1, <2>2, <1>2, <1>3, <1>4
    <3>2. [a \in Atom |-> Packed(a)]'
            = [a \in Atom |-> IF a \in Promise!InOpen THEN 0 ELSE [b \in Atom |-> Packed(b)][a]]
      BY <3>1, <2>3
    <3> QED BY <2>1, <2>3, <3>2 DEF Promise!Undo, NumClb
  <2> QED BY <2>1, <2>4 DEF Promise!Next
<1>14. CASE CloseCluster
  <2>1. /\ pc = "end" /\ pc' = "seed" /\ UNCHANGED <<stage, clb>>
        /\ Resting /\ Resting' /\ opened /\ NumClb' = NumClb + 1
    <3>1. intra \in Seq(SUBSET (Atom \X Holders))
      BY DEF IInv, Types
    <3> QED BY <1>1, <1>14, <3>1, AppendProperties
            DEF CloseCluster, Resting, Control, Working, FirstTry, loop, NumClb
  <2>2. Promise!InOpen # {}
    BY <1>1, <2>1, PackedIs DEF Lookups
  <2>3. \A a \in Atom : Packed(a)' = Packed(a)
    BY <2>1, <1>2, <1>3, <1>4
  <2>4. Promise!Close
    <3>1. [a \in Atom |-> Packed(a)]' = [a \in Atom |-> Packed(a)]
      BY <2>3
    <3> QED BY <2>1, <2>2, <3>1 DEF Promise!Close
  <2> QED BY <2>1, <2>4 DEF Promise!Next
<1>15. CASE Finish
  <2>1. /\ pc = "seed" /\ pc' = "done" /\ UNCHANGED <<stage, mol, clb, intra>>
        /\ Resting /\ Resting' /\ ~opened /\ Unclustered \subseteq seen
    BY <1>1, <1>15 DEF Finish, Resting, Control, Filling, Working, loop, attempt, result
  <2>2. Promise!InOpen = {}
    BY <1>1, <2>1, PackedIs DEF Lookups
  <2>3. \A a \in Atom : Packed(a)' = Packed(a)
    BY <2>1, <1>2, <1>3, <1>4
  <2>4. \A a \in Atom : Packed(a) # 0
    <3>1. \A a \in seen : clb[a] # 0
      BY <1>1, <2>1 DEF Seeds
    <3> QED BY <3>1, <2>1, <1>2, <1>4 DEF Unclustered
  <2>5. Promise!Finish
    <3>1. [a \in Atom |-> Packed(a)]' = [a \in Atom |-> Packed(a)]
      BY <2>3
    <3> QED BY <2>1, <2>2, <2>4, <3>1 DEF Promise!Finish, NumClb
  <2> QED BY <2>1, <2>5 DEF Promise!Next
<1>16. CASE NoType
  <2>1. /\ pc = "type" /\ pc' = "failed" /\ UNCHANGED <<stage, mol, clb, intra>>
        /\ Resting /\ Resting' /\ ~opened
    BY <1>1, <1>16 DEF NoType, Resting, Control, Filling, Working, loop, attempt, result
  <2>2. Promise!InOpen = {}
    BY <1>1, <2>1, PackedIs DEF Lookups
  <2>3. \A a \in Atom : Packed(a)' = Packed(a)
    BY <2>1, <1>2, <1>3, <1>4
  <2>4. Promise!GiveUp
    <3>1. [a \in Atom |-> Packed(a)]' = [a \in Atom |-> Packed(a)]
      BY <2>3
    <3> QED BY <2>1, <2>2, <3>1 DEF Promise!GiveUp, NumClb
  <2> QED BY <2>1, <2>4 DEF Promise!Next
<1> QED BY <1>6, <1>7, <1>8, <1>9, <1>10, <1>11, <1>12, <1>13, <1>14, <1>15, <1>16
        DEF Next, PackerStep

\* Packing fills clusters with whole molecules, never touches a finished one,
\* empties one at most once, and is done only when each atom is in a cluster:
\* the safety part of PacksEveryAtom.  (That it ends is checked by TLC only.)
THEOREM PackerKeepsPromise == Spec => Promise!Init /\ [][Promise!Next]_(Promise!vars)
<1>1. Init => Promise!Init
  <2> SUFFICES ASSUME Init PROVE Promise!Init
    OBVIOUS
  <2>1. pc = "seed" /\ intra = <<>> /\ clb = [a \in Atom |-> 0] /\ Resting
    BY DEF Init, Resting
  <2>2. [a \in Atom |-> Packed(a)] = [a \in Atom |-> 0]
    BY <2>1 DEF Packed
  <2>3. NumClb = 0
    BY <2>1, EmptySeq DEF NumClb
  <2> QED BY <2>1, <2>2, <2>3 DEF Promise!Init
<1>2. IInv /\ IInv' /\ QInv /\ [Next]_vars => [Promise!Next]_(Promise!vars)
  BY StepKeepsPromise
<1> QED BY <1>1, <1>2, PackerInvariant, PTL DEF Spec
=============================================================================
