-------------------------- MODULE AtomNetlistProofs --------------------------
(***************************************************************************)
(* Proofs about AtomNetlist: what each operation of the database does to a *)
(* netlist that is well formed, and that it stays so.                      *)
(***************************************************************************)
EXTENDS AtomNetlist, Induction, FiniteSetTheorems, SequenceTheorems, TLAPS

-----------------------------------------------------------------------------
(* Positions: rank, its inverse, and the sequences built from them.        *)

\* A set of positions of a table of length n is finite.
LEMMA PositionsFinite ==
  ASSUME NEW n \in Nat, NEW K \in SUBSET (1..n)
  PROVE  IsFiniteSet(K) /\ Cardinality(K) \in 0..n
<1>1. IsFiniteSet(1..n) /\ Cardinality(1..n) = n
  BY FS_Interval
<1>2. IsFiniteSet(K) /\ Cardinality(K) <= n
  BY <1>1, FS_Subset
<1> QED BY <1>2, FS_CardinalityType

\* The rank counts the members up to a position: it grows along the set.
LEMMA RankGrows ==
  ASSUME NEW n \in Nat, NEW K \in SUBSET (1..n), NEW i \in K
  PROVE  /\ Rank(K, i) \in 1..Cardinality(K)
         /\ \A j \in K : i < j => Rank(K, i) < Rank(K, j)
<1> DEFINE R(k) == {j \in K : j =< k}
<1>1. \A k \in K : IsFiniteSet(R(k)) /\ Cardinality(R(k)) \in Nat
  <2> TAKE k \in K
  <2>1. R(k) \in SUBSET (1..n) OBVIOUS
  <2> QED BY <2>1, PositionsFinite
<1>2. IsFiniteSet(K) /\ Cardinality(K) \in Nat
  BY PositionsFinite
<1>3. Cardinality(R(i)) <= Cardinality(K)
  <2>1. R(i) \in SUBSET K OBVIOUS
  <2> HIDE DEF R
  <2> QED BY <2>1, <1>2, FS_Subset
<1>4. Cardinality(R(i)) # 0
  <2>1. i \in R(i) OBVIOUS
  <2> HIDE DEF R
  <2> QED BY <2>1, <1>1, FS_EmptySet
<1>5. ASSUME NEW j \in K, i < j PROVE Cardinality(R(i)) < Cardinality(R(j))
  <2>1. R(i) \in SUBSET R(j) /\ j \in R(j) /\ j \notin R(i)
    <3>1. i \in Nat /\ j \in Nat /\ \A k \in K : k \in Nat /\ (k =< i => k =< j)
      BY <1>5
    <3>2. R(i) \subseteq R(j)
      BY <3>1
    <3> QED BY <3>1, <3>2, <1>5
  <2> HIDE DEF R
  <2>2. R(i) # R(j) BY <2>1
  <2>3. Cardinality(R(i)) <= Cardinality(R(j)) /\ (Cardinality(R(i)) = Cardinality(R(j)) => R(i) = R(j))
    BY <2>1, <1>1, FS_Subset
  <2> QED BY <2>2, <2>3, <1>1
<1>6. \A k : Rank(K, k) = Cardinality(R(k))
  BY DEF Rank
<1> HIDE DEF R
<1> QED BY <1>1, <1>2, <1>3, <1>4, <1>5, <1>6

\* Every number up to the size is the rank of exactly one member, Nth.
LEMMA NthOfRank ==
  ASSUME NEW n \in Nat, NEW K \in SUBSET (1..n)
  PROVE  /\ Cardinality(K) \in 0..n
         /\ \A k \in 1..Cardinality(K) : Nth(K, k) \in K /\ Rank(K, Nth(K, k)) = k
         /\ \A i \in K : Rank(K, i) \in 1..Cardinality(K) /\ Nth(K, Rank(K, i)) = i
         /\ \A i, j \in K : i < j <=> Rank(K, i) < Rank(K, j)
<1>1. IsFiniteSet(K) /\ Cardinality(K) \in 0..n
  BY PositionsFinite
<1>2. \A i \in K : Rank(K, i) \in 1..Cardinality(K)
  BY RankGrows
<1>3. \A i, j \in K : i < j => Rank(K, i) < Rank(K, j)
  BY RankGrows
<1>4. \A i, j \in K : Rank(K, i) = Rank(K, j) => i = j
  BY <1>2, <1>3
<1> DEFINE f == [i \in K |-> Rank(K, i)]
<1>5. f \in Injection(K, 1..Cardinality(K))
  BY <1>2, <1>4 DEF Injection, IsInjective
<1>6. f \in Surjection(K, 1..Cardinality(K))
  <2>1. IsFiniteSet(1..Cardinality(K)) /\ Cardinality(1..Cardinality(K)) = Cardinality(K)
    BY <1>1, FS_Interval
  <2> HIDE DEF f
  <2> QED BY <2>1, <1>5, FS_Injection
<1>7. \A k \in 1..Cardinality(K) : \E i \in K : Rank(K, i) = k
  BY <1>6 DEF Surjection
<1>8. \A k \in 1..Cardinality(K) : Nth(K, k) \in K /\ Rank(K, Nth(K, k)) = k
  BY <1>7 DEF Nth
<1>9. \A i \in K : Nth(K, Rank(K, i)) = i
  BY <1>8, <1>2, <1>4
<1>10. \A i, j \in K : Rank(K, i) < Rank(K, j) => i < j
  <2> TAKE i, j \in K
  <2>1. i \in Nat /\ j \in Nat /\ Rank(K, i) \in Nat /\ Rank(K, j) \in Nat
    BY <1>2, <1>1
  <2>2. i = j => Rank(K, i) = Rank(K, j) OBVIOUS
  <2> QED BY <2>1, <2>2, <1>3
<1> QED BY <1>1, <1>2, <1>3, <1>8, <1>9, <1>10

\* The part of a sequence taken from its first place to its last is all of it.
LEMMA WholeSeq ==
  ASSUME NEW S, NEW n \in Nat, NEW f \in [1..n -> S]
  PROVE  /\ SubSeq(f, 1, n) = f /\ f \in Seq(S) /\ Len(f) = n
<1>1. f \in Seq(S)
  BY SeqDef
<1>2. Len(f) = n
  <2>1. DOMAIN f = 1..Len(f) /\ Len(f) \in Nat /\ DOMAIN f = 1..n
    BY <1>1, LenProperties
  <2> QED BY <2>1
<1> QED BY <1>1, <1>2, SubSeqFull

\* What Keep leaves of a sequence.
LEMMA KeepFacts ==
  ASSUME NEW S, NEW s \in Seq(S), NEW K \in SUBSET DOMAIN s
  PROVE  /\ Keep(s, K) \in Seq(S)
         /\ Len(Keep(s, K)) = Cardinality(K) /\ Cardinality(K) \in 0..Len(s)
         /\ DOMAIN Keep(s, K) = 1..Cardinality(K)
         /\ \A k \in 1..Cardinality(K) : Keep(s, K)[k] = s[Nth(K, k)]
<1>1. Len(s) \in Nat /\ K \in SUBSET (1..Len(s))
  BY LenProperties
<1>2. Cardinality(K) \in 0..Len(s) /\ \A k \in 1..Cardinality(K) : Nth(K, k) \in K
  BY <1>1, NthOfRank
<1> DEFINE f == [k \in 1..Cardinality(K) |-> s[Nth(K, k)]]
<1>3. f \in [1..Cardinality(K) -> S]
  BY <1>1, <1>2, ElementOfSeq
<1>4. SubSeq(f, 1, Cardinality(K)) = f /\ f \in Seq(S) /\ Len(f) = Cardinality(K)
  <2> HIDE DEF f
  <2> QED BY <1>2, <1>3, WholeSeq
<1>5. Keep(s, K) = f
  BY <1>4 DEF Keep
<1> QED BY <1>2, <1>4, <1>5

\* Where the entries Keep leaves come from and go to.
LEMMA KeepPlaces ==
  ASSUME NEW S, NEW s \in Seq(S), NEW K \in SUBSET DOMAIN s
  PROVE  /\ \A k \in DOMAIN Keep(s, K) : Nth(K, k) \in K /\ Keep(s, K)[k] = s[Nth(K, k)]
         /\ \A i \in K : Rank(K, i) \in DOMAIN Keep(s, K) /\ Keep(s, K)[Rank(K, i)] = s[i]
         /\ \A k, l \in DOMAIN Keep(s, K) : k < l => Nth(K, k) < Nth(K, l)
<1>1. Len(s) \in Nat /\ K \in SUBSET (1..Len(s))
  BY LenProperties
<1>2. /\ Cardinality(K) \in 0..Len(s)
      /\ \A k \in 1..Cardinality(K) : Nth(K, k) \in K /\ Rank(K, Nth(K, k)) = k
      /\ \A i \in K : Rank(K, i) \in 1..Cardinality(K) /\ Nth(K, Rank(K, i)) = i
      /\ \A i, j \in K : i < j <=> Rank(K, i) < Rank(K, j)
  BY <1>1, NthOfRank
<1>3. /\ DOMAIN Keep(s, K) = 1..Cardinality(K)
      /\ \A k \in 1..Cardinality(K) : Keep(s, K)[k] = s[Nth(K, k)]
  BY KeepFacts
<1> QED BY <1>2, <1>3

\* Two places of a net's vector never hold the same pin.
Single(s) == \A i, j \in DOMAIN s : s[i] = s[j] /\ s[i] # 0 => i = j

\* The sequence without the members of P: the others stay, each once.
LEMMA WithoutFacts ==
  ASSUME NEW s \in Seq(Nat), NEW P
  PROVE  /\ Without(s, P) \in Seq(Nat)
         /\ \A k \in DOMAIN Without(s, P) : \E i \in DOMAIN s :
               Without(s, P)[k] = s[i] /\ s[i] \notin P
         /\ \A i \in DOMAIN s : s[i] \notin P =>
               \E k \in DOMAIN Without(s, P) : Without(s, P)[k] = s[i]
         /\ Single(s) => Single(Without(s, P))
<1> DEFINE K == {i \in DOMAIN s : s[i] \notin P}
           t == Without(s, P)
<1>1. K \in SUBSET DOMAIN s /\ \A i \in K : i \in DOMAIN s /\ s[i] \notin P
  OBVIOUS
<1>a. \A i \in DOMAIN s : s[i] \notin P => i \in K
  OBVIOUS
<1>2. t = Keep(s, K)
  BY DEF Without
<1> HIDE DEF K, t
<1>3. t \in Seq(Nat) /\ DOMAIN t = 1..Cardinality(K) /\ Cardinality(K) \in Nat
  <2>1. Len(s) \in Nat
    BY LenProperties
  <2> QED BY <1>1, <1>2, <2>1, KeepFacts
<1>4. /\ \A k \in DOMAIN t : Nth(K, k) \in K /\ t[k] = s[Nth(K, k)]
      /\ \A i \in K : Rank(K, i) \in DOMAIN t /\ t[Rank(K, i)] = s[i]
      /\ \A k, l \in DOMAIN t : k < l => Nth(K, k) < Nth(K, l)
  BY <1>1, <1>2, KeepPlaces
<1>5. \A k \in DOMAIN t : \E i \in DOMAIN s : t[k] = s[i] /\ s[i] \notin P
  BY <1>4, <1>1
<1>6. \A i \in DOMAIN s : s[i] \notin P => \E k \in DOMAIN t : t[k] = s[i]
  BY <1>4, <1>a
<1>7. ASSUME Single(s), NEW k \in DOMAIN t, NEW l \in DOMAIN t, t[k] = t[l], t[k] # 0
      PROVE  k = l
  <2>1. Nth(K, k) \in DOMAIN s /\ Nth(K, l) \in DOMAIN s
    BY <1>4, <1>1
  <2>2. Nth(K, k) = Nth(K, l)
    BY <1>7, <2>1, <1>4 DEF Single
  <2>3. Nth(K, k) \in Nat
    BY <2>1, LenProperties
  <2>4. k \in Nat /\ l \in Nat
    BY <1>3
  <2>5. ~(k < l) /\ ~(l < k)
    BY <1>4, <2>2, <2>3
  <2> QED BY <2>4, <2>5
<1>8. Single(s) => Single(t)
  BY <1>7 DEF Single
<1> QED BY <1>3, <1>5, <1>6, <1>8 DEF t

\* t is s without the sinks of P, the driver's place empty if it was of P.
Shortened(s, t, P) ==
  /\ t \in Seq(Nat) /\ Len(t) >= 1
  /\ t[1] = IF s[1] \in P THEN 0 ELSE s[1]
  /\ \A i \in DOMAIN t : i > 1 =>
        \E j \in DOMAIN s : j > 1 /\ s[j] = t[i] /\ s[j] \notin P
  /\ \A j \in DOMAIN s : j > 1 /\ s[j] \notin P =>
        \E i \in DOMAIN t : i > 1 /\ t[i] = s[j]
  /\ Single(s) => Single(t)

\* Dropping pins from a net's vector shortens it by them.
LEMMA DropShortens ==
  ASSUME NEW s \in Seq(Nat), Len(s) >= 1, NEW P
  PROVE  Shortened(s, DropFromNet(s, P), P)
<1> DEFINE u == Tail(s)
           w == Without(u, P)
           h == IF s[1] \in P THEN 0 ELSE s[1]
           t == DropFromNet(s, P)
<1>1. s # <<>> /\ Len(s) \in Nat /\ DOMAIN s = 1..Len(s)
  BY EmptySeq, LenProperties
<1>2. u \in Seq(Nat) /\ Len(u) = Len(s) - 1 /\ \A i \in 1..Len(u) : u[i] = s[i + 1]
  BY <1>1, HeadTailProperties
<1>3. DOMAIN u = 1..Len(s) - 1
  BY <1>2, LenProperties
<1>b. \A k \in DOMAIN u : k \in Nat /\ k + 1 \in DOMAIN s /\ k + 1 > 1 /\ s[k + 1] = u[k]
  <2> TAKE k \in DOMAIN u
  <2>1. k \in 1..Len(u) /\ k \in Nat /\ k + 1 \in 1..Len(s) /\ k + 1 > 1
    BY <1>1, <1>2, <1>3
  <2> QED BY <2>1, <1>1, <1>2
<1>c. \A j \in DOMAIN s : j > 1 => j - 1 \in DOMAIN u /\ u[j - 1] = s[j]
  <2> TAKE j \in DOMAIN s
  <2> HAVE j > 1
  <2>1. j - 1 \in 1..Len(u) /\ (j - 1) + 1 = j
    BY <1>1, <1>2
  <2>2. u[j - 1] = s[(j - 1) + 1]
    BY <2>1, <1>2
  <2> QED BY <2>1, <2>2, <1>2, <1>3
<1> HIDE DEF u
<1>4. /\ w \in Seq(Nat)
      /\ \A k \in DOMAIN w : \E i \in DOMAIN u : w[k] = u[i] /\ u[i] \notin P
      /\ \A i \in DOMAIN u : u[i] \notin P => \E k \in DOMAIN w : w[k] = u[i]
      /\ Single(u) => Single(w)
  BY <1>2, WithoutFacts
<1>5. t = <<h>> \o w
  BY <1>1 DEF DropFromNet, u
<1>6. h \in Nat
  <2>1. s[1] \in Nat BY <1>1, ElementOfSeq
  <2> QED BY <2>1
<1> HIDE DEF w, h
<1>7. <<h>> \in Seq(Nat) /\ Len(<<h>>) = 1 /\ <<h>>[1] = h
  BY <1>6
<1>8. Len(w) \in Nat /\ DOMAIN w = 1..Len(w)
  BY <1>4, LenProperties
<1>9. /\ t \in Seq(Nat) /\ Len(t) = Len(w) + 1 /\ DOMAIN t = 1..Len(w) + 1
      /\ t[1] = h /\ \A i \in 2..Len(w) + 1 : t[i] = w[i - 1]
  <2>1. /\ <<h>> \o w \in Seq(Nat)
        /\ Len(<<h>> \o w) = 1 + Len(w)
        /\ \A i \in 1..1 + Len(w) : (<<h>> \o w)[i] = IF i <= 1 THEN <<h>>[i] ELSE w[i - 1]
    BY <1>4, <1>7, ConcatProperties
  <2>2. DOMAIN (<<h>> \o w) = 1..1 + Len(w)
    BY <2>1, LenProperties
  <2> QED BY <2>1, <2>2, <1>5, <1>7, <1>8
<1>d. \A k \in DOMAIN w : k + 1 \in DOMAIN t /\ k + 1 > 1 /\ t[k + 1] = w[k]
  <2> TAKE k \in DOMAIN w
  <2>1. k \in Nat /\ k + 1 \in 2..Len(w) + 1 /\ (k + 1) - 1 = k
    BY <1>8
  <2>2. t[k + 1] = w[(k + 1) - 1]
    BY <2>1, <1>9
  <2> QED BY <2>1, <2>2, <1>8, <1>9
<1>e. \A i \in DOMAIN t : i > 1 => i - 1 \in DOMAIN w /\ t[i] = w[i - 1]
  <2> TAKE i \in DOMAIN t
  <2> HAVE i > 1
  <2>1. i \in 2..Len(w) + 1 /\ i - 1 \in 1..Len(w)
    BY <1>8, <1>9
  <2> QED BY <2>1, <1>8, <1>9
<1> HIDE DEF t
<1>10. ASSUME NEW i \in DOMAIN t, i > 1
       PROVE  \E j \in DOMAIN s : j > 1 /\ s[j] = t[i] /\ s[j] \notin P
  <2>1. i - 1 \in DOMAIN w /\ t[i] = w[i - 1]
    BY <1>e, <1>10
  <2>2. PICK k \in DOMAIN u : w[i - 1] = u[k] /\ u[k] \notin P
    BY <2>1, <1>4
  <2>3. k + 1 \in DOMAIN s /\ k + 1 > 1 /\ s[k + 1] = u[k]
    BY <1>b
  <2> QED BY <2>1, <2>2, <2>3
<1>11. ASSUME NEW j \in DOMAIN s, j > 1, s[j] \notin P
       PROVE  \E i \in DOMAIN t : i > 1 /\ t[i] = s[j]
  <2>1. j - 1 \in DOMAIN u /\ u[j - 1] = s[j]
    BY <1>c, <1>11
  <2>2. PICK k \in DOMAIN w : w[k] = u[j - 1]
    BY <2>1, <1>4, <1>11
  <2>3. k + 1 \in DOMAIN t /\ k + 1 > 1 /\ t[k + 1] = w[k]
    BY <1>d
  <2> QED BY <2>1, <2>2, <2>3
<1>12. ASSUME Single(s), NEW i \in DOMAIN t, NEW j \in DOMAIN t, t[i] = t[j], t[i] # 0
       PROVE  i = j
  <2>1. Single(w)
    <3>1. Single(u)
      <4> SUFFICES ASSUME NEW k \in DOMAIN u, NEW l \in DOMAIN u, u[k] = u[l], u[k] # 0
                   PROVE  k = l
        BY DEF Single
      <4>1. k + 1 \in DOMAIN s /\ l + 1 \in DOMAIN s /\ s[k + 1] = u[k] /\ s[l + 1] = u[l]
        BY <1>b
      <4>2. k + 1 = l + 1
        BY <4>1, <1>12 DEF Single
      <4> QED BY <4>2, <1>b
    <3> QED BY <3>1, <1>4
  <2>2. ASSUME NEW k \in DOMAIN t, k > 1 PROVE t[k] # h \/ h = 0
    <3>1. PICK l \in DOMAIN s : l > 1 /\ s[l] = t[k]
      BY <2>2, <1>10
    <3>2. s[1] # s[l] \/ s[1] = 0
      <4>1. 1 \in DOMAIN s BY <1>1
      <4> QED BY <4>1, <3>1, <1>12 DEF Single
    <3> QED BY <3>1, <3>2 DEF h
  <2>3. i \in Nat /\ j \in Nat /\ i >= 1 /\ j >= 1
    BY <1>9, <1>8
  <2>4. CASE i > 1 /\ j > 1
    <3>1. i - 1 \in DOMAIN w /\ j - 1 \in DOMAIN w /\ w[i - 1] = t[i] /\ w[j - 1] = t[j]
      BY <1>e, <2>4
    <3>2. i - 1 = j - 1
      BY <3>1, <2>1, <1>12 DEF Single
    <3> QED BY <3>2, <2>3
  <2>5. CASE i = 1 \/ j = 1
    BY <2>2, <2>3, <2>5, <1>12, <1>9
  <2> QED BY <2>3, <2>4, <2>5
<1>13. Single(s) => Single(t)
  BY <1>12 DEF Single
<1>14. Len(t) >= 1
  BY <1>8, <1>9
<1> QED BY <1>9, <1>10, <1>11, <1>13, <1>14 DEF Shortened, t, h

-----------------------------------------------------------------------------
(* What a netlist is, and the invariant of the database.                   *)

BlockRecs == [valid : BOOLEAN, name : Name, model : Model, table : Table,
              ports : SUBSET Nat, pins : SUBSET Nat]
PortRecs == [valid : BOOLEAN, block : Nat, name : PortName, pins : Seq(Nat)]
PinRecs == [valid : BOOLEAN, port : Nat, bit : 0..LutInputs - 1, net : Nat,
            idx : Nat \cup {-1}, const : BOOLEAN]
NetRecs == [valid : BOOLEAN, name : Name, pins : Seq(Nat)]
Netlists == [blocks : Seq(BlockRecs), ports : Seq(PortRecs), pins : Seq(PinRecs),
             nets : Seq(NetRecs), blockOf : [Name -> Nat], netOf : [Name -> Nat],
             dirty : BOOLEAN, error : {"none", "throw", "assert", "range"}]

\* Every id is 0 or that of an entry.
InRange(n) ==
  /\ \A b \in DOMAIN n.blocks : /\ n.blocks[b].ports \subseteq DOMAIN n.ports
                                /\ n.blocks[b].pins \subseteq DOMAIN n.pins
  /\ \A q \in DOMAIN n.ports :
        /\ n.ports[q].block \in DOMAIN n.blocks
        /\ \A i \in DOMAIN n.ports[q].pins : n.ports[q].pins[i] \in DOMAIN n.pins
  /\ \A p \in DOMAIN n.pins : /\ n.pins[p].port \in DOMAIN n.ports
                              /\ n.pins[p].net # 0 => n.pins[p].net \in DOMAIN n.nets
  /\ \A k \in DOMAIN n.nets : \A i \in DOMAIN n.nets[k].pins :
        n.nets[k].pins[i] # 0 => n.nets[k].pins[i] \in DOMAIN n.pins
  /\ \A x \in Name : /\ n.blockOf[x] # 0 => n.blockOf[x] \in DOMAIN n.blocks
                     /\ n.netOf[x] # 0 => n.netOf[x] \in DOMAIN n.nets
Typed(n) == n \in Netlists /\ InRange(n)

\* Who owns whom.  It holds of removed entries too: nothing but compress()
\* changes it once a port or a pin is there.
Structure(n) ==
  /\ \A b \in DOMAIN n.blocks, q \in DOMAIN n.ports :
        q \in n.blocks[b].ports <=> n.ports[q].block = b
  /\ \A q \in DOMAIN n.ports, p \in DOMAIN n.pins :
        (\E i \in DOMAIN n.ports[q].pins : n.ports[q].pins[i] = p) <=> n.pins[p].port = q
  /\ \A b \in DOMAIN n.blocks, p \in DOMAIN n.pins :
        p \in n.blocks[b].pins <=> PinBlock(n, p) = b
  /\ \A q \in DOMAIN n.ports : \A i, j \in DOMAIN n.ports[q].pins :
        i < j => n.pins[n.ports[q].pins[i]].bit < n.pins[n.ports[q].pins[j]].bit
  /\ \A q, r \in DOMAIN n.ports :
        n.ports[q].block = n.ports[r].block /\ n.ports[q].name = n.ports[r].name => q = r

\* A valid entry has a valid owner ...
Owned(n) ==
  /\ \A q \in DOMAIN n.ports : n.ports[q].valid => n.blocks[n.ports[q].block].valid
  /\ \A p \in DOMAIN n.pins : n.pins[p].valid => n.ports[n.pins[p].port].valid

\* ... and owns valid entries only.
Owning(n) ==
  /\ \A q \in DOMAIN n.ports : n.blocks[n.ports[q].block].valid => n.ports[q].valid
  /\ \A p \in DOMAIN n.pins : n.ports[n.pins[p].port].valid => n.pins[p].valid

\* Place i of the vector of net k holds no driver, or a pin that names k.
PlaceOK(n, k, i) == LET p == n.nets[k].pins[i] IN
  \/ i = 1 /\ p = 0
  \/ /\ p \in DOMAIN n.pins /\ n.pins[p].valid /\ n.pins[p].net = k
     /\ IsSink(n, p) <=> i > 1

\* A pin names no net, a net that lists it, or one that .conn merged away.
PinOK(n, p) == LET k == n.pins[p].net IN
  \/ k = 0
  \/ n.nets[k].valid /\ \E i \in DOMAIN n.nets[k].pins : n.nets[k].pins[i] = p
  \/ ~n.nets[k].valid /\ n.nets[k].pins = <<>>

\* A valid net lists each pin once; a valid pin that names a net is on it, or lost.
Netted(n) ==
  /\ \A k \in DOMAIN n.nets : n.nets[k].valid =>
        /\ Len(n.nets[k].pins) >= 1
        /\ Single(n.nets[k].pins)
        /\ \A i \in DOMAIN n.nets[k].pins : PlaceOK(n, k, i)
  /\ \A p \in DOMAIN n.pins : n.pins[p].valid => PinOK(n, p)

\* Names find the valid entries that bear them, and nothing else.
BlocksNamed(n) ==
  /\ \A x \in Name : n.blockOf[x] # 0 =>
        n.blocks[n.blockOf[x]].valid /\ n.blocks[n.blockOf[x]].name = x
  /\ \A b \in DOMAIN n.blocks : n.blocks[b].valid => n.blockOf[n.blocks[b].name] = b
NetsNamed(n) ==
  /\ \A x \in Name : n.netOf[x] # 0 =>
        n.nets[n.netOf[x]].valid /\ n.nets[n.netOf[x]].name = x
  /\ \A k \in DOMAIN n.nets : n.nets[k].valid => n.netOf[n.nets[k].name] = k

\* Unless marked dirty, the pins' indices are their places.
Indexed(n) == ~n.dirty => IndicesAgree(n)

\* Everything the entries say of one another.
Refs(n) == /\ Structure(n) /\ Owned(n) /\ Netted(n)
           /\ BlocksNamed(n) /\ NetsNamed(n) /\ Indexed(n)

\* What every operator preserves
Good(n) == Typed(n) /\ (n.error = "none" => Refs(n))

-----------------------------------------------------------------------------
(* Reading the types.                                                      *)

\* The tables are sequences of records.
LEMMA Shape ==
  ASSUME NEW n \in Netlists
  PROVE  /\ Len(n.blocks) \in Nat /\ DOMAIN n.blocks = 1..Len(n.blocks)
         /\ Len(n.ports) \in Nat /\ DOMAIN n.ports = 1..Len(n.ports)
         /\ Len(n.pins) \in Nat /\ DOMAIN n.pins = 1..Len(n.pins)
         /\ Len(n.nets) \in Nat /\ DOMAIN n.nets = 1..Len(n.nets)
         /\ \A b \in DOMAIN n.blocks : n.blocks[b] \in BlockRecs
         /\ \A q \in DOMAIN n.ports : n.ports[q] \in PortRecs
         /\ \A p \in DOMAIN n.pins : n.pins[p] \in PinRecs
         /\ \A k \in DOMAIN n.nets : n.nets[k] \in NetRecs
         /\ n.blockOf \in [Name -> Nat] /\ n.netOf \in [Name -> Nat]
         /\ n.dirty \in BOOLEAN /\ n.error \in {"none", "throw", "assert", "range"}
<1>1. /\ n.blocks \in Seq(BlockRecs) /\ n.ports \in Seq(PortRecs)
      /\ n.pins \in Seq(PinRecs) /\ n.nets \in Seq(NetRecs)
      /\ n.blockOf \in [Name -> Nat] /\ n.netOf \in [Name -> Nat]
      /\ n.dirty \in BOOLEAN /\ n.error \in {"none", "throw", "assert", "range"}
  BY DEF Netlists
<1>2. /\ Len(n.blocks) \in Nat /\ DOMAIN n.blocks = 1..Len(n.blocks)
      /\ n.blocks \in [1..Len(n.blocks) -> BlockRecs]
  BY <1>1, LenProperties
<1>3. /\ Len(n.ports) \in Nat /\ DOMAIN n.ports = 1..Len(n.ports)
      /\ n.ports \in [1..Len(n.ports) -> PortRecs]
  BY <1>1, LenProperties
<1>4. /\ Len(n.pins) \in Nat /\ DOMAIN n.pins = 1..Len(n.pins)
      /\ n.pins \in [1..Len(n.pins) -> PinRecs]
  BY <1>1, LenProperties
<1>5. /\ Len(n.nets) \in Nat /\ DOMAIN n.nets = 1..Len(n.nets)
      /\ n.nets \in [1..Len(n.nets) -> NetRecs]
  BY <1>1, LenProperties
<1> QED BY <1>1, <1>2, <1>3, <1>4, <1>5

\* The fields of those records.
LEMMA FieldTypes ==
  ASSUME NEW n \in Netlists
  PROVE  /\ \A b \in DOMAIN n.blocks :
               /\ n.blocks[b].valid \in BOOLEAN /\ n.blocks[b].name \in Name
               /\ n.blocks[b].model \in Model /\ n.blocks[b].table \in Table
               /\ n.blocks[b].ports \subseteq Nat /\ n.blocks[b].pins \subseteq Nat
         /\ \A q \in DOMAIN n.ports :
               /\ n.ports[q].valid \in BOOLEAN /\ n.ports[q].block \in Nat
               /\ n.ports[q].name \in PortName /\ n.ports[q].pins \in Seq(Nat)
         /\ \A p \in DOMAIN n.pins :
               /\ n.pins[p].valid \in BOOLEAN /\ n.pins[p].port \in Nat
               /\ n.pins[p].bit \in 0..LutInputs - 1 /\ n.pins[p].net \in Nat
               /\ n.pins[p].idx \in Nat \cup {-1} /\ n.pins[p].const \in BOOLEAN
         /\ \A k \in DOMAIN n.nets :
               /\ n.nets[k].valid \in BOOLEAN /\ n.nets[k].name \in Name
               /\ n.nets[k].pins \in Seq(Nat)
<1>1. \A b \in DOMAIN n.blocks : n.blocks[b] \in BlockRecs
  BY Shape
<1>2. \A q \in DOMAIN n.ports : n.ports[q] \in PortRecs
  BY Shape
<1>3. \A p \in DOMAIN n.pins : n.pins[p] \in PinRecs
  BY Shape
<1>4. \A k \in DOMAIN n.nets : n.nets[k] \in NetRecs
  BY Shape
<1> QED BY <1>1, <1>2, <1>3, <1>4 DEF BlockRecs, PortRecs, PinRecs, NetRecs

\* 0 is no position, so an id that finds an entry is not INVALID().
LEMMA ZeroIsNoId ==
  ASSUME NEW n \in Netlists
  PROVE  /\ 0 \notin DOMAIN n.blocks /\ 0 \notin DOMAIN n.ports
         /\ 0 \notin DOMAIN n.pins /\ 0 \notin DOMAIN n.nets
BY Shape

\* The model's type invariant of a netlist is the typing above.
LEMMA TypedNetlist ==
  ASSUME NEW n, Typed(n)
  PROVE  NetlistType(n)
<1>1. n \in Netlists /\ InRange(n)
  BY DEF Typed
<1>2. \A b \in DOMAIN n.blocks :
        /\ n.blocks[b].valid \in BOOLEAN /\ n.blocks[b].name \in Name
        /\ n.blocks[b].model \in Model /\ n.blocks[b].table \in Table
        /\ n.blocks[b].ports \subseteq DOMAIN n.ports
        /\ n.blocks[b].pins \subseteq DOMAIN n.pins
  BY <1>1, FieldTypes DEF InRange
<1>3. \A q \in DOMAIN n.ports :
        /\ n.ports[q].valid \in BOOLEAN /\ n.ports[q].block \in DOMAIN n.blocks
        /\ n.ports[q].name \in PortName /\ ToSet(n.ports[q].pins) \subseteq DOMAIN n.pins
  <2> TAKE q \in DOMAIN n.ports
  <2>1. \A i \in DOMAIN n.ports[q].pins : n.ports[q].pins[i] \in DOMAIN n.pins
    BY <1>1 DEF InRange
  <2>2. ToSet(n.ports[q].pins) \subseteq DOMAIN n.pins
    BY <2>1 DEF ToSet
  <2> QED BY <1>1, <2>2, FieldTypes DEF InRange
<1>4. \A p \in DOMAIN n.pins :
        /\ n.pins[p].valid \in BOOLEAN /\ n.pins[p].port \in DOMAIN n.ports
        /\ n.pins[p].bit \in 0..LutInputs - 1 /\ n.pins[p].net \in {0} \cup DOMAIN n.nets
        /\ n.pins[p].idx \in Nat \cup {-1} /\ n.pins[p].const \in BOOLEAN
  BY <1>1, FieldTypes DEF InRange
<1>5. \A k \in DOMAIN n.nets :
        /\ n.nets[k].valid \in BOOLEAN /\ n.nets[k].name \in Name
        /\ ToSet(n.nets[k].pins) \subseteq {0} \cup DOMAIN n.pins
  <2> TAKE k \in DOMAIN n.nets
  <2>1. \A i \in DOMAIN n.nets[k].pins : n.nets[k].pins[i] \in {0} \cup DOMAIN n.pins
    BY <1>1 DEF InRange
  <2>2. ToSet(n.nets[k].pins) \subseteq {0} \cup DOMAIN n.pins
    BY <2>1 DEF ToSet
  <2> QED BY <1>1, <2>2, FieldTypes
<1>6. n.blockOf \in [Name -> {0} \cup DOMAIN n.blocks]
  <2>1. n.blockOf \in [Name -> Nat] /\ \A x \in Name : n.blockOf[x] \in {0} \cup DOMAIN n.blocks
    BY <1>1, Shape DEF InRange
  <2> QED BY <2>1
<1>7. n.netOf \in [Name -> {0} \cup DOMAIN n.nets]
  <2>1. n.netOf \in [Name -> Nat] /\ \A x \in Name : n.netOf[x] \in {0} \cup DOMAIN n.nets
    BY <1>1, Shape DEF InRange
  <2> QED BY <2>1
<1>8. n.dirty \in BOOLEAN /\ n.error \in {"none", "throw", "assert", "range"}
  BY <1>1, Shape
<1> QED BY <1>2, <1>3, <1>4, <1>5, <1>6, <1>7, <1>8 DEF NetlistType

-----------------------------------------------------------------------------
(* Removing: what each operator leaves, and that it leaves a good netlist. *)

\* A failed operation leaves a netlist of the right type.
LEMMA FailIsGood ==
  ASSUME NEW n, Typed(n), NEW how \in {"throw", "assert", "range"}
  PROVE  Good(Fail(n, how)) /\ Fail(n, how).error = how
<1> DEFINE m == Fail(n, how)
<1>1. n \in Netlists /\ InRange(n)
  BY DEF Typed
<1>2. /\ m \in Netlists /\ m.error = how
      /\ m.blocks = n.blocks /\ m.ports = n.ports /\ m.pins = n.pins /\ m.nets = n.nets
      /\ m.blockOf = n.blockOf /\ m.netOf = n.netOf
  BY <1>1 DEF Fail, Netlists
<1> HIDE DEF m
<1>3. InRange(m)
  BY <1>1, <1>2 DEF InRange
<1> QED BY <1>2, <1>3 DEF Good, Typed, m

\* m has the blocks, ports and pins of n: only connections and names differ,
\* and what is valid.
SameShape(n, m) ==
  /\ DOMAIN m.blocks = DOMAIN n.blocks
  /\ DOMAIN m.ports = DOMAIN n.ports
  /\ DOMAIN m.pins = DOMAIN n.pins
  /\ \A b \in DOMAIN n.blocks : /\ m.blocks[b].ports = n.blocks[b].ports
                                /\ m.blocks[b].pins = n.blocks[b].pins
                                /\ m.blocks[b].model = n.blocks[b].model
                                /\ m.blocks[b].table = n.blocks[b].table
  /\ \A q \in DOMAIN n.ports : /\ m.ports[q].block = n.ports[q].block
                               /\ m.ports[q].name = n.ports[q].name
                               /\ m.ports[q].pins = n.ports[q].pins
  /\ \A p \in DOMAIN n.pins : /\ m.pins[p].port = n.pins[p].port
                              /\ m.pins[p].bit = n.pins[p].bit
                              /\ m.pins[p].const = n.pins[p].const

\* Steps that keep the shape, one after the other.
LEMMA ShapeTransitive ==
  ASSUME NEW n, NEW m, NEW l, SameShape(n, m), SameShape(m, l)
  PROVE  SameShape(n, l)
BY DEF SameShape

\* Blocks own the same ports and pins in a netlist of the same shape.
LEMMA ShapeKeepsStructure ==
  ASSUME NEW n, NEW m, Typed(n), Structure(n), SameShape(n, m)
  PROVE  /\ Structure(m)
         /\ \A p \in DOMAIN n.pins : IsSink(m, p) = IsSink(n, p) /\ PinBlock(m, p) = PinBlock(n, p)
         /\ \A b \in DOMAIN n.blocks : \A pn : BlockPins(m, b, pn) = BlockPins(n, b, pn)
<1>1. InRange(n)
  BY DEF Typed
<1>2. \A p \in DOMAIN n.pins : /\ m.ports[m.pins[p].port].name = n.ports[n.pins[p].port].name
                               /\ PinBlock(m, p) = PinBlock(n, p)
  BY <1>1 DEF SameShape, InRange, PinBlock
<1>3. \A p \in DOMAIN n.pins : IsSink(m, p) = IsSink(n, p)
  BY <1>2 DEF IsSink
<1>4. \A b \in DOMAIN n.blocks : \A pn : BlockPins(m, b, pn) = BlockPins(n, b, pn)
  <2> TAKE b \in DOMAIN n.blocks
  <2> TAKE pn
  <2>1. m.blocks[b].pins = n.blocks[b].pins /\ n.blocks[b].pins \subseteq DOMAIN n.pins
    BY <1>1 DEF SameShape, InRange
  <2> QED BY <2>1, <1>2 DEF BlockPins
<1>5. /\ \A b \in DOMAIN m.blocks, q \in DOMAIN m.ports :
            q \in m.blocks[b].ports <=> m.ports[q].block = b
      /\ \A b \in DOMAIN m.blocks, p \in DOMAIN m.pins :
            p \in m.blocks[b].pins <=> PinBlock(m, p) = b
      /\ \A q, r \in DOMAIN m.ports :
            m.ports[q].block = m.ports[r].block /\ m.ports[q].name = m.ports[r].name => q = r
  BY <1>2 DEF Structure, SameShape
<1>6. \A q \in DOMAIN m.ports, p \in DOMAIN m.pins :
        (\E i \in DOMAIN m.ports[q].pins : m.ports[q].pins[i] = p) <=> m.pins[p].port = q
  BY DEF Structure, SameShape
<1>7. \A q \in DOMAIN m.ports : \A i, j \in DOMAIN m.ports[q].pins :
        i < j => m.pins[m.ports[q].pins[i]].bit < m.pins[m.ports[q].pins[j]].bit
  <2> SUFFICES ASSUME NEW q \in DOMAIN m.ports, NEW i \in DOMAIN m.ports[q].pins,
                      NEW j \in DOMAIN m.ports[q].pins, i < j
               PROVE  m.pins[m.ports[q].pins[i]].bit < m.pins[m.ports[q].pins[j]].bit
    OBVIOUS
  <2>1. q \in DOMAIN n.ports /\ m.ports[q].pins = n.ports[q].pins
    BY DEF SameShape
  <2>2. n.ports[q].pins[i] \in DOMAIN n.pins /\ n.ports[q].pins[j] \in DOMAIN n.pins
    BY <1>1, <2>1 DEF InRange
  <2>3. n.pins[n.ports[q].pins[i]].bit < n.pins[n.ports[q].pins[j]].bit
    BY <2>1 DEF Structure
  <2> QED BY <2>1, <2>2, <2>3 DEF SameShape
<1> QED BY <1>2, <1>3, <1>4, <1>5, <1>6, <1>7 DEF Structure

\* The two changes a removal makes to an entry.
LEMMA UnlinkFacts ==
  ASSUME NEW r \in PinRecs
  PROVE  /\ Unlink(r) \in PinRecs
         /\ Unlink(r).net = 0 /\ Unlink(r).idx = -1
         /\ Unlink(r).valid = r.valid /\ Unlink(r).port = r.port
         /\ Unlink(r).bit = r.bit /\ Unlink(r).const = r.const
<1> DEFINE h == [r EXCEPT !.net = 0]
           u == [h EXCEPT !.idx = -1]
<1>1. h \in PinRecs /\ h.net = 0 /\ h.valid = r.valid /\ h.port = r.port
      /\ h.bit = r.bit /\ h.const = r.const
  BY DEF PinRecs
<1>2. Unlink(r) = u
  BY DEF Unlink
<1> HIDE DEF h
<1>3. u \in PinRecs /\ u.net = h.net /\ u.idx = -1 /\ u.valid = h.valid
      /\ u.port = h.port /\ u.bit = h.bit /\ u.const = h.const
  BY <1>1 DEF PinRecs
<1> QED BY <1>1, <1>2, <1>3

\* Marking an entry removed changes nothing else in it.
LEMMA InvalidateFacts ==
  /\ \A r \in BlockRecs : /\ Invalidate(r) \in BlockRecs /\ Invalidate(r).valid = FALSE
                          /\ Invalidate(r).name = r.name /\ Invalidate(r).model = r.model
                          /\ Invalidate(r).table = r.table /\ Invalidate(r).ports = r.ports
                          /\ Invalidate(r).pins = r.pins
  /\ \A r \in PortRecs : /\ Invalidate(r) \in PortRecs /\ Invalidate(r).valid = FALSE
                         /\ Invalidate(r).block = r.block /\ Invalidate(r).name = r.name
                         /\ Invalidate(r).pins = r.pins
  /\ \A r \in PinRecs : /\ Invalidate(r) \in PinRecs /\ Invalidate(r).valid = FALSE
                        /\ Invalidate(r).port = r.port /\ Invalidate(r).bit = r.bit
                        /\ Invalidate(r).net = r.net /\ Invalidate(r).idx = r.idx
                        /\ Invalidate(r).const = r.const
  /\ \A r \in NetRecs : /\ Invalidate(r) \in NetRecs /\ Invalidate(r).valid = FALSE
                        /\ Invalidate(r).name = r.name /\ Invalidate(r).pins = r.pins
<1>1. \A r \in BlockRecs : /\ Invalidate(r) \in BlockRecs /\ Invalidate(r).valid = FALSE
                          /\ Invalidate(r).name = r.name /\ Invalidate(r).model = r.model
                          /\ Invalidate(r).table = r.table /\ Invalidate(r).ports = r.ports
                          /\ Invalidate(r).pins = r.pins
  BY DEF Invalidate, BlockRecs
<1>2. \A r \in PortRecs : /\ Invalidate(r) \in PortRecs /\ Invalidate(r).valid = FALSE
                         /\ Invalidate(r).block = r.block /\ Invalidate(r).name = r.name
                         /\ Invalidate(r).pins = r.pins
  BY DEF Invalidate, PortRecs
<1>3. \A r \in PinRecs : /\ Invalidate(r) \in PinRecs /\ Invalidate(r).valid = FALSE
                        /\ Invalidate(r).port = r.port /\ Invalidate(r).bit = r.bit
                        /\ Invalidate(r).net = r.net /\ Invalidate(r).idx = r.idx
                        /\ Invalidate(r).const = r.const
  BY DEF Invalidate, PinRecs
<1>4. \A r \in NetRecs : /\ Invalidate(r) \in NetRecs /\ Invalidate(r).valid = FALSE
                        /\ Invalidate(r).name = r.name /\ Invalidate(r).pins = r.pins
  BY DEF Invalidate, NetRecs
<1> QED BY <1>1, <1>2, <1>3, <1>4

\* What remove_net_pin() does for the pins P.
Cut(n, P, m) ==
  /\ m \in Netlists
  /\ m.blocks = n.blocks /\ m.ports = n.ports
  /\ m.blockOf = n.blockOf /\ m.netOf = n.netOf /\ m.error = n.error
  /\ (m.dirty <=> n.dirty \/ P # {})
  /\ DOMAIN m.pins = DOMAIN n.pins
  /\ \A p \in DOMAIN n.pins : m.pins[p] = IF p \in P THEN Unlink(n.pins[p]) ELSE n.pins[p]
  /\ DOMAIN m.nets = DOMAIN n.nets
  /\ \A k \in DOMAIN n.nets :
        /\ m.nets[k].valid = n.nets[k].valid /\ m.nets[k].name = n.nets[k].name
        /\ IF n.nets[k].valid THEN Shortened(n.nets[k].pins, m.nets[k].pins, P)
           ELSE m.nets[k].pins = n.nets[k].pins
  /\ P = {} => m.nets = n.nets

\* In a net that lists none of P nothing changes.
LEMMA ShortenedByNone ==
  ASSUME NEW s \in Seq(Nat), Len(s) >= 1, NEW P, \A i \in DOMAIN s : s[i] \notin P
  PROVE  Shortened(s, s, P)
<1>1. 1 \in DOMAIN s
  BY LenProperties
<1> QED BY <1>1 DEF Shortened

\* Taking pins off their nets cuts them.
LEMMA DisconnectCuts ==
  ASSUME NEW n, Typed(n), Netted(n), NEW P \in SUBSET DOMAIN n.pins,
         \A p \in P : n.pins[p].valid
  PROVE  Cut(n, P, Disconnect(n, P))
<1> DEFINE Shorten(net) == [net EXCEPT !.pins = DropFromNet(@, P)]
           N == Valid(n.nets) \cap {n.pins[p].net : p \in P}
           f == [p \in DOMAIN n.pins |-> IF p \in P THEN Unlink(n.pins[p]) ELSE n.pins[p]]
           g == [k \in DOMAIN n.nets |-> IF k \in N THEN Shorten(n.nets[k]) ELSE n.nets[k]]
           m == Disconnect(n, P)
<1>1. n \in Netlists /\ InRange(n)
  BY DEF Typed
<1>2. ~LostPin(n, P)
  <2> SUFFICES ASSUME NEW p \in P, ValidId(n.nets, n.pins[p].net)
               PROVE  p \in ToSet(n.nets[n.pins[p].net].pins)
    BY DEF LostPin
  <2>1. n.pins[p].net \in DOMAIN n.nets /\ n.nets[n.pins[p].net].valid
    BY DEF ValidId, Valid
  <2>2. n.pins[p].net # 0
    BY Zenon, <1>1, <2>1, ZeroIsNoId
  <2>3. \E i \in DOMAIN n.nets[n.pins[p].net].pins : n.nets[n.pins[p].net].pins[i] = p
    BY <2>1, <2>2 DEF Netted, PinOK
  <2> QED BY <2>3 DEF ToSet
<1>3. f \in [1..Len(n.pins) -> PinRecs]
  <2>1. \A p \in DOMAIN n.pins : n.pins[p] \in PinRecs /\ Unlink(n.pins[p]) \in PinRecs
    BY <1>1, Shape, UnlinkFacts
  <2> QED BY <1>1, <2>1, Shape
<1>4. \A k \in N : Shortened(n.nets[k].pins, DropFromNet(n.nets[k].pins, P), P)
  <2> TAKE k \in N
  <2>1. k \in DOMAIN n.nets /\ n.nets[k].valid
    BY DEF Valid
  <2>2. n.nets[k].pins \in Seq(Nat) /\ Len(n.nets[k].pins) >= 1
    BY <1>1, <2>1, FieldTypes DEF Netted
  <2> QED BY <2>2, DropShortens
<1>5. \A k \in DOMAIN n.nets : n.nets[k] \in NetRecs /\ g[k] \in NetRecs
  <2> TAKE k \in DOMAIN n.nets
  <2>1. n.nets[k] \in NetRecs
    BY <1>1, Shape
  <2>2. CASE k \in N
    <3>1. DropFromNet(n.nets[k].pins, P) \in Seq(Nat)
      BY <1>4, <2>2 DEF Shortened
    <3> QED BY <2>1, <2>2, <3>1 DEF NetRecs
  <2> QED BY <2>1, <2>2
<1>6. g \in [1..Len(n.nets) -> NetRecs]
  BY <1>1, <1>5, Shape
<1>7. /\ SubSeq(f, 1, Len(n.pins)) = f /\ f \in Seq(PinRecs)
      /\ SubSeq(g, 1, Len(n.nets)) = g /\ g \in Seq(NetRecs)
  <2>1. Len(n.pins) \in Nat /\ Len(n.nets) \in Nat
    BY <1>1, Shape
  <2> HIDE DEF f, g
  <2> QED BY <1>3, <1>6, <2>1, WholeSeq
<1>8. m = [n EXCEPT !.pins = f, !.nets = g, !.dirty = @ \/ P # {}]
  <2>1. Update(n.pins, P, Unlink) = SubSeq(f, 1, Len(n.pins))
    BY DEF Update
  <2>2. Update(n.nets, N, Shorten) = SubSeq(g, 1, Len(n.nets))
    BY DEF Update
  <2> HIDE DEF f, g
  <2> QED BY <1>2, <1>7, <2>1, <2>2 DEF Disconnect
<1>9. /\ m \in Netlists /\ m.blocks = n.blocks /\ m.ports = n.ports
      /\ m.blockOf = n.blockOf /\ m.netOf = n.netOf /\ m.error = n.error
      /\ (m.dirty <=> n.dirty \/ P # {}) /\ m.pins = f /\ m.nets = g
  <2> HIDE DEF f, g, m
  <2> QED BY Zenon, <1>1, <1>7, <1>8 DEF Netlists
<1>10. ASSUME NEW k \in DOMAIN n.nets
       PROVE  /\ g[k].valid = n.nets[k].valid /\ g[k].name = n.nets[k].name
              /\ IF n.nets[k].valid THEN Shortened(n.nets[k].pins, g[k].pins, P)
                 ELSE g[k].pins = n.nets[k].pins
  <2>1. CASE k \in N
    <3>1. n.nets[k].valid BY <2>1 DEF Valid
    <3>2. n.nets[k] \in NetRecs BY <1>5
    <3>3. g[k] = [n.nets[k] EXCEPT !.pins = DropFromNet(n.nets[k].pins, P)]
      BY <2>1, <3>2 DEF NetRecs
    <3>4. g[k].pins = DropFromNet(n.nets[k].pins, P) /\ g[k].valid = n.nets[k].valid /\ g[k].name = n.nets[k].name
      BY <3>2, <3>3 DEF NetRecs
    <3> QED BY <3>1, <3>4, <2>1, <1>4
  <2>2. CASE k \notin N
    <3>1. g[k] = n.nets[k] BY <2>2
    <3>2. ASSUME n.nets[k].valid PROVE Shortened(n.nets[k].pins, n.nets[k].pins, P)
      <4>1. n.nets[k].pins \in Seq(Nat) /\ Len(n.nets[k].pins) >= 1
        BY <1>1, <3>2, FieldTypes DEF Netted
      <4>2. \A i \in DOMAIN n.nets[k].pins : n.nets[k].pins[i] \notin P
        <5> SUFFICES ASSUME NEW i \in DOMAIN n.nets[k].pins, n.nets[k].pins[i] \in P
                     PROVE FALSE
          OBVIOUS
        <5>1. PlaceOK(n, k, i) BY <3>2 DEF Netted
        <5>2. n.nets[k].pins[i] # 0 BY <1>1, ZeroIsNoId
        <5>3. n.pins[n.nets[k].pins[i]].net = k BY <5>1, <5>2 DEF PlaceOK
        <5> QED BY <5>3, <2>2, <3>2 DEF Valid
      <4> QED BY <4>1, <4>2, ShortenedByNone
    <3> QED BY <3>1, <3>2
  <2> QED BY Zenon, <2>1, <2>2
<1>11. ASSUME P = {} PROVE g = n.nets
  <2>1. N = {} BY <1>11
  <2>2. g = [k \in DOMAIN n.nets |-> n.nets[k]] BY <2>1
  <2>3. n.nets \in [1..Len(n.nets) -> NetRecs] /\ DOMAIN n.nets = 1..Len(n.nets)
    BY <1>1, LenProperties DEF Netlists
  <2> QED BY <2>2, <2>3
<1>12. DOMAIN f = DOMAIN n.pins /\ DOMAIN g = DOMAIN n.nets
       /\ \A p \in DOMAIN n.pins : f[p] = IF p \in P THEN Unlink(n.pins[p]) ELSE n.pins[p]
  OBVIOUS
<1> HIDE DEF f, g, m
<1>13. Cut(n, P, m)
  BY <1>9, <1>10, <1>11, <1>12 DEF Cut
<1> QED BY <1>13 DEF m

\* A netlist with pins cut is as good as before.
LEMMA CutIsGood ==
  ASSUME NEW n, Typed(n), Refs(n), NEW P \in SUBSET DOMAIN n.pins,
         NEW m, Cut(n, P, m)
  PROVE  Typed(m) /\ Refs(m) /\ SameShape(n, m)
<1>1. n \in Netlists /\ InRange(n) /\ m \in Netlists
  BY DEF Typed, Cut
<1>2. \A p \in DOMAIN n.pins : n.pins[p] \in PinRecs
  BY <1>1, Shape
<1>3. \A p \in DOMAIN n.pins :
        /\ m.pins[p].valid = n.pins[p].valid /\ m.pins[p].port = n.pins[p].port
        /\ m.pins[p].bit = n.pins[p].bit /\ m.pins[p].const = n.pins[p].const
        /\ m.pins[p].net = IF p \in P THEN 0 ELSE n.pins[p].net
        /\ p \notin P => m.pins[p] = n.pins[p]
  BY <1>2, UnlinkFacts DEF Cut
<1>4. SameShape(n, m)
  BY <1>3 DEF SameShape, Cut
<1>5. \A k \in DOMAIN n.nets : n.nets[k].valid => Shortened(n.nets[k].pins, m.nets[k].pins, P)
  BY DEF Cut
<1>6. \A p \in DOMAIN n.pins : p # 0
  BY <1>1, ZeroIsNoId
<1>7. ASSUME NEW k \in DOMAIN n.nets, NEW i \in DOMAIN m.nets[k].pins, n.nets[k].valid
      PROVE  /\ PlaceOK(m, k, i)
             /\ m.nets[k].pins[i] # 0 => m.nets[k].pins[i] \in DOMAIN n.pins
  <2> DEFINE s == n.nets[k].pins
             t == m.nets[k].pins
  <2>1. Shortened(s, t, P)
    BY <1>5, <1>7
  <2>2. s \in Seq(Nat) /\ Len(s) >= 1 /\ \A j \in DOMAIN s : PlaceOK(n, k, j)
    BY <1>1, <1>7, FieldTypes DEF Refs, Netted
  <2>3. 1 \in DOMAIN s
    BY <2>2, LenProperties
  <2>4. i \in Nat /\ i >= 1
    BY <2>1, LenProperties, <1>7 DEF Shortened
  <2>5. CASE i = 1
    <3>1. t[1] = IF s[1] \in P THEN 0 ELSE s[1]
      BY <2>1 DEF Shortened
    <3>2. CASE s[1] \in P \/ s[1] = 0
      BY <3>1, <3>2, <2>5 DEF PlaceOK
    <3>3. CASE s[1] \notin P /\ s[1] # 0
      <4>1. s[1] \in DOMAIN n.pins /\ n.pins[s[1]].valid /\ n.pins[s[1]].net = k /\ (IsSink(n, s[1]) <=> 1 > 1)
        BY <2>2, <2>3, <3>3 DEF PlaceOK
      <4>2. IsSink(m, s[1]) = IsSink(n, s[1])
        BY <4>1, <1>4, ShapeKeepsStructure DEF Refs
      <4>3. s[1] \in DOMAIN m.pins /\ m.pins[s[1]] = n.pins[s[1]]
        BY Zenon, <4>1, <3>3, <1>3 DEF Cut
      <4> QED BY <3>1, <3>3, <4>1, <4>2, <4>3, <2>5 DEF PlaceOK
    <3> QED BY <3>2, <3>3
  <2>6. CASE i > 1
    <3>1. PICK j \in DOMAIN s : j > 1 /\ s[j] = t[i] /\ s[j] \notin P
      BY <2>1, <2>6 DEF Shortened
    <3>2. s[j] \in DOMAIN n.pins /\ n.pins[s[j]].valid /\ n.pins[s[j]].net = k /\ IsSink(n, s[j])
      <4>1. PlaceOK(n, k, j) /\ j \in Nat
        BY <2>2, LenProperties
      <4> QED BY <4>1, <3>1 DEF PlaceOK
    <3>3. IsSink(m, s[j]) = IsSink(n, s[j])
      BY <3>2, <1>4, ShapeKeepsStructure DEF Refs
    <3>4. s[j] \in DOMAIN m.pins /\ m.pins[s[j]] = n.pins[s[j]]
      BY <3>1, <3>2, <1>3 DEF Cut
    <3> QED BY <3>1, <3>2, <3>3, <3>4, <2>6 DEF PlaceOK
  <2> QED BY <2>4, <2>5, <2>6
<1>8. ASSUME NEW p \in DOMAIN n.pins, n.pins[p].valid
      PROVE  PinOK(m, p)
  <2> DEFINE k == n.pins[p].net
  <2>1. CASE p \in P \/ k = 0
    BY <2>1, <1>3 DEF PinOK
  <2>2. CASE p \notin P /\ k # 0
    <3>1. k \in DOMAIN n.nets /\ m.pins[p].net = k /\ m.nets[k].valid = n.nets[k].valid
      BY <1>1, <1>3, <2>2 DEF InRange, Cut
    <3>2. PinOK(n, p)
      BY Zenon, <1>8 DEF Refs, Netted
    <3>3. CASE n.nets[k].valid
      <4>1. PICK j \in DOMAIN n.nets[k].pins : n.nets[k].pins[j] = p
        BY Zenon, <3>2, <3>3, <2>2 DEF PinOK
      <4>2. Shortened(n.nets[k].pins, m.nets[k].pins, P)
        BY <3>1, <3>3, <1>5
      <4>3. j \in Nat /\ j >= 1
        BY <1>1, <3>1, FieldTypes, LenProperties
      <4>4. \E i \in DOMAIN m.nets[k].pins : m.nets[k].pins[i] = p
        <5>1. CASE j = 1
          <6>1. m.nets[k].pins[1] = p
            BY Zenon, <5>1, <4>1, <4>2, <2>2 DEF Shortened
          <6>2. 1 \in DOMAIN m.nets[k].pins
            <7>1. m.nets[k].pins \in Seq(Nat) /\ Len(m.nets[k].pins) >= 1
              BY Zenon, <4>2 DEF Shortened
            <7>2. DOMAIN m.nets[k].pins = 1..Len(m.nets[k].pins) /\ Len(m.nets[k].pins) \in Nat
              BY Zenon, <7>1, LenProperties
            <7> QED BY SMTT(30), <7>1, <7>2
          <6> QED BY Zenon, <6>1, <6>2
        <5>2. CASE j > 1
          BY ZenonT(40), <5>2, <4>1, <4>2, <2>2 DEF Shortened
        <5> QED BY <4>3, <5>1, <5>2
      <4> QED BY Zenon, <4>4, <3>1, <3>3 DEF PinOK
    <3>4. CASE ~n.nets[k].valid
      BY Zenon, <3>1, <3>2, <3>4, <2>2 DEF PinOK, Cut
    <3> QED BY <3>3, <3>4
  <2> QED BY <2>1, <2>2
<1>9. Netted(m)
  <2>1. \A p \in DOMAIN m.pins : m.pins[p].valid => PinOK(m, p)
    BY <1>3, <1>8 DEF Cut
  <2>2. \A k \in DOMAIN m.nets : m.nets[k].valid =>
          /\ Len(m.nets[k].pins) >= 1 /\ Single(m.nets[k].pins)
          /\ \A i \in DOMAIN m.nets[k].pins : PlaceOK(m, k, i)
    <3> SUFFICES ASSUME NEW k \in DOMAIN m.nets, m.nets[k].valid
                 PROVE  /\ Len(m.nets[k].pins) >= 1 /\ Single(m.nets[k].pins)
                        /\ \A i \in DOMAIN m.nets[k].pins : PlaceOK(m, k, i)
      OBVIOUS
    <3>1. k \in DOMAIN n.nets /\ n.nets[k].valid
      BY DEF Cut
    <3>2. Single(n.nets[k].pins)
      BY <3>1 DEF Refs, Netted
    <3> QED BY <3>1, <3>2, <1>5, <1>7 DEF Shortened
  <2> QED BY <2>1, <2>2 DEF Netted
<1>10. InRange(m)
  <2>1. \A k \in DOMAIN m.nets : \A i \in DOMAIN m.nets[k].pins :
          m.nets[k].pins[i] # 0 => m.nets[k].pins[i] \in DOMAIN m.pins
    <3> SUFFICES ASSUME NEW k \in DOMAIN m.nets, NEW i \in DOMAIN m.nets[k].pins,
                        m.nets[k].pins[i] # 0
                 PROVE  m.nets[k].pins[i] \in DOMAIN m.pins
      OBVIOUS
    <3>1. k \in DOMAIN n.nets
      BY DEF Cut
    <3>2. CASE n.nets[k].valid
      BY <3>1, <3>2, <1>7 DEF Cut
    <3>3. CASE ~n.nets[k].valid
      BY <3>1, <3>3, <1>1 DEF Cut, InRange
    <3> QED BY <3>2, <3>3
  <2>2. \A p \in DOMAIN m.pins : /\ m.pins[p].port \in DOMAIN m.ports
                                 /\ m.pins[p].net # 0 => m.pins[p].net \in DOMAIN m.nets
    BY <1>1, <1>3 DEF Cut, InRange
  <2>3. /\ \A b \in DOMAIN m.blocks : /\ m.blocks[b].ports \subseteq DOMAIN m.ports
                                      /\ m.blocks[b].pins \subseteq DOMAIN m.pins
        /\ \A q \in DOMAIN m.ports :
              /\ m.ports[q].block \in DOMAIN m.blocks
              /\ \A i \in DOMAIN m.ports[q].pins : m.ports[q].pins[i] \in DOMAIN m.pins
        /\ \A x \in Name : /\ m.blockOf[x] # 0 => m.blockOf[x] \in DOMAIN m.blocks
                           /\ m.netOf[x] # 0 => m.netOf[x] \in DOMAIN m.nets
    BY <1>1 DEF Cut, InRange
  <2> QED BY <2>1, <2>2, <2>3 DEF InRange
<1>11. Structure(m)
  BY <1>4, ShapeKeepsStructure DEF Refs
<1>12. Owned(m)
  BY <1>1, <1>3 DEF Refs, Owned, Cut, InRange
<1>13. BlocksNamed(m) /\ NetsNamed(m)
  <2>1. BlocksNamed(m)
    BY DEF Refs, BlocksNamed, Cut
  <2>2. NetsNamed(m)
    BY <1>1 DEF Refs, NetsNamed, Cut, InRange
  <2> QED BY <2>1, <2>2
<1>14. Indexed(m)
  <2> SUFFICES ASSUME ~m.dirty PROVE IndicesAgree(m)
    BY DEF Indexed
  <2>1. n.dirty \in BOOLEAN
    BY <1>1, Shape
  <2>2. P = {} /\ ~n.dirty
    BY <2>1 DEF Cut
  <2>3. m.nets = n.nets /\ \A p \in DOMAIN n.pins : m.pins[p] = n.pins[p]
    BY <2>2, <1>3 DEF Cut
  <2>4. IndicesAgree(n)
    BY <2>2 DEF Refs, Indexed
  <2> QED BY <2>3, <2>4, <1>1 DEF IndicesAgree, InRange, Valid
<1> QED BY <1>1, <1>4, <1>9, <1>10, <1>11, <1>12, <1>13, <1>14 DEF Typed, Refs

\* Marking the pins P, the ports Q or the blocks B as removed.
PinsGone(c, P, m) ==
  /\ m \in Netlists
  /\ m.blocks = c.blocks /\ m.ports = c.ports /\ m.nets = c.nets
  /\ m.blockOf = c.blockOf /\ m.netOf = c.netOf
  /\ m.error = c.error /\ m.dirty = c.dirty
  /\ DOMAIN m.pins = DOMAIN c.pins
  /\ \A p \in DOMAIN c.pins : m.pins[p] = IF p \in P THEN Invalidate(c.pins[p]) ELSE c.pins[p]

\* Marking pins removed.
LEMMA InvalidPins ==
  ASSUME NEW c \in Netlists, NEW P
  PROVE  PinsGone(c, P, [c EXCEPT !.pins = Update(@, P, Invalidate)])
<1> DEFINE f == [p \in DOMAIN c.pins |-> IF p \in P THEN Invalidate(c.pins[p]) ELSE c.pins[p]]
           m == [c EXCEPT !.pins = Update(@, P, Invalidate)]
<1>1. f \in [1..Len(c.pins) -> PinRecs] /\ Len(c.pins) \in Nat
  <2>1. \A p \in DOMAIN c.pins : c.pins[p] \in PinRecs /\ Invalidate(c.pins[p]) \in PinRecs
    BY Shape, InvalidateFacts
  <2> QED BY <2>1, Shape
<1>2. DOMAIN f = DOMAIN c.pins /\ \A p \in DOMAIN c.pins : f[p] = IF p \in P THEN Invalidate(c.pins[p]) ELSE c.pins[p]
  OBVIOUS
<1>3. Update(c.pins, P, Invalidate) = SubSeq(f, 1, Len(c.pins))
  BY DEF Update
<1> HIDE DEF f
<1>4. Update(c.pins, P, Invalidate) = f /\ f \in Seq(PinRecs)
  BY <1>1, <1>3, WholeSeq
<1>5. m = [c EXCEPT !.pins = f]
  BY <1>4
<1> HIDE DEF m
<1>6. /\ m \in Netlists /\ m.pins = f /\ m.blocks = c.blocks /\ m.ports = c.ports /\ m.nets = c.nets
      /\ m.blockOf = c.blockOf /\ m.netOf = c.netOf /\ m.error = c.error /\ m.dirty = c.dirty
  BY <1>4, <1>5 DEF Netlists
<1>7. PinsGone(c, P, m)
  BY <1>2, <1>6 DEF PinsGone
<1> QED BY <1>7 DEF m

\* A netlist whose pins are marked removed has its type and shape.
LEMMA PinsGoneTyped ==
  ASSUME NEW c, Typed(c), NEW P, NEW m, PinsGone(c, P, m)
  PROVE  /\ Typed(m) /\ SameShape(c, m)
         /\ \A p \in DOMAIN c.pins :
               /\ m.pins[p].net = c.pins[p].net /\ m.pins[p].idx = c.pins[p].idx
               /\ (m.pins[p].valid <=> c.pins[p].valid /\ p \notin P)
<1>1. c \in Netlists /\ InRange(c)
  BY DEF Typed
<1>2. \A p \in DOMAIN c.pins : c.pins[p] \in PinRecs /\ c.pins[p].valid \in BOOLEAN
  BY <1>1, Shape, FieldTypes
<1>3. \A p \in DOMAIN c.pins :
        /\ (m.pins[p].valid <=> c.pins[p].valid /\ p \notin P) /\ m.pins[p].port = c.pins[p].port
        /\ m.pins[p].bit = c.pins[p].bit /\ m.pins[p].const = c.pins[p].const
        /\ m.pins[p].net = c.pins[p].net /\ m.pins[p].idx = c.pins[p].idx
  <2> SUFFICES ASSUME NEW p \in DOMAIN c.pins
               PROVE /\ (m.pins[p].valid <=> c.pins[p].valid /\ p \notin P) /\ m.pins[p].port = c.pins[p].port
                     /\ m.pins[p].bit = c.pins[p].bit /\ m.pins[p].const = c.pins[p].const
                     /\ m.pins[p].net = c.pins[p].net /\ m.pins[p].idx = c.pins[p].idx
    OBVIOUS
  <2>1. m.pins[p] = IF p \in P THEN Invalidate(c.pins[p]) ELSE c.pins[p]
    BY DEF PinsGone
  <2>2. CASE p \in P
    <3>1. m.pins[p] = Invalidate(c.pins[p]) /\ c.pins[p] \in PinRecs
      BY <2>1, <2>2, <1>2
    <3> QED BY <3>1, <2>2, InvalidateFacts
  <2>3. CASE p \notin P
    BY <2>1, <2>3, <1>2
  <2> QED BY <2>2, <2>3
<1>4. SameShape(c, m)
  BY <1>3 DEF SameShape, PinsGone
<1>5. InRange(m)
  BY <1>1, <1>3 DEF InRange, PinsGone
<1> QED BY <1>3, <1>4, <1>5 DEF Typed, PinsGone

\* It is good, if those pins were on no net.
LEMMA PinsGoneGood ==
  ASSUME NEW c, Typed(c), Refs(c), NEW P, NEW m, PinsGone(c, P, m),
         \A p \in P \cap DOMAIN c.pins : c.pins[p].net = 0
  PROVE  Refs(m)
<1>1. c \in Netlists /\ InRange(c)
  BY DEF Typed
<1>2. /\ Typed(m) /\ SameShape(c, m)
      /\ \A p \in DOMAIN c.pins :
            /\ m.pins[p].net = c.pins[p].net /\ m.pins[p].idx = c.pins[p].idx
            /\ (m.pins[p].valid <=> c.pins[p].valid /\ p \notin P)
  BY PinsGoneTyped
<1>3. Structure(m) /\ \A p \in DOMAIN c.pins : IsSink(m, p) = IsSink(c, p)
  BY <1>2, ShapeKeepsStructure DEF Refs
<1>4. Owned(m)
  BY <1>1, <1>2 DEF Refs, Owned, SameShape, PinsGone, InRange
<1>5. Netted(m)
  <2>1. \A k \in DOMAIN m.nets : m.nets[k].valid =>
          /\ Len(m.nets[k].pins) >= 1 /\ Single(m.nets[k].pins)
          /\ \A i \in DOMAIN m.nets[k].pins : PlaceOK(m, k, i)
    <3> SUFFICES ASSUME NEW k \in DOMAIN m.nets, m.nets[k].valid
                 PROVE  /\ Len(m.nets[k].pins) >= 1 /\ Single(m.nets[k].pins)
                        /\ \A i \in DOMAIN m.nets[k].pins : PlaceOK(m, k, i)
      OBVIOUS
    <3>1. m.nets[k] = c.nets[k] /\ k \in DOMAIN c.nets /\ k # 0
      BY Zenon, <1>1, ZeroIsNoId DEF PinsGone
    <3>2. ASSUME NEW i \in DOMAIN m.nets[k].pins PROVE PlaceOK(m, k, i)
      <4>1. PlaceOK(c, k, i)
        BY Zenon, <3>1 DEF Refs, Netted
      <4> QED BY <4>1, <3>1, <1>2, <1>3 DEF PlaceOK, PinsGone
    <3> QED BY <3>1, <3>2 DEF Refs, Netted
  <2>2. \A p \in DOMAIN m.pins : m.pins[p].valid => PinOK(m, p)
    BY <1>2 DEF Refs, Netted, PinOK, PinsGone
  <2> QED BY <2>1, <2>2 DEF Netted
<1>6. BlocksNamed(m) /\ NetsNamed(m)
  BY DEF Refs, BlocksNamed, NetsNamed, PinsGone
<1>7. Indexed(m)
  BY <1>1, <1>2 DEF Refs, Indexed, IndicesAgree, PinsGone, InRange, Valid
<1> QED BY <1>3, <1>4, <1>5, <1>6, <1>7 DEF Refs

\* m is c with the ports Q marked removed.
PortsGone(c, Q, m) ==
  /\ m \in Netlists
  /\ m.blocks = c.blocks /\ m.pins = c.pins /\ m.nets = c.nets
  /\ m.blockOf = c.blockOf /\ m.netOf = c.netOf
  /\ m.error = c.error /\ (m.dirty <=> c.dirty \/ Q # {})
  /\ DOMAIN m.ports = DOMAIN c.ports
  /\ \A q \in DOMAIN c.ports : m.ports[q] = IF q \in Q THEN Invalidate(c.ports[q]) ELSE c.ports[q]

\* Marking ports removed.
LEMMA InvalidPorts ==
  ASSUME NEW c \in Netlists, NEW Q
  PROVE  PortsGone(c, Q, [c EXCEPT !.ports = Update(@, Q, Invalidate), !.dirty = @ \/ Q # {}])
<1> DEFINE f == [q \in DOMAIN c.ports |-> IF q \in Q THEN Invalidate(c.ports[q]) ELSE c.ports[q]]
           m == [c EXCEPT !.ports = Update(@, Q, Invalidate), !.dirty = @ \/ Q # {}]
<1>1. f \in [1..Len(c.ports) -> PortRecs] /\ Len(c.ports) \in Nat
  <2>1. \A q \in DOMAIN c.ports : c.ports[q] \in PortRecs /\ Invalidate(c.ports[q]) \in PortRecs
    BY Shape, InvalidateFacts
  <2> QED BY <2>1, Shape
<1>2. DOMAIN f = DOMAIN c.ports /\ \A q \in DOMAIN c.ports : f[q] = IF q \in Q THEN Invalidate(c.ports[q]) ELSE c.ports[q]
  OBVIOUS
<1>3. Update(c.ports, Q, Invalidate) = SubSeq(f, 1, Len(c.ports))
  BY DEF Update
<1> HIDE DEF f
<1>4. Update(c.ports, Q, Invalidate) = f /\ f \in Seq(PortRecs)
  BY <1>1, <1>3, WholeSeq
<1>5. m = [c EXCEPT !.ports = f, !.dirty = @ \/ Q # {}]
  BY <1>4
<1> HIDE DEF m
<1>6. /\ m \in Netlists /\ m.ports = f /\ m.blocks = c.blocks /\ m.pins = c.pins /\ m.nets = c.nets
      /\ m.blockOf = c.blockOf /\ m.netOf = c.netOf /\ m.error = c.error
      /\ (m.dirty <=> c.dirty \/ Q # {})
  BY Zenon, <1>4, <1>5 DEF Netlists
<1>7. PortsGone(c, Q, m)
  BY <1>2, <1>6 DEF PortsGone
<1> QED BY <1>7 DEF m

\* A netlist whose ports are marked removed has its type and shape.
LEMMA PortsGoneTyped ==
  ASSUME NEW c, Typed(c), NEW Q, NEW m, PortsGone(c, Q, m)
  PROVE  /\ Typed(m) /\ SameShape(c, m)
         /\ \A q \in DOMAIN c.ports : (m.ports[q].valid <=> c.ports[q].valid /\ q \notin Q)
<1>1. c \in Netlists /\ InRange(c)
  BY DEF Typed
<1>2. \A q \in DOMAIN c.ports : c.ports[q] \in PortRecs /\ c.ports[q].valid \in BOOLEAN
  BY <1>1, Shape, FieldTypes
<1>3. \A q \in DOMAIN c.ports :
        /\ (m.ports[q].valid <=> c.ports[q].valid /\ q \notin Q) /\ m.ports[q].block = c.ports[q].block
        /\ m.ports[q].name = c.ports[q].name /\ m.ports[q].pins = c.ports[q].pins
  <2> SUFFICES ASSUME NEW q \in DOMAIN c.ports
               PROVE /\ (m.ports[q].valid <=> c.ports[q].valid /\ q \notin Q) /\ m.ports[q].block = c.ports[q].block
                     /\ m.ports[q].name = c.ports[q].name /\ m.ports[q].pins = c.ports[q].pins
    OBVIOUS
  <2>1. m.ports[q] = IF q \in Q THEN Invalidate(c.ports[q]) ELSE c.ports[q]
    BY DEF PortsGone
  <2>2. CASE q \in Q
    <3>1. m.ports[q] = Invalidate(c.ports[q]) /\ c.ports[q] \in PortRecs
      BY <2>1, <2>2, <1>2
    <3> QED BY <3>1, <2>2, InvalidateFacts
  <2>3. CASE q \notin Q
    BY <2>1, <2>3, <1>2
  <2> QED BY <2>2, <2>3
<1>4. SameShape(c, m)
  BY <1>3 DEF SameShape, PortsGone
<1>5. InRange(m)
  BY <1>1, <1>3 DEF InRange, PortsGone
<1> QED BY <1>3, <1>4, <1>5 DEF Typed, PortsGone

\* The connections of a netlist whose nets and pins are those of another one.
LEMMA NettedKept ==
  ASSUME NEW c, NEW m, Typed(c), Netted(c), m.nets = c.nets, m.pins = c.pins,
         \A p \in DOMAIN c.pins : IsSink(m, p) = IsSink(c, p)
  PROVE  Netted(m)
<1>1. \A k \in DOMAIN m.nets : m.nets[k].valid =>
        /\ Len(m.nets[k].pins) >= 1 /\ Single(m.nets[k].pins)
        /\ \A i \in DOMAIN m.nets[k].pins : PlaceOK(m, k, i)
  BY DEF Netted, PlaceOK
<1>2. \A p \in DOMAIN m.pins : m.pins[p].valid => PinOK(m, p)
  BY DEF Netted, PinOK
<1> QED BY <1>1, <1>2 DEF Netted

\* It is good, if those ports had no valid pin left.
LEMMA PortsGoneGood ==
  ASSUME NEW c, Typed(c), Refs(c), NEW Q, NEW m, PortsGone(c, Q, m),
         \A p \in DOMAIN c.pins : c.pins[p].port \in Q => ~c.pins[p].valid
  PROVE  Refs(m)
<1>1. c \in Netlists /\ InRange(c)
  BY DEF Typed
<1>2. /\ Typed(m) /\ SameShape(c, m)
      /\ \A q \in DOMAIN c.ports : (m.ports[q].valid <=> c.ports[q].valid /\ q \notin Q)
  BY PortsGoneTyped
<1>3. Structure(m) /\ \A p \in DOMAIN c.pins : IsSink(m, p) = IsSink(c, p)
  BY <1>2, ShapeKeepsStructure DEF Refs
<1>4. Owned(m)
  BY <1>1, <1>2 DEF Refs, Owned, SameShape, PortsGone, InRange
<1>5. Netted(m)
  BY <1>3, NettedKept DEF Refs, PortsGone
<1>6. BlocksNamed(m) /\ NetsNamed(m)
  BY DEF Refs, BlocksNamed, NetsNamed, PortsGone
<1>7. Indexed(m)
  <2>1. c.dirty \in BOOLEAN
    BY <1>1, Shape
  <2>2. ~m.dirty => ~c.dirty
    BY <2>1 DEF PortsGone
  <2> QED BY <2>2 DEF Refs, Indexed, IndicesAgree, PortsGone, Valid
<1> QED BY <1>3, <1>4, <1>5, <1>6, <1>7 DEF Refs

\* The nets of n once the pins P are off them
NetsCut(n, P, m) ==
  /\ DOMAIN m.nets = DOMAIN n.nets
  /\ \A k \in DOMAIN n.nets :
        /\ m.nets[k].valid = n.nets[k].valid /\ m.nets[k].name = n.nets[k].name
        /\ IF n.nets[k].valid THEN Shortened(n.nets[k].pins, m.nets[k].pins, P)
           ELSE m.nets[k].pins = n.nets[k].pins

\* The pins P are removed and off their nets, the others as they were.
PinsRemoved(n, P, m) ==
  /\ DOMAIN m.pins = DOMAIN n.pins
  /\ \A p \in DOMAIN n.pins :
        IF p \in P THEN ~m.pins[p].valid /\ m.pins[p].net = 0 /\ m.pins[p].idx = -1
        ELSE m.pins[p] = n.pins[p]

\* remove_pin() for each of the valid pins P
LEMMA RemovePinsEffect ==
  ASSUME NEW n, Typed(n), Refs(n), n.error = "none",
         NEW P \in SUBSET DOMAIN n.pins, \A p \in P : n.pins[p].valid,
         NEW m, m = RemovePins(n, P)
  PROVE  /\ Typed(m) /\ Refs(m) /\ m.error = "none" /\ SameShape(n, m)
         /\ m.blocks = n.blocks /\ m.ports = n.ports
         /\ m.blockOf = n.blockOf /\ m.netOf = n.netOf
         /\ (m.dirty <=> n.dirty \/ P # {})
         /\ PinsRemoved(n, P, m) /\ NetsCut(n, P, m)
<1> DEFINE c == Disconnect(n, P)
<1>1. Cut(n, P, c)
  BY DisconnectCuts DEF Refs
<1> HIDE DEF c
<1>2. Typed(c) /\ Refs(c) /\ SameShape(n, c) /\ c \in Netlists /\ n \in Netlists
  BY <1>1, CutIsGood DEF Typed
<1>3. c.error = "none"
  BY <1>1 DEF Cut
<1>4. m = [c EXCEPT !.pins = Update(@, P, Invalidate)]
  BY <1>3 DEF RemovePins, c
<1>5. PinsGone(c, P, m)
  BY <1>2, <1>4, InvalidPins
<1>6. \A p \in DOMAIN n.pins : c.pins[p] = IF p \in P THEN Unlink(n.pins[p]) ELSE n.pins[p]
  BY <1>1 DEF Cut
<1>7. \A p \in DOMAIN n.pins : n.pins[p] \in PinRecs
  BY <1>2, Shape
<1>8. \A p \in P : c.pins[p].net = 0 /\ c.pins[p].idx = -1
  BY <1>6, <1>7, UnlinkFacts
<1>9. Typed(m) /\ SameShape(c, m) /\ Refs(m)
  BY <1>2, <1>5, <1>8, PinsGoneTyped, PinsGoneGood
<1>10. SameShape(n, m)
  BY <1>2, <1>9, ShapeTransitive
<1>11. DOMAIN c.pins = DOMAIN n.pins
  BY <1>1 DEF Cut
<1>12. PinsRemoved(n, P, m)
  <2>1. \A p \in DOMAIN c.pins : /\ m.pins[p].net = c.pins[p].net /\ m.pins[p].idx = c.pins[p].idx
                                 /\ (m.pins[p].valid <=> c.pins[p].valid /\ p \notin P)
    BY <1>2, <1>5, PinsGoneTyped
  <2>2. \A p \in DOMAIN c.pins : p \notin P => m.pins[p] = c.pins[p]
    BY <1>5 DEF PinsGone
  <2>3. DOMAIN m.pins = DOMAIN c.pins
    BY <1>5 DEF PinsGone
  <2>4. \A p \in P : ~m.pins[p].valid /\ m.pins[p].net = 0 /\ m.pins[p].idx = -1
    BY <2>1, <1>8, <1>11
  <2>5. \A p \in DOMAIN n.pins : p \notin P => m.pins[p] = n.pins[p]
    BY <2>2, <1>6, <1>11
  <2> QED BY <2>3, <2>4, <2>5, <1>11 DEF PinsRemoved
<1>13. NetsCut(n, P, m)
  BY <1>1, <1>5 DEF NetsCut, PinsGone, Cut
<1> QED BY <1>1, <1>3, <1>5, <1>9, <1>10, <1>12, <1>13 DEF PinsGone, Cut

\* The valid pins of ports.
PinsOf(n, Q) == {p \in Valid(n.pins) : n.pins[p].port \in Q}

\* remove_port() for each of the ports Q
LEMMA RemovePortsEffect ==
  ASSUME NEW n, Typed(n), Refs(n), n.error = "none",
         NEW Q \in SUBSET DOMAIN n.ports, \A q \in Q : n.ports[q].valid,
         NEW m, m = RemovePorts(n, Q)
  PROVE  /\ Typed(m) /\ Refs(m) /\ m.error = "none" /\ SameShape(n, m)
         /\ m.blocks = n.blocks
         /\ \A q \in DOMAIN n.ports : (m.ports[q].valid <=> n.ports[q].valid /\ q \notin Q)
         /\ m.blockOf = n.blockOf /\ m.netOf = n.netOf
         /\ (m.dirty <=> n.dirty \/ PinsOf(n, Q) # {} \/ Q # {})
         /\ PinsRemoved(n, PinsOf(n, Q), m) /\ NetsCut(n, PinsOf(n, Q), m)
<1> DEFINE P == PinsOf(n, Q)
           c == RemovePins(n, P)
<1>1. P \in SUBSET DOMAIN n.pins /\ \A p \in P : n.pins[p].valid /\ n.pins[p].port \in Q
  BY DEF PinsOf, Valid
<1>2. \A p \in DOMAIN n.pins : n.pins[p].valid /\ n.pins[p].port \in Q => p \in P
  BY DEF PinsOf, Valid
<1>3. c = RemovePins(n, P)
  OBVIOUS
<1>p. P = {p \in Valid(n.pins) : n.pins[p].port \in Q}
  BY DEF PinsOf
<1> HIDE DEF P, c
<1>4. /\ Typed(c) /\ Refs(c) /\ c.error = "none" /\ SameShape(n, c)
      /\ c.blocks = n.blocks /\ c.ports = n.ports
      /\ c.blockOf = n.blockOf /\ c.netOf = n.netOf
      /\ (c.dirty <=> n.dirty \/ P # {})
      /\ PinsRemoved(n, P, c) /\ NetsCut(n, P, c)
  BY <1>1, <1>3, RemovePinsEffect
<1>5. m = [c EXCEPT !.ports = Update(@, Q, Invalidate), !.dirty = @ \/ Q # {}]
  BY <1>3, <1>p DEF RemovePorts
<1>6. PortsGone(c, Q, m)
  <2>1. c \in Netlists BY <1>4 DEF Typed
  <2>2. PortsGone(c, Q, [c EXCEPT !.ports = Update(@, Q, Invalidate), !.dirty = @ \/ Q # {}])
    BY Zenon, <2>1, InvalidPorts
  <2> QED BY <1>5, <2>2
<1>7. \A p \in DOMAIN c.pins : c.pins[p].port \in Q => ~c.pins[p].valid
  <2> SUFFICES ASSUME NEW p \in DOMAIN c.pins, c.pins[p].port \in Q, c.pins[p].valid
               PROVE FALSE
    OBVIOUS
  <2>1. p \in DOMAIN n.pins /\ p \notin P /\ c.pins[p] = n.pins[p]
    BY <1>4 DEF PinsRemoved
  <2> QED BY <2>1, <1>2
<1>8. Typed(m) /\ SameShape(c, m) /\ Refs(m)
      /\ \A q \in DOMAIN c.ports : (m.ports[q].valid <=> c.ports[q].valid /\ q \notin Q)
  BY <1>4, <1>6, <1>7, PortsGoneTyped, PortsGoneGood
<1>9. SameShape(n, m)
  BY <1>4, <1>8, ShapeTransitive
<1>10. PinsRemoved(n, P, m) /\ NetsCut(n, P, m)
  BY <1>4, <1>6 DEF PinsRemoved, NetsCut, PortsGone
<1>11. m.error = "none" /\ m.blocks = n.blocks /\ m.blockOf = n.blockOf /\ m.netOf = n.netOf
       /\ (m.dirty <=> n.dirty \/ P # {} \/ Q # {})
  BY <1>4, <1>6 DEF PortsGone
<1> QED BY <1>4, <1>8, <1>9, <1>10, <1>11 DEF P

\* The valid pins of blocks.
PinsOfBlocks(n, B) == {p \in Valid(n.pins) : PinBlock(n, p) \in B}

\* What remove_block() leaves when it is called for each of the blocks B.
BlocksRemoved(n, B, m) ==
  /\ SameShape(n, m)
  /\ \A b \in DOMAIN n.blocks : /\ (m.blocks[b].valid <=> n.blocks[b].valid /\ b \notin B)
                                /\ m.blocks[b].name = n.blocks[b].name
  /\ \A q \in DOMAIN n.ports : (m.ports[q].valid <=> n.ports[q].valid /\ n.ports[q].block \notin B)
  /\ PinsRemoved(n, PinsOfBlocks(n, B), m)
  /\ NetsCut(n, PinsOfBlocks(n, B), m)
  /\ m.netOf = n.netOf
  /\ \A x \in Name : m.blockOf[x] = IF \E b \in B : n.blocks[b].name = x THEN 0 ELSE n.blockOf[x]
  /\ (m.dirty <=> n.dirty \/ B # {})

\* remove_block() for each of the blocks B: it removes their ports and pins, and
\* fails only on a block one of whose ports was removed before.
LEMMA RemoveBlocksEffect ==
  ASSUME NEW n, Typed(n), Refs(n), n.error = "none",
         NEW B \in SUBSET DOMAIN n.blocks, \A b \in B : n.blocks[b].valid,
         NEW m, m = RemoveBlocks(n, B)
  PROVE  /\ Good(m)
         /\ \/ m.error = "none" /\ BlocksRemoved(n, B, m)
            \/ m.error # "none" /\ \E q \in DOMAIN n.ports : ~n.ports[q].valid /\ n.ports[q].block \in B
<1> DEFINE Q == UNION {n.blocks[b].ports : b \in B}
           c == RemovePorts(n, Q)
           f == [b \in DOMAIN c.blocks |-> IF b \in B THEN Invalidate(c.blocks[b]) ELSE c.blocks[b]]
           g == [x \in Name |-> IF \E a \in B : n.blocks[a].name = x THEN 0 ELSE c.blockOf[x]]
<1>1. n \in Netlists /\ InRange(n)
  BY DEF Typed
<1>2. Q \in SUBSET DOMAIN n.ports
  BY <1>1 DEF InRange
<1>3. \A q \in DOMAIN n.ports : q \in Q <=> n.ports[q].block \in B
  BY <1>1 DEF Refs, Structure, InRange
<1>4. Typed(c) /\ SameShape(n, c) /\ c.blocks = n.blocks /\ c.blockOf = n.blockOf
      /\ IF \E q \in Q : ~n.ports[q].valid THEN c.error # "none"
         ELSE /\ Refs(c) /\ c.error = "none"
              /\ \A q \in DOMAIN n.ports : (c.ports[q].valid <=> n.ports[q].valid /\ q \notin Q)
              /\ c.netOf = n.netOf
              /\ (c.dirty <=> n.dirty \/ PinsOf(n, Q) # {} \/ Q # {})
              /\ PinsRemoved(n, PinsOf(n, Q), c) /\ NetsCut(n, PinsOf(n, Q), c)
  <2>1. CASE \E q \in Q : ~n.ports[q].valid
    <3>1. c = Fail(n, "assert")
      BY <2>1 DEF RemovePorts
    <3>2. c = [n EXCEPT !.error = "assert"]
      BY <3>1 DEF Fail
    <3>3. Typed(c) /\ c.error = "assert"
      BY <3>1, FailIsGood DEF Good
    <3> HIDE DEF c
    <3>4. c.blocks = n.blocks /\ c.blockOf = n.blockOf /\ c.ports = n.ports /\ c.pins = n.pins
      BY <3>2, <1>1 DEF Netlists
    <3> QED BY <2>1, <3>3, <3>4 DEF SameShape
  <2>2. CASE ~(\E q \in Q : ~n.ports[q].valid)
    <3>1. \A q \in Q : n.ports[q].valid BY <2>2
    <3>2. c = RemovePorts(n, Q) OBVIOUS
    <3> HIDE DEF c, Q
    <3> QED BY <3>1, <3>2, <1>2, <2>2, RemovePortsEffect
  <2> QED BY Zenon, <2>1, <2>2
<1>5. m = [c EXCEPT !.blocks = Update(@, B, Invalidate), !.blockOf = g, !.dirty = @ \/ B # {}]
  BY DEF RemoveBlocks
<1>6. c \in Netlists /\ InRange(c)
  BY <1>4 DEF Typed
<1>7. f \in [1..Len(c.blocks) -> BlockRecs] /\ Len(c.blocks) \in Nat
      /\ \A b \in DOMAIN c.blocks : c.blocks[b] \in BlockRecs /\ c.blocks[b].valid \in BOOLEAN
  <2>1. \A b \in DOMAIN c.blocks : /\ c.blocks[b] \in BlockRecs /\ Invalidate(c.blocks[b]) \in BlockRecs
                                   /\ c.blocks[b].valid \in BOOLEAN
    BY <1>6, Shape, FieldTypes, InvalidateFacts
  <2> HIDE DEF c
  <2> QED BY <1>6, <2>1, Shape
<1>8. g \in [Name -> Nat]
  <2> HIDE DEF c
  <2> QED BY <1>6, Shape
<1>9. Update(c.blocks, B, Invalidate) = SubSeq(f, 1, Len(c.blocks))
  BY DEF Update
<1> HIDE DEF c, Q
<1>10. /\ DOMAIN f = DOMAIN c.blocks
       /\ \A b \in DOMAIN c.blocks : f[b] = IF b \in B THEN Invalidate(c.blocks[b]) ELSE c.blocks[b]
       /\ \A x \in Name : g[x] = IF \E a \in B : n.blocks[a].name = x THEN 0 ELSE c.blockOf[x]
  OBVIOUS
<1> HIDE DEF f, g
<1>11. Update(c.blocks, B, Invalidate) = f /\ f \in Seq(BlockRecs)
  BY <1>7, <1>9, WholeSeq
<1>12. m = [c EXCEPT !.blocks = f, !.blockOf = g, !.dirty = @ \/ B # {}]
  BY <1>5, <1>11
<1>13. /\ m \in Netlists /\ m.blocks = f /\ m.blockOf = g /\ (m.dirty <=> c.dirty \/ B # {})
       /\ m.ports = c.ports /\ m.pins = c.pins /\ m.nets = c.nets
       /\ m.netOf = c.netOf /\ m.error = c.error
  BY Zenon, <1>6, <1>8, <1>11, <1>12 DEF Netlists
<1>14. \A b \in DOMAIN c.blocks :
         /\ (m.blocks[b].valid <=> c.blocks[b].valid /\ b \notin B)
         /\ m.blocks[b].name = c.blocks[b].name /\ m.blocks[b].model = c.blocks[b].model
         /\ m.blocks[b].table = c.blocks[b].table /\ m.blocks[b].ports = c.blocks[b].ports
         /\ m.blocks[b].pins = c.blocks[b].pins
  <2> SUFFICES ASSUME NEW b \in DOMAIN c.blocks
               PROVE  /\ (m.blocks[b].valid <=> c.blocks[b].valid /\ b \notin B)
                      /\ m.blocks[b].name = c.blocks[b].name /\ m.blocks[b].model = c.blocks[b].model
                      /\ m.blocks[b].table = c.blocks[b].table /\ m.blocks[b].ports = c.blocks[b].ports
                      /\ m.blocks[b].pins = c.blocks[b].pins
    OBVIOUS
  <2>1. CASE b \in B
    <3>1. m.blocks[b] = Invalidate(c.blocks[b]) /\ c.blocks[b] \in BlockRecs
      BY <1>7, <1>10, <1>13, <2>1
    <3>2. \A r \in BlockRecs :
            /\ Invalidate(r).valid = FALSE
            /\ Invalidate(r).name = r.name /\ Invalidate(r).model = r.model
            /\ Invalidate(r).table = r.table /\ Invalidate(r).ports = r.ports
            /\ Invalidate(r).pins = r.pins
      BY InvalidateFacts
    <3> QED BY <3>1, <3>2, <2>1
  <2>2. CASE b \notin B
    BY <1>7, <1>10, <1>13, <2>2
  <2> QED BY <2>1, <2>2
<1>15. SameShape(c, m)
  BY <1>10, <1>13, <1>14 DEF SameShape
<1>16. SameShape(n, m)
  BY <1>4, <1>15, ShapeTransitive
<1>17. Typed(m)
  <2>1. InRange(m)
    BY <1>6, <1>10, <1>13, <1>14 DEF InRange
  <2> QED BY <2>1, <1>13 DEF Typed
<1>18. CASE \E q \in Q : ~n.ports[q].valid
  <2>1. m.error # "none" BY <1>4, <1>13, <1>18
  <2>2. \E q \in DOMAIN n.ports : ~n.ports[q].valid /\ n.ports[q].block \in B
    BY <1>18, <1>2, <1>3
  <2> QED BY <2>1, <2>2, <1>17 DEF Good
<1>19. CASE ~(\E q \in Q : ~n.ports[q].valid)
  <2>1. /\ Refs(c) /\ c.error = "none"
        /\ \A q \in DOMAIN n.ports : (c.ports[q].valid <=> n.ports[q].valid /\ q \notin Q)
        /\ c.netOf = n.netOf
        /\ (c.dirty <=> n.dirty \/ PinsOf(n, Q) # {} \/ Q # {})
        /\ PinsRemoved(n, PinsOf(n, Q), c) /\ NetsCut(n, PinsOf(n, Q), c)
    BY <1>4, <1>19
  <2>2. PinsOf(n, Q) = PinsOfBlocks(n, B)
    <3>1. \A p \in DOMAIN n.pins : n.pins[p].port \in Q <=> PinBlock(n, p) \in B
      BY <1>1, <1>3 DEF InRange, PinBlock
    <3> QED BY <3>1 DEF PinsOf, PinsOfBlocks, Valid
  <2>3. (m.dirty <=> n.dirty \/ B # {})
    <3>1. Q # {} => B # {}
      BY DEF Q
    <3>2. PinsOf(n, Q) # {} => Q # {}
      BY DEF PinsOf
    <3> QED BY <3>1, <3>2, <2>1, <1>13
  <2>4. \A q \in DOMAIN n.ports : (m.ports[q].valid <=> n.ports[q].valid /\ n.ports[q].block \notin B)
    BY <2>1, <1>3, <1>13
  <2>5. BlocksRemoved(n, B, m)
    <3>1. \A b \in DOMAIN n.blocks : /\ (m.blocks[b].valid <=> n.blocks[b].valid /\ b \notin B)
                                     /\ m.blocks[b].name = n.blocks[b].name
      BY <1>4, <1>14
    <3>2. PinsRemoved(n, PinsOfBlocks(n, B), m) /\ NetsCut(n, PinsOfBlocks(n, B), m)
      BY <2>1, <2>2, <1>13 DEF PinsRemoved, NetsCut
    <3>3. \A x \in Name : m.blockOf[x] = IF \E b \in B : n.blocks[b].name = x THEN 0 ELSE n.blockOf[x]
      BY <1>4, <1>10, <1>13
    <3> QED BY <3>1, <3>2, <3>3, <2>1, <2>3, <2>4, <1>13, <1>16 DEF BlocksRemoved
  <2>6. Refs(m)
    <3>1. Structure(m) /\ \A p \in DOMAIN c.pins : IsSink(m, p) = IsSink(c, p)
      BY <1>4, <1>15, <2>1, ShapeKeepsStructure DEF Refs
    <3>2. Owned(m)
      <4>1. \A q \in DOMAIN m.ports : m.ports[q].valid => m.blocks[m.ports[q].block].valid
        BY <1>1, <1>4, <1>13, <1>14, <2>1, <2>4 DEF SameShape, Refs, Owned, InRange
      <4>2. \A p \in DOMAIN m.pins : m.pins[p].valid => m.ports[m.pins[p].port].valid
        BY <2>1, <1>13 DEF Refs, Owned
      <4> QED BY <4>1, <4>2 DEF Owned
    <3>3. Netted(m)
      BY <1>4, <1>13, <2>1, <3>1, NettedKept DEF Refs
    <3>4. NetsNamed(m)
      BY <2>1, <1>13 DEF Refs, NetsNamed
    <3>5. BlocksNamed(m)
      <4>1. BlocksNamed(c) BY <2>1 DEF Refs
      <4>2. ASSUME NEW x \in Name, m.blockOf[x] # 0
            PROVE  m.blocks[m.blockOf[x]].valid /\ m.blocks[m.blockOf[x]].name = x
        <5>1. m.blockOf[x] = c.blockOf[x] /\ ~\E b \in B : n.blocks[b].name = x
          BY <4>2, <1>10, <1>13
        <5>2. c.blockOf[x] \in DOMAIN c.blocks
          BY <1>6, <5>1, <4>2 DEF InRange
        <5>3. c.blocks[c.blockOf[x]].valid /\ c.blocks[c.blockOf[x]].name = x
          BY <4>1, <5>1, <4>2 DEF BlocksNamed
        <5>4. c.blockOf[x] \notin B
          BY <5>1, <5>3, <1>4
        <5> QED BY <5>1, <5>2, <5>3, <5>4, <1>14
      <4>3. ASSUME NEW b \in DOMAIN m.blocks, m.blocks[b].valid
            PROVE  m.blockOf[m.blocks[b].name] = b
        <5>1. b \in DOMAIN c.blocks /\ c.blocks[b].valid /\ b \notin B /\ m.blocks[b].name = c.blocks[b].name
          BY <4>3, <1>10, <1>13, <1>14
        <5>2. c.blockOf[c.blocks[b].name] = b
          BY <5>1, <4>1 DEF BlocksNamed
        <5>3. c.blocks[b].name \in Name
          BY <5>1, <1>6, FieldTypes
        <5>4. ASSUME NEW a \in B, n.blocks[a].name = c.blocks[b].name PROVE FALSE
          <6>1. a \in DOMAIN c.blocks /\ c.blocks[a].valid /\ c.blocks[a].name = c.blocks[b].name
            BY <5>4, <1>4
          <6>2. c.blockOf[c.blocks[a].name] = a
            BY <6>1, <4>1 DEF BlocksNamed
          <6> QED BY <6>1, <6>2, <5>1, <5>2
        <5> QED BY <5>1, <5>2, <5>3, <5>4, <1>10, <1>13
      <4> QED BY <4>2, <4>3 DEF BlocksNamed
    <3>6. Indexed(m)
      <4>1. c.dirty \in BOOLEAN BY <1>6, Shape
      <4>2. ~m.dirty => ~c.dirty BY <4>1, <1>13
      <4> QED BY <4>2, <2>1, <1>13 DEF Refs, Indexed, IndicesAgree, Valid
    <3> QED BY <3>1, <3>2, <3>3, <3>4, <3>5, <3>6 DEF Refs
  <2> QED BY <2>1, <2>5, <2>6, <1>13, <1>17 DEF Good
<1> QED BY <1>18, <1>19

\* What remove_net() leaves when it is called for each of the nets N.
NetsRemoved(n, N, m) ==
  /\ m.blocks = n.blocks /\ m.ports = n.ports /\ m.blockOf = n.blockOf
  /\ DOMAIN m.pins = DOMAIN n.pins
  /\ \A p \in DOMAIN n.pins :
        IF n.pins[p].valid /\ n.pins[p].net # 0 /\ n.pins[p].net \in N
        THEN m.pins[p] = Unlink(n.pins[p])
        ELSE m.pins[p] = n.pins[p]
  /\ DOMAIN m.nets = DOMAIN n.nets
  /\ \A k \in DOMAIN n.nets :
        /\ (m.nets[k].valid <=> n.nets[k].valid /\ k \notin N)
        /\ m.nets[k].name = n.nets[k].name /\ m.nets[k].pins = n.nets[k].pins
  /\ \A x \in Name : m.netOf[x] = IF \E k \in N : n.nets[k].name = x THEN 0 ELSE n.netOf[x]
  /\ (m.dirty <=> n.dirty \/ N # {})

\* Taking pins off nets keeps the shape.
LEMMA UnlinkShape ==
  ASSUME NEW n, Typed(n), NEW m, m.blocks = n.blocks, m.ports = n.ports,
         DOMAIN m.pins = DOMAIN n.pins,
         \A p \in DOMAIN n.pins : m.pins[p] = n.pins[p] \/ m.pins[p] = Unlink(n.pins[p])
  PROVE  /\ SameShape(n, m)
         /\ \A p \in DOMAIN n.pins :
               m.pins[p].valid = n.pins[p].valid /\ m.pins[p].port = n.pins[p].port
<1>1. \A p \in DOMAIN n.pins : n.pins[p] \in PinRecs
  BY Shape DEF Typed
<1>2. \A p \in DOMAIN n.pins :
        /\ m.pins[p].valid = n.pins[p].valid /\ m.pins[p].port = n.pins[p].port
        /\ m.pins[p].bit = n.pins[p].bit /\ m.pins[p].const = n.pins[p].const
  BY <1>1, UnlinkFacts
<1> QED BY <1>2 DEF SameShape

\* remove_net() for each of the nets N
LEMMA RemoveNetsEffect ==
  ASSUME NEW n, Typed(n), Refs(n), n.error = "none",
         NEW N \in SUBSET DOMAIN n.nets, \A k \in N : n.nets[k].valid,
         NEW m, m = RemoveNets(n, N)
  PROVE  Good(m) /\ m.error = "none" /\ NetsRemoved(n, N, m) /\ SameShape(n, m)
<1> DEFINE S == UNION {ToSet(n.nets[k].pins) : k \in N}
           f == [p \in DOMAIN n.pins |-> IF p \in S THEN Unlink(n.pins[p]) ELSE n.pins[p]]
           g == [k \in DOMAIN n.nets |-> IF k \in N THEN Invalidate(n.nets[k]) ELSE n.nets[k]]
           h == [x \in Name |-> IF \E k \in N : n.nets[k].name = x THEN 0 ELSE n.netOf[x]]
<1>1. n \in Netlists /\ InRange(n)
  BY DEF Typed
<1>2. \A p \in DOMAIN n.pins : p \in S <=> n.pins[p].valid /\ n.pins[p].net # 0 /\ n.pins[p].net \in N
  <2> TAKE p \in DOMAIN n.pins
  <2>1. ASSUME p \in S PROVE n.pins[p].valid /\ n.pins[p].net # 0 /\ n.pins[p].net \in N
    <3>0. PICK k \in N : p \in ToSet(n.nets[k].pins)
      BY <2>1
    <3>1. PICK i \in DOMAIN n.nets[k].pins : n.nets[k].pins[i] = p
      BY <3>0 DEF ToSet
    <3>2. PlaceOK(n, k, i) BY DEF Refs, Netted
    <3>3. p # 0 /\ k # 0 BY <1>1, ZeroIsNoId
    <3> QED BY <3>1, <3>2, <3>3 DEF PlaceOK
  <2>2. ASSUME n.pins[p].valid, n.pins[p].net # 0, n.pins[p].net \in N PROVE p \in S
    <3>1. PinOK(n, p) BY Zenon, <2>2 DEF Refs, Netted
    <3>2. \E i \in DOMAIN n.nets[n.pins[p].net].pins : n.nets[n.pins[p].net].pins[i] = p
      BY Zenon, <3>1, <2>2 DEF PinOK
    <3> QED BY <3>2, <2>2 DEF ToSet
  <2> QED BY <2>1, <2>2
<1>3. f \in [1..Len(n.pins) -> PinRecs] /\ g \in [1..Len(n.nets) -> NetRecs]
  <2>1. \A p \in DOMAIN n.pins : n.pins[p] \in PinRecs /\ Unlink(n.pins[p]) \in PinRecs
    BY <1>1, Shape, UnlinkFacts
  <2>2. \A k \in DOMAIN n.nets : n.nets[k] \in NetRecs /\ Invalidate(n.nets[k]) \in NetRecs
    BY <1>1, Shape, InvalidateFacts
  <2> HIDE DEF S
  <2> QED BY <1>1, <2>1, <2>2, Shape
<1>4. h \in [Name -> Nat]
  BY <1>1, Shape
<1>5. Update(n.pins, S, Unlink) = SubSeq(f, 1, Len(n.pins)) /\ Update(n.nets, N, Invalidate) = SubSeq(g, 1, Len(n.nets))
  BY DEF Update
<1>6. /\ DOMAIN f = DOMAIN n.pins /\ DOMAIN g = DOMAIN n.nets
      /\ \A p \in DOMAIN n.pins : f[p] = IF p \in S THEN Unlink(n.pins[p]) ELSE n.pins[p]
      /\ \A k \in DOMAIN n.nets : g[k] = IF k \in N THEN Invalidate(n.nets[k]) ELSE n.nets[k]
      /\ \A x \in Name : h[x] = IF \E k \in N : n.nets[k].name = x THEN 0 ELSE n.netOf[x]
  <2> HIDE DEF S
  <2> QED OBVIOUS
<1>7. m = [n EXCEPT !.pins = Update(@, S, Unlink), !.nets = Update(@, N, Invalidate),
                    !.netOf = h, !.dirty = @ \/ N # {}]
  <2>1. ~(\E k \in N : ~ValidId(n.nets, k))
    BY DEF ValidId, Valid
  <2> QED BY <2>1 DEF RemoveNets
<1> HIDE DEF f, g, h, S
<1>8. /\ Update(n.pins, S, Unlink) = f /\ f \in Seq(PinRecs)
      /\ Update(n.nets, N, Invalidate) = g /\ g \in Seq(NetRecs)
  <2>1. Len(n.pins) \in Nat /\ Len(n.nets) \in Nat
    BY <1>1, Shape
  <2>2. SubSeq(f, 1, Len(n.pins)) = f /\ f \in Seq(PinRecs)
    BY <1>3, <2>1, WholeSeq
  <2>3. SubSeq(g, 1, Len(n.nets)) = g /\ g \in Seq(NetRecs)
    BY <1>3, <2>1, WholeSeq
  <2> QED BY <1>5, <2>2, <2>3
<1>9. m = [n EXCEPT !.pins = f, !.nets = g, !.netOf = h, !.dirty = @ \/ N # {}]
  BY <1>7, <1>8
<1>10. /\ m \in Netlists /\ m.pins = f /\ m.nets = g /\ m.netOf = h /\ (m.dirty <=> n.dirty \/ N # {})
       /\ m.blocks = n.blocks /\ m.ports = n.ports /\ m.blockOf = n.blockOf /\ m.error = n.error
  BY Zenon, <1>1, <1>4, <1>8, <1>9 DEF Netlists
<1>11. \A k \in DOMAIN n.nets :
         /\ (m.nets[k].valid <=> n.nets[k].valid /\ k \notin N)
         /\ m.nets[k].name = n.nets[k].name /\ m.nets[k].pins = n.nets[k].pins
         /\ k \notin N => m.nets[k] = n.nets[k]
  <2> TAKE k \in DOMAIN n.nets
  <2>1. CASE k \in N
    <3>1. m.nets[k] = Invalidate(n.nets[k]) /\ n.nets[k] \in NetRecs
      BY <1>1, <1>6, <1>10, <2>1, Shape
    <3> QED BY <3>1, <2>1, InvalidateFacts
  <2>2. CASE k \notin N
    BY <1>6, <1>10, <2>2
  <2> QED BY <2>1, <2>2
<1>12. \A p \in DOMAIN n.pins :
         IF n.pins[p].valid /\ n.pins[p].net # 0 /\ n.pins[p].net \in N
         THEN m.pins[p] = Unlink(n.pins[p]) ELSE m.pins[p] = n.pins[p]
  BY <1>2, <1>6, <1>10
<1>13. NetsRemoved(n, N, m)
  BY <1>6, <1>10, <1>11, <1>12 DEF NetsRemoved
<1>14. SameShape(n, m) /\ \A p \in DOMAIN n.pins :
          m.pins[p].valid = n.pins[p].valid /\ m.pins[p].port = n.pins[p].port
  BY <1>6, <1>10, <1>12, UnlinkShape
<1>15. \A p \in DOMAIN n.pins : n.pins[p] \in PinRecs
  BY <1>1, Shape
<1>16. \A p \in DOMAIN n.pins :
         m.pins[p].net = IF n.pins[p].valid /\ n.pins[p].net # 0 /\ n.pins[p].net \in N THEN 0 ELSE n.pins[p].net
  BY <1>12, <1>15, UnlinkFacts
<1>17. Typed(m)
  <2>1. \A p \in DOMAIN m.pins : /\ m.pins[p].port \in DOMAIN m.ports
                                 /\ m.pins[p].net # 0 => m.pins[p].net \in DOMAIN m.nets
    BY <1>1, <1>6, <1>10, <1>14, <1>16 DEF InRange
  <2>2. \A k \in DOMAIN m.nets : \A i \in DOMAIN m.nets[k].pins :
          m.nets[k].pins[i] # 0 => m.nets[k].pins[i] \in DOMAIN m.pins
    BY <1>1, <1>6, <1>10, <1>11 DEF InRange
  <2>3. /\ \A b \in DOMAIN m.blocks : /\ m.blocks[b].ports \subseteq DOMAIN m.ports
                                      /\ m.blocks[b].pins \subseteq DOMAIN m.pins
        /\ \A q \in DOMAIN m.ports :
              /\ m.ports[q].block \in DOMAIN m.blocks
              /\ \A i \in DOMAIN m.ports[q].pins : m.ports[q].pins[i] \in DOMAIN m.pins
    BY <1>1, <1>6, <1>10 DEF InRange
  <2>4. \A x \in Name : /\ m.blockOf[x] # 0 => m.blockOf[x] \in DOMAIN m.blocks
                        /\ m.netOf[x] # 0 => m.netOf[x] \in DOMAIN m.nets
    BY <1>1, <1>6, <1>10 DEF InRange
  <2>5. InRange(m) BY <2>1, <2>2, <2>3, <2>4 DEF InRange
  <2> QED BY <2>5, <1>10 DEF Typed
<1>18. Structure(m) /\ \A p \in DOMAIN n.pins : IsSink(m, p) = IsSink(n, p)
  BY <1>14, ShapeKeepsStructure DEF Refs
<1>19. Owned(m)
  BY <1>1, <1>6, <1>10, <1>14 DEF Refs, Owned
<1>20. Netted(m)
  <2>1. ASSUME NEW k \in DOMAIN m.nets, m.nets[k].valid
        PROVE  /\ Len(m.nets[k].pins) >= 1 /\ Single(m.nets[k].pins)
               /\ \A i \in DOMAIN m.nets[k].pins : PlaceOK(m, k, i)
    <3>1. k \in DOMAIN n.nets /\ n.nets[k].valid /\ k \notin N /\ m.nets[k] = n.nets[k] /\ k # 0
      BY <2>1, <1>1, <1>6, <1>10, <1>11, ZeroIsNoId
    <3>2. ASSUME NEW i \in DOMAIN m.nets[k].pins PROVE PlaceOK(m, k, i)
      <4>1. PlaceOK(n, k, i) BY <3>1 DEF Refs, Netted
      <4> QED BY <4>1, <3>1, <1>6, <1>10, <1>12, <1>18 DEF PlaceOK
    <3> QED BY <3>1, <3>2 DEF Refs, Netted
  <2>2. ASSUME NEW p \in DOMAIN m.pins, m.pins[p].valid PROVE PinOK(m, p)
    <3>1. p \in DOMAIN n.pins /\ n.pins[p].valid
      BY <2>2, <1>6, <1>10, <1>14
    <3>2. PinOK(n, p) BY <3>1 DEF Refs, Netted
    <3>3. CASE m.pins[p].net = 0
      BY Zenon, <3>3 DEF PinOK
    <3>4. CASE m.pins[p].net # 0
      <4>1. m.pins[p].net = n.pins[p].net /\ n.pins[p].net \notin N
        BY <3>1, <3>4, <1>16
      <4>2. n.pins[p].net \in DOMAIN n.nets
        BY <1>1, <3>1, <3>4, <4>1 DEF InRange
      <4>3. m.nets[n.pins[p].net] = n.nets[n.pins[p].net]
        BY <4>1, <4>2, <1>11
      <4> QED BY Zenon, <3>2, <3>4, <4>1, <4>3 DEF PinOK
    <3> QED BY <3>3, <3>4
  <2> QED BY <2>1, <2>2 DEF Netted
<1>21. BlocksNamed(m)
  BY <1>10 DEF Refs, BlocksNamed
<1>22. NetsNamed(m)
  <2>1. ASSUME NEW x \in Name, m.netOf[x] # 0
        PROVE  m.nets[m.netOf[x]].valid /\ m.nets[m.netOf[x]].name = x
    <3>1. m.netOf[x] = n.netOf[x] /\ ~\E k \in N : n.nets[k].name = x
      BY <2>1, <1>6, <1>10
    <3>2. n.netOf[x] \in DOMAIN n.nets /\ n.nets[n.netOf[x]].valid /\ n.nets[n.netOf[x]].name = x
      BY <3>1, <2>1, <1>1 DEF InRange, Refs, NetsNamed
    <3> QED BY <3>1, <3>2, <1>11
  <2>2. ASSUME NEW k \in DOMAIN m.nets, m.nets[k].valid
        PROVE  m.netOf[m.nets[k].name] = k
    <3>1. k \in DOMAIN n.nets /\ n.nets[k].valid /\ k \notin N /\ m.nets[k].name = n.nets[k].name
      BY <2>2, <1>6, <1>10, <1>11
    <3>2. n.netOf[n.nets[k].name] = k /\ n.nets[k].name \in Name
      BY <3>1, <1>1, FieldTypes DEF Refs, NetsNamed
    <3>3. ~\E j \in N : n.nets[j].name = n.nets[k].name
      BY <3>1, <3>2 DEF Refs, NetsNamed
    <3> QED BY <3>1, <3>2, <3>3, <1>6, <1>10
  <2> QED BY <2>1, <2>2 DEF NetsNamed
<1>23. Indexed(m)
  <2> SUFFICES ASSUME ~m.dirty PROVE IndicesAgree(m)
    BY DEF Indexed
  <2>1. N = {} /\ ~n.dirty
    BY <1>10
  <2>2. \A p \in DOMAIN n.pins : m.pins[p] = n.pins[p]
    BY <2>1, <1>12
  <2>3. \A k \in DOMAIN n.nets : m.nets[k] = n.nets[k]
    BY <2>1, <1>11
  <2>4. IndicesAgree(n)
    BY <2>1 DEF Refs, Indexed
  <2> QED BY <2>2, <2>3, <2>4, <1>1, <1>6, <1>10 DEF IndicesAgree, InRange, Valid
<1>24. m.error = "none"
  BY <1>10
<1> QED BY <1>13, <1>14, <1>17, <1>18, <1>19, <1>20, <1>21, <1>22, <1>23, <1>24 DEF Good, Refs

-----------------------------------------------------------------------------
(* Creating.                                                               *)

\* A sequence with one entry more.
LEMMA AppendFacts ==
  ASSUME NEW S, NEW s \in Seq(S), NEW e \in S
  PROVE  /\ Append(s, e) \in Seq(S) /\ Len(Append(s, e)) = Len(s) + 1
         /\ DOMAIN Append(s, e) = DOMAIN s \cup {Len(s) + 1}
         /\ Len(s) + 1 \notin DOMAIN s /\ Len(s) \in Nat /\ DOMAIN s = 1..Len(s)
         /\ \A i \in DOMAIN s : Append(s, e)[i] = s[i]
         /\ Append(s, e)[Len(s) + 1] = e
<1>1. Len(s) \in Nat /\ DOMAIN s = 1..Len(s)
  BY LenProperties
<1>2. /\ Append(s, e) \in Seq(S) /\ Len(Append(s, e)) = Len(s) + 1
      /\ \A i \in 1..Len(s) : Append(s, e)[i] = s[i]
      /\ Append(s, e)[Len(s) + 1] = e
  BY AppendProperties
<1>3. DOMAIN Append(s, e) = 1..Len(s) + 1
  BY <1>2, LenProperties
<1> QED BY <1>1, <1>2, <1>3

\* m is n with more of block b, and more nets perhaps: what was there stays.
Grown(n, m, b) ==
  /\ DOMAIN m.blocks = DOMAIN n.blocks
  /\ DOMAIN n.ports \subseteq DOMAIN m.ports
  /\ DOMAIN n.pins \subseteq DOMAIN m.pins
  /\ DOMAIN n.nets \subseteq DOMAIN m.nets
  /\ \A a \in DOMAIN n.blocks :
        /\ m.blocks[a].valid = n.blocks[a].valid /\ m.blocks[a].name = n.blocks[a].name
        /\ m.blocks[a].model = n.blocks[a].model /\ m.blocks[a].table = n.blocks[a].table
        /\ n.blocks[a].pins \subseteq m.blocks[a].pins
  /\ \A q \in DOMAIN n.ports :
        /\ m.ports[q].valid = n.ports[q].valid /\ m.ports[q].block = n.ports[q].block
        /\ m.ports[q].name = n.ports[q].name
  /\ \A q \in DOMAIN m.ports \ DOMAIN n.ports : m.ports[q].valid /\ m.ports[q].block = b
  /\ \A p \in DOMAIN n.pins : m.pins[p] = n.pins[p]
  /\ \A p \in DOMAIN m.pins \ DOMAIN n.pins :
        /\ m.pins[p].valid /\ PinBlock(m, p) = b
        /\ m.pins[p].net \in DOMAIN m.nets /\ m.nets[m.pins[p].net].valid
  /\ \A k \in DOMAIN n.nets : m.nets[k].valid = n.nets[k].valid /\ m.nets[k].name = n.nets[k].name
  /\ m.blockOf = n.blockOf
  /\ \A x \in Name : n.netOf[x] # 0 => m.netOf[x] = n.netOf[x]
  /\ m.error = n.error /\ m.dirty = n.dirty

\* A netlist is itself, grown by nothing.
LEMMA GrownByNothing ==
  ASSUME NEW n, NEW b
  PROVE  Grown(n, n, b)
BY DEF Grown

\* Growth of a block, twice.
LEMMA GrownTransitive ==
  ASSUME NEW n, NEW m, NEW l, NEW b, Typed(n), Typed(m), Typed(l), Grown(n, m, b), Grown(m, l, b)
  PROVE  Grown(n, l, b)
<1>1. InRange(m) /\ InRange(n) /\ InRange(l)
  BY DEF Typed
<1>2. /\ DOMAIN l.blocks = DOMAIN n.blocks
      /\ DOMAIN n.ports \subseteq DOMAIN l.ports
      /\ DOMAIN n.pins \subseteq DOMAIN l.pins
      /\ DOMAIN n.nets \subseteq DOMAIN l.nets
      /\ \A a \in DOMAIN n.blocks :
            /\ l.blocks[a].valid = n.blocks[a].valid /\ l.blocks[a].name = n.blocks[a].name
            /\ l.blocks[a].model = n.blocks[a].model /\ l.blocks[a].table = n.blocks[a].table
            /\ n.blocks[a].pins \subseteq l.blocks[a].pins
      /\ \A q \in DOMAIN n.ports :
            /\ l.ports[q].valid = n.ports[q].valid /\ l.ports[q].block = n.ports[q].block
            /\ l.ports[q].name = n.ports[q].name
      /\ \A q \in DOMAIN l.ports \ DOMAIN n.ports : l.ports[q].valid /\ l.ports[q].block = b
      /\ \A p \in DOMAIN n.pins : l.pins[p] = n.pins[p]
  BY DEF Grown
<1>3. \A p \in DOMAIN l.pins \ DOMAIN n.pins :
        /\ l.pins[p].valid /\ PinBlock(l, p) = b
        /\ l.pins[p].net \in DOMAIN l.nets /\ l.nets[l.pins[p].net].valid
  <2> TAKE p \in DOMAIN l.pins \ DOMAIN n.pins
  <2>1. CASE p \in DOMAIN m.pins
    <3>1. l.pins[p] = m.pins[p] /\ m.pins[p].valid /\ PinBlock(m, p) = b
          /\ m.pins[p].net \in DOMAIN m.nets /\ m.nets[m.pins[p].net].valid
      BY <2>1 DEF Grown
    <3>2. m.pins[p].port \in DOMAIN m.ports
      BY <1>1, <2>1 DEF InRange
    <3>3. PinBlock(l, p) = b
      BY <3>1, <3>2 DEF Grown, PinBlock
    <3> QED BY <3>1, <3>3 DEF Grown
  <2>2. CASE p \notin DOMAIN m.pins
    BY <2>2 DEF Grown
  <2> QED BY <2>1, <2>2
<1>4. /\ \A k \in DOMAIN n.nets : l.nets[k].valid = n.nets[k].valid /\ l.nets[k].name = n.nets[k].name
      /\ l.blockOf = n.blockOf
      /\ \A x \in Name : n.netOf[x] # 0 => l.netOf[x] = n.netOf[x]
      /\ l.error = n.error /\ l.dirty = n.dirty
  BY DEF Grown
<1> QED BY <1>2, <1>3, <1>4 DEF Grown

\* create_block()
LEMMA CreateBlockEffect ==
  ASSUME NEW n, Good(n), NEW name \in Name, NEW model \in Model, NEW table \in Table,
         NEW m, m = CreateBlock(n, name, model, table)
  PROVE  /\ Good(m)
         /\ m.error = "none" =>
               /\ n.error = "none"
               /\ m.blockOf[name] = Len(n.blocks) + 1
               /\ DOMAIN m.blocks = DOMAIN n.blocks \cup {Len(n.blocks) + 1}
               /\ Len(n.blocks) + 1 \notin DOMAIN n.blocks
               /\ \A b \in DOMAIN n.blocks : m.blocks[b] = n.blocks[b]
               /\ m.blocks[Len(n.blocks) + 1] =
                     [valid |-> TRUE, name |-> name, model |-> model, table |-> table,
                      ports |-> {}, pins |-> {}]
               /\ m.ports = n.ports /\ m.pins = n.pins /\ m.nets = n.nets
               /\ m.netOf = n.netOf /\ m.dirty = n.dirty
               /\ \A x \in Name : x # name => m.blockOf[x] = n.blockOf[x]
               /\ n.blockOf[name] = 0
<1> DEFINE r == [valid |-> TRUE, name |-> name, model |-> model, table |-> table,
                 ports |-> {}, pins |-> {}]
           new == Len(n.blocks) + 1
           t == Append(n.blocks, r)
<1>1. n \in Netlists /\ InRange(n) /\ Typed(n)
  BY DEF Good, Typed
<1>2. CASE n.error # "none"
  <2>1. m = n BY <1>2 DEF CreateBlock
  <2> QED BY <2>1, <1>2
<1>3. CASE n.error = "none" /\ n.blockOf[name] # 0
  <2>1. m = Fail(n, "throw") BY <1>3 DEF CreateBlock
  <2> QED BY <2>1, <1>1, FailIsGood
<1>4. CASE n.error = "none" /\ n.blockOf[name] = 0
  <2>1. m = [n EXCEPT !.blocks = t, !.blockOf[name] = new]
    BY <1>4 DEF CreateBlock
  <2>2. r \in BlockRecs BY DEF BlockRecs
  <2>3. /\ t \in Seq(BlockRecs) /\ DOMAIN t = DOMAIN n.blocks \cup {new}
        /\ new \notin DOMAIN n.blocks /\ new \in Nat
        /\ \A b \in DOMAIN n.blocks : t[b] = n.blocks[b]
        /\ t[new] = r
    <3>1. n.blocks \in Seq(BlockRecs) BY <1>1 DEF Netlists
    <3>2. Len(n.blocks) \in Nat BY <1>1, Shape
    <3> HIDE DEF r
    <3> QED BY <2>2, <3>1, <3>2, AppendFacts
  <2>4. /\ r.valid = TRUE /\ r.name = name /\ r.ports = {} /\ r.pins = {}
    OBVIOUS
  <2> HIDE DEF r, t, new
  <2> DEFINE g == [n.blockOf EXCEPT ![name] = new]
  <2>a. g \in [Name -> Nat]
    BY <1>1, <2>3, Shape
  <2>b. m = [n EXCEPT !.blocks = t, !.blockOf = g]
    BY <2>1
  <2>c. g[name] = new /\ \A x \in Name : x # name => g[x] = n.blockOf[x]
    BY <1>1, Shape
  <2> HIDE DEF g
  <2>5. /\ m \in Netlists /\ m.blocks = t /\ m.blockOf = g
        /\ m.ports = n.ports /\ m.pins = n.pins /\ m.nets = n.nets
        /\ m.netOf = n.netOf /\ m.error = n.error /\ m.dirty = n.dirty
    BY <1>1, <2>a, <2>b, <2>3 DEF Netlists
  <2>6. m.blockOf[name] = new /\ \A x \in Name : x # name => m.blockOf[x] = n.blockOf[x]
    BY <2>c, <2>5
  <2>7. Refs(n) BY <1>4 DEF Good
  <2>8. InRange(m)
    <3>1. \A b \in DOMAIN m.blocks : /\ m.blocks[b].ports \subseteq DOMAIN m.ports
                                     /\ m.blocks[b].pins \subseteq DOMAIN m.pins
      BY <1>1, <2>3, <2>4, <2>5 DEF InRange
    <3>2. \A q \in DOMAIN m.ports :
            /\ m.ports[q].block \in DOMAIN m.blocks
            /\ \A i \in DOMAIN m.ports[q].pins : m.ports[q].pins[i] \in DOMAIN m.pins
      BY <1>1, <2>3, <2>5 DEF InRange
    <3>3. \A x \in Name : /\ m.blockOf[x] # 0 => m.blockOf[x] \in DOMAIN m.blocks
                          /\ m.netOf[x] # 0 => m.netOf[x] \in DOMAIN m.nets
      BY <1>1, <2>3, <2>5, <2>6 DEF InRange
    <3> QED BY <1>1, <2>5, <3>1, <3>2, <3>3 DEF InRange
  <2>9. \A p \in DOMAIN n.pins : PinBlock(m, p) = PinBlock(n, p) /\ IsSink(m, p) = IsSink(n, p) /\ PinBlock(n, p) \in DOMAIN n.blocks
    BY Zenon, <1>1, <2>5 DEF PinBlock, IsSink, InRange
  <2>10. Structure(m)
    <3>1. \A b \in DOMAIN m.blocks, q \in DOMAIN m.ports :
            q \in m.blocks[b].ports <=> m.ports[q].block = b
      BY <1>1, <2>3, <2>4, <2>5, <2>7 DEF Refs, Structure, InRange
    <3>2. \A b \in DOMAIN m.blocks, p \in DOMAIN m.pins :
            p \in m.blocks[b].pins <=> PinBlock(m, p) = b
      BY <2>3, <2>4, <2>5, <2>7, <2>9 DEF Refs, Structure
    <3> QED BY <2>5, <2>7, <3>1, <3>2 DEF Refs, Structure
  <2>11. Owned(m)
    BY <1>1, <2>3, <2>5, <2>7 DEF Refs, Owned, InRange
  <2>12. Netted(m)
    BY <1>1, <2>5, <2>7, <2>9, NettedKept DEF Refs
  <2>13. NetsNamed(m) /\ Indexed(m)
    BY <2>5, <2>7 DEF Refs, NetsNamed, Indexed, IndicesAgree, Valid
  <2>14. BlocksNamed(m)
    <3>1. ASSUME NEW x \in Name, m.blockOf[x] # 0
          PROVE  m.blocks[m.blockOf[x]].valid /\ m.blocks[m.blockOf[x]].name = x
      <4>1. CASE x = name
        BY <4>1, <2>3, <2>4, <2>5, <2>6
      <4>2. CASE x # name
        <5>1. m.blockOf[x] = n.blockOf[x] /\ n.blockOf[x] \in DOMAIN n.blocks
          BY <4>2, <3>1, <1>1, <2>6 DEF InRange
        <5> QED BY <5>1, <3>1, <2>3, <2>5, <2>7 DEF Refs, BlocksNamed
      <4> QED BY <4>1, <4>2
    <3>2. ASSUME NEW b \in DOMAIN m.blocks, m.blocks[b].valid
          PROVE  m.blockOf[m.blocks[b].name] = b
      <4>1. CASE b = new
        BY <4>1, <2>3, <2>4, <2>5, <2>6
      <4>2. CASE b # new
        <5>1. b \in DOMAIN n.blocks /\ m.blocks[b] = n.blocks[b]
          BY <4>2, <2>3, <2>5
        <5>2. n.blockOf[n.blocks[b].name] = b /\ n.blocks[b].name \in Name /\ b # 0
          BY <5>1, <3>2, <2>7, <1>1, FieldTypes, ZeroIsNoId DEF Refs, BlocksNamed
        <5>3. n.blocks[b].name # name
          BY <5>2, <1>4
        <5> QED BY <5>1, <5>2, <5>3, <2>6
      <4> QED BY <4>1, <4>2
    <3> QED BY <3>1, <3>2 DEF BlocksNamed
  <2>15. Good(m)
    BY <2>5, <2>8, <2>10, <2>11, <2>12, <2>13, <2>14 DEF Good, Typed, Refs
  <2> QED BY <2>15, <2>3, <2>5, <2>6, <1>4 DEF r, new
<1> QED BY <1>2, <1>3, <1>4

\* create_net()
LEMMA CreateNetEffect ==
  ASSUME NEW n, Good(n), NEW name \in Name, NEW b, NEW m, m = CreateNet(n, name)
  PROVE  /\ Good(m) /\ Grown(n, m, b) /\ m.pins = n.pins /\ m.ports = n.ports /\ m.blocks = n.blocks
         /\ n.error # "none" => m = n
         /\ m.error = "none" =>
               /\ m.netOf[name] \in DOMAIN m.nets /\ m.nets[m.netOf[name]].valid
               /\ m.nets[m.netOf[name]].name = name
               /\ \A k \in DOMAIN n.nets : m.nets[k] = n.nets[k]
               /\ \A k \in DOMAIN m.nets \ DOMAIN n.nets : m.nets[k].pins = <<0>> /\ m.nets[k].valid
               /\ \A x \in Name : x # name => m.netOf[x] = n.netOf[x]
               /\ n.netOf[name] # 0 => m = n
<1> DEFINE r == [valid |-> TRUE, name |-> name, pins |-> <<0>>]
           new == Len(n.nets) + 1
           t == Append(n.nets, r)
<1>1. n \in Netlists /\ InRange(n) /\ Typed(n)
  BY DEF Good, Typed
<1>2. CASE n.error # "none" \/ n.netOf[name] # 0
  <2>1. m = n BY <1>2 DEF CreateNet
  <2>2. ASSUME n.error = "none" PROVE n.netOf[name] \in DOMAIN n.nets /\ n.nets[n.netOf[name]].valid /\ n.nets[n.netOf[name]].name = name
    BY <2>2, <1>1, <1>2 DEF Good, Refs, NetsNamed, InRange
  <2> QED BY <2>1, <2>2, GrownByNothing
<1>3. CASE n.error = "none" /\ n.netOf[name] = 0
  <2>1. m = [n EXCEPT !.nets = t, !.netOf[name] = new]
    BY <1>3 DEF CreateNet
  <2>2. r \in NetRecs BY DEF NetRecs
  <2>3. /\ t \in Seq(NetRecs) /\ DOMAIN t = DOMAIN n.nets \cup {new}
        /\ new \notin DOMAIN n.nets /\ new \in Nat /\ new # 0
        /\ \A k \in DOMAIN n.nets : t[k] = n.nets[k]
        /\ t[new] = r
    <3>1. n.nets \in Seq(NetRecs) BY <1>1 DEF Netlists
    <3>2. Len(n.nets) \in Nat BY <1>1, Shape
    <3> HIDE DEF r
    <3> QED BY <2>2, <3>1, <3>2, AppendFacts
  <2>4. /\ r.valid = TRUE /\ r.name = name /\ r.pins = <<0>>
    OBVIOUS
  <2> HIDE DEF r, t, new
  <2> DEFINE g == [n.netOf EXCEPT ![name] = new]
  <2>a. g \in [Name -> Nat]
    BY <1>1, <2>3, Shape
  <2>b. m = [n EXCEPT !.nets = t, !.netOf = g]
    BY <2>1
  <2>c. g[name] = new /\ \A x \in Name : x # name => g[x] = n.netOf[x]
    BY <1>1, Shape
  <2> HIDE DEF g
  <2>5. /\ m \in Netlists /\ m.nets = t /\ m.netOf = g
        /\ m.ports = n.ports /\ m.pins = n.pins /\ m.blocks = n.blocks
        /\ m.blockOf = n.blockOf /\ m.error = n.error /\ m.dirty = n.dirty
    BY <1>1, <2>a, <2>b, <2>3 DEF Netlists
  <2>6. m.netOf[name] = new /\ \A x \in Name : x # name => m.netOf[x] = n.netOf[x]
    BY <2>c, <2>5
  <2>7. Refs(n) BY <1>3 DEF Good
  <2>8. InRange(m)
    <3>1. \A k \in DOMAIN m.nets : \A i \in DOMAIN m.nets[k].pins :
            m.nets[k].pins[i] # 0 => m.nets[k].pins[i] \in DOMAIN m.pins
      <4> SUFFICES ASSUME NEW k \in DOMAIN m.nets, NEW i \in DOMAIN m.nets[k].pins,
                          m.nets[k].pins[i] # 0
                   PROVE  m.nets[k].pins[i] \in DOMAIN m.pins
        OBVIOUS
      <4>1. CASE k = new
        BY <4>1, <2>3, <2>4, <2>5
      <4>2. CASE k # new
        BY <4>2, <1>1, <2>3, <2>5 DEF InRange
      <4> QED BY <4>1, <4>2
    <3>2. \A x \in Name : /\ m.blockOf[x] # 0 => m.blockOf[x] \in DOMAIN m.blocks
                          /\ m.netOf[x] # 0 => m.netOf[x] \in DOMAIN m.nets
      BY <1>1, <2>3, <2>5, <2>6 DEF InRange
    <3>3. \A p \in DOMAIN m.pins : /\ m.pins[p].port \in DOMAIN m.ports
                                   /\ m.pins[p].net # 0 => m.pins[p].net \in DOMAIN m.nets
      BY <1>1, <2>3, <2>5 DEF InRange
    <3> QED BY <1>1, <2>5, <3>1, <3>2, <3>3 DEF InRange
  <2>9. \A p \in DOMAIN n.pins : IsSink(m, p) = IsSink(n, p)
    BY <2>5 DEF IsSink
  <2>10. SameShape(n, m)
    BY <2>5 DEF SameShape
  <2>11. Structure(m)
    BY <1>1, <2>7, <2>10, ShapeKeepsStructure DEF Refs
  <2>12. Owned(m) /\ BlocksNamed(m)
    BY <2>5, <2>7 DEF Refs, Owned, BlocksNamed
  <2>13. Netted(m)
    <3>1. ASSUME NEW k \in DOMAIN m.nets, m.nets[k].valid
          PROVE  /\ Len(m.nets[k].pins) >= 1 /\ Single(m.nets[k].pins)
                 /\ \A i \in DOMAIN m.nets[k].pins : PlaceOK(m, k, i)
      <4>1. CASE k = new
        <5>1. m.nets[k].pins = <<0>> BY Zenon, <4>1, <2>3, <2>4, <2>5
        <5> QED BY <5>1 DEF Single, PlaceOK
      <4>2. CASE k # new
        <5>1. k \in DOMAIN n.nets /\ m.nets[k] = n.nets[k]
          BY <4>2, <2>3, <2>5
        <5>2. /\ Len(n.nets[k].pins) >= 1 /\ Single(n.nets[k].pins)
              /\ \A i \in DOMAIN n.nets[k].pins : PlaceOK(n, k, i)
          BY Zenon, <5>1, <3>1, <2>7 DEF Refs, Netted
        <5> QED BY <5>1, <5>2, <2>5, <2>9 DEF PlaceOK
      <4> QED BY <4>1, <4>2
    <3>2. ASSUME NEW p \in DOMAIN m.pins, m.pins[p].valid PROVE PinOK(m, p)
      <4>1. PinOK(n, p) /\ m.pins[p] = n.pins[p] BY <3>2, <2>5, <2>7 DEF Refs, Netted
      <4>2. n.pins[p].net # 0 => n.pins[p].net \in DOMAIN n.nets
        BY <1>1, <3>2, <2>5 DEF InRange
      <4>3. n.pins[p].net # 0 => m.nets[n.pins[p].net] = n.nets[n.pins[p].net]
        BY <4>2, <2>3, <2>5
      <4> QED BY Zenon, <4>1, <4>3 DEF PinOK
    <3> QED BY <3>1, <3>2 DEF Netted
  <2>14. NetsNamed(m)
    <3>1. ASSUME NEW x \in Name, m.netOf[x] # 0
          PROVE  m.nets[m.netOf[x]].valid /\ m.nets[m.netOf[x]].name = x
      <4>1. CASE x = name
        BY <4>1, <2>3, <2>4, <2>5, <2>6
      <4>2. CASE x # name
        <5>1. m.netOf[x] = n.netOf[x] /\ n.netOf[x] \in DOMAIN n.nets
          BY <4>2, <3>1, <1>1, <2>6 DEF InRange
        <5> QED BY <5>1, <3>1, <2>3, <2>5, <2>7 DEF Refs, NetsNamed
      <4> QED BY <4>1, <4>2
    <3>2. ASSUME NEW k \in DOMAIN m.nets, m.nets[k].valid
          PROVE  m.netOf[m.nets[k].name] = k
      <4>1. CASE k = new
        BY <4>1, <2>3, <2>4, <2>5, <2>6
      <4>2. CASE k # new
        <5>1. k \in DOMAIN n.nets /\ m.nets[k] = n.nets[k]
          BY <4>2, <2>3, <2>5
        <5>2. n.netOf[n.nets[k].name] = k /\ n.nets[k].name \in Name /\ k # 0
          BY <5>1, <3>2, <2>7, <1>1, FieldTypes, ZeroIsNoId DEF Refs, NetsNamed
        <5>3. n.nets[k].name # name
          BY <5>2, <1>3
        <5> QED BY <5>1, <5>2, <5>3, <2>6
      <4> QED BY <4>1, <4>2
    <3> QED BY <3>1, <3>2 DEF NetsNamed
  <2>15. Indexed(m)
    <3> SUFFICES ASSUME ~m.dirty, NEW k \in DOMAIN m.nets, m.nets[k].valid,
                        NEW i \in DOMAIN m.nets[k].pins, m.nets[k].pins[i] # 0
                 PROVE  m.pins[m.nets[k].pins[i]].idx = i - 1
      BY DEF Indexed, IndicesAgree, Valid
    <3>1. IndicesAgree(n) BY <2>5, <2>7 DEF Refs, Indexed
    <3>2. CASE k = new
      BY <3>2, <2>3, <2>4, <2>5
    <3>3. CASE k # new
      BY <3>1, <3>3, <2>3, <2>5 DEF IndicesAgree, Valid
    <3> QED BY <3>2, <3>3
  <2>16. Good(m)
    BY <2>5, <2>8, <2>11, <2>12, <2>13, <2>14, <2>15 DEF Good, Typed, Refs
  <2>17. Grown(n, m, b)
    BY <1>3, <2>3, <2>5, <2>6 DEF Grown
  <2> QED BY <2>16, <2>17, <2>3, <2>4, <2>5, <2>6, <1>3
<1> QED BY <1>2, <1>3

\* t lists the pins of port q and p, by their bits.
Inserted(n, q, p, bit, t) ==
  /\ t \in Seq(Nat)
  /\ \A i \in DOMAIN t : t[i] = p \/ \E j \in DOMAIN n.ports[q].pins : t[i] = n.ports[q].pins[j]
  /\ \E i \in DOMAIN t : t[i] = p
  /\ \A j \in DOMAIN n.ports[q].pins : \E i \in DOMAIN t : t[i] = n.ports[q].pins[j]
  /\ \A i, j \in DOMAIN t : i < j =>
        (IF t[i] = p THEN bit ELSE n.pins[t[i]].bit)
        < (IF t[j] = p THEN bit ELSE n.pins[t[j]].bit)

\* associate_pin_with_port() puts the pin at its place: the port's other pins
\* stay, and the bits still ascend.
LEMMA InsertFacts ==
  ASSUME NEW n, Typed(n), NEW q \in DOMAIN n.ports, NEW bit \in Nat,
         NEW p \in Nat, p \notin DOMAIN n.pins,
         \A i, j \in DOMAIN n.ports[q].pins :
            i < j => n.pins[n.ports[q].pins[i]].bit < n.pins[n.ports[q].pins[j]].bit,
         \A i \in DOMAIN n.ports[q].pins : n.pins[n.ports[q].pins[i]].bit # bit,
         NEW t, t = InsertByBit(n, q, p, bit)
  PROVE  Inserted(n, q, p, bit, t)
<1> DEFINE s == n.ports[q].pins
           K == {i \in DOMAIN s : n.pins[s[i]].bit < bit}
           L == DOMAIN s \ K
           u == Keep(s, K)
           w == Keep(s, L)
           B(x) == IF x = p THEN bit ELSE n.pins[x].bit
<1>1. s \in Seq(Nat) /\ n \in Netlists /\ InRange(n)
  BY FieldTypes DEF Typed
<1>2. \A i \in DOMAIN s : s[i] \in DOMAIN n.pins /\ n.pins[s[i]].bit \in Nat /\ s[i] # p
  <2> TAKE i \in DOMAIN s
  <2>1. s[i] \in DOMAIN n.pins BY Zenon, <1>1 DEF InRange
  <2>2. n.pins[s[i]].bit \in 0..LutInputs - 1 BY <1>1, <2>1, FieldTypes
  <2>a. 0..LutInputs - 1 \subseteq Nat BY SMTT(30), LutInputsAssumption
  <2>3. n.pins[s[i]].bit \in Nat BY Zenon, <2>2, <2>a
  <2>4. s[i] # p BY <2>1
  <2> QED BY <2>1, <2>3, <2>4
<1>3. K \in SUBSET DOMAIN s /\ L \in SUBSET DOMAIN s
  BY Zenon
<1>4. t = u \o <<p>> \o w
  BY Zenon DEF InsertByBit
<1>5. /\ \A i \in K : n.pins[s[i]].bit < bit
      /\ \A i \in L : n.pins[s[i]].bit > bit
      /\ \A i \in DOMAIN s : i \in K \/ i \in L
  BY <1>2
<1>6. \A i, j \in DOMAIN s : i < j => n.pins[s[i]].bit < n.pins[s[j]].bit
  OBVIOUS
<1> HIDE DEF K, L, s
<1>7. /\ u \in Seq(Nat) /\ w \in Seq(Nat)
  BY <1>1, <1>3, KeepFacts
<1>8. /\ \A k \in DOMAIN u : Nth(K, k) \in K /\ u[k] = s[Nth(K, k)]
      /\ \A i \in K : Rank(K, i) \in DOMAIN u /\ u[Rank(K, i)] = s[i]
      /\ \A k, l \in DOMAIN u : k < l => Nth(K, k) < Nth(K, l)
  BY <1>1, <1>3, KeepPlaces
<1>9. /\ \A k \in DOMAIN w : Nth(L, k) \in L /\ w[k] = s[Nth(L, k)]
      /\ \A i \in L : Rank(L, i) \in DOMAIN w /\ w[Rank(L, i)] = s[i]
      /\ \A k, l \in DOMAIN w : k < l => Nth(L, k) < Nth(L, l)
  BY <1>1, <1>3, KeepPlaces
<1>10. /\ \A k \in DOMAIN u : \E i \in DOMAIN s : u[k] = s[i]
       /\ \A k \in DOMAIN w : \E i \in DOMAIN s : w[k] = s[i]
       /\ \A i \in DOMAIN s : (\E k \in DOMAIN u : u[k] = s[i]) \/ (\E k \in DOMAIN w : w[k] = s[i])
  <2>1. /\ \A k \in DOMAIN u : \E i \in DOMAIN s : u[k] = s[i]
        /\ \A k \in DOMAIN w : \E i \in DOMAIN s : w[k] = s[i]
    BY <1>3, <1>8, <1>9
  <2>2. \A i \in DOMAIN s : (\E k \in DOMAIN u : u[k] = s[i]) \/ (\E k \in DOMAIN w : w[k] = s[i])
    BY <1>5, <1>8, <1>9
  <2> QED BY <2>1, <2>2
<1>11. /\ \A k \in DOMAIN u : B(u[k]) < bit /\ B(u[k]) = n.pins[u[k]].bit /\ B(u[k]) \in Nat
       /\ \A k \in DOMAIN w : B(w[k]) > bit /\ B(w[k]) = n.pins[w[k]].bit /\ B(w[k]) \in Nat
  BY <1>2, <1>3, <1>5, <1>8, <1>9
<1>12. /\ \A k, l \in DOMAIN u : k < l => B(u[k]) < B(u[l])
       /\ \A k, l \in DOMAIN w : k < l => B(w[k]) < B(w[l])
  <2>1. \A k, l \in DOMAIN u : k < l => n.pins[u[k]].bit < n.pins[u[l]].bit
    BY <1>3, <1>6, <1>8
  <2>2. \A k, l \in DOMAIN w : k < l => n.pins[w[k]].bit < n.pins[w[l]].bit
    BY <1>3, <1>6, <1>9
  <2> QED BY <2>1, <2>2, <1>11
<1> HIDE DEF u, w
<1>13. /\ Len(u) \in Nat /\ DOMAIN u = 1..Len(u) /\ Len(w) \in Nat /\ DOMAIN w = 1..Len(w)
  BY <1>7, LenProperties
<1>14. /\ <<p>> \in Seq(Nat) /\ Len(<<p>>) = 1 /\ <<p>>[1] = p
  OBVIOUS
<1> DEFINE v == u \o <<p>>
<1>15. /\ v \in Seq(Nat) /\ Len(v) = Len(u) + 1
       /\ \A i \in 1..Len(u) + 1 : v[i] = IF i <= Len(u) THEN u[i] ELSE <<p>>[i - Len(u)]
  BY <1>7, <1>14, ConcatProperties
<1>16. v[Len(u) + 1] = p /\ \A i \in 1..Len(u) : v[i] = u[i]
  BY <1>13, <1>14, <1>15
<1> HIDE DEF v
<1>17. /\ v \o w \in Seq(Nat) /\ Len(v \o w) = Len(v) + Len(w)
       /\ \A i \in 1..Len(v) + Len(w) : (v \o w)[i] = IF i <= Len(v) THEN v[i] ELSE w[i - Len(v)]
  BY <1>7, <1>15, ConcatProperties
<1>18. t = v \o w
  BY <1>4 DEF v
<1>19. DOMAIN t = 1..Len(u) + 1 + Len(w) /\ t \in Seq(Nat)
  BY <1>17, <1>18, <1>15, LenProperties
<1>20. /\ \A i \in 1..Len(u) : t[i] = u[i]
       /\ t[Len(u) + 1] = p
       /\ \A i \in 1..Len(w) : t[Len(u) + 1 + i] = w[i]
  <2>1. \A i \in 1..Len(u) : t[i] = u[i]
    BY <1>13, <1>15, <1>16, <1>17, <1>18
  <2>2. t[Len(u) + 1] = p
    BY <1>13, <1>15, <1>16, <1>17, <1>18
  <2>3. \A i \in 1..Len(w) : t[Len(u) + 1 + i] = w[i]
    BY SMTT(30), <1>13, <1>15, <1>17, <1>18
  <2> QED BY <2>1, <2>2, <2>3
<1>21. \A i \in DOMAIN t : \/ i \in 1..Len(u)
                           \/ i = Len(u) + 1
                           \/ i - (Len(u) + 1) \in 1..Len(w) /\ t[i] = w[i - (Len(u) + 1)]
  <2> TAKE i \in DOMAIN t
  <2>1. i \in Nat /\ i >= 1 /\ i <= Len(u) + 1 + Len(w) BY <1>13, <1>19
  <2>2. ASSUME i > Len(u) + 1 PROVE i - (Len(u) + 1) \in 1..Len(w) /\ t[i] = w[i - (Len(u) + 1)]
    <3>1. i - (Len(u) + 1) \in 1..Len(w) /\ Len(u) + 1 + (i - (Len(u) + 1)) = i
      BY <2>1, <2>2, <1>13
    <3> QED BY <3>1, <1>20
  <2> QED BY <2>1, <2>2, <1>13
<1>22. \A i, j \in DOMAIN t : i < j => B(t[i]) < B(t[j])
  <2> SUFFICES ASSUME NEW i \in DOMAIN t, NEW j \in DOMAIN t, i < j
               PROVE  B(t[i]) < B(t[j])
    OBVIOUS
  <2>0. B(p) = bit OBVIOUS
  <2> HIDE DEF B
  <2>1. CASE j \in 1..Len(u)
    <3>1. i \in 1..Len(u) BY <2>1, <1>13, <1>19
    <3> QED BY <3>1, <2>1, <1>12, <1>13, <1>20
  <2>2. CASE j = Len(u) + 1
    <3>1. i \in 1..Len(u) BY <2>2, <1>13, <1>19
    <3> QED BY <3>1, <2>2, <2>0, <1>11, <1>13, <1>20
  <2>3. CASE j - (Len(u) + 1) \in 1..Len(w) /\ t[j] = w[j - (Len(u) + 1)]
    <3>0. B(t[j]) > bit /\ B(t[j]) \in Nat
      BY <2>3, <1>11, <1>13
    <3>1. CASE i \in 1..Len(u)
      <4>1. B(t[i]) < bit /\ B(t[i]) \in Nat
        BY <3>1, <1>11, <1>13, <1>20
      <4> QED BY <4>1, <3>0
    <3>2. CASE i = Len(u) + 1
      BY <3>0, <3>2, <2>0, <1>20
    <3>3. CASE i - (Len(u) + 1) \in 1..Len(w) /\ t[i] = w[i - (Len(u) + 1)]
      <4>1. i - (Len(u) + 1) < j - (Len(u) + 1)
        BY <1>13, <1>19
      <4> QED BY <4>1, <3>3, <2>3, <1>12, <1>13
    <3> QED BY <3>1, <3>2, <3>3, <1>21
  <2> QED BY <2>1, <2>2, <2>3, <1>21
<1>23. \A i \in DOMAIN t : t[i] = p \/ \E j \in DOMAIN s : t[i] = s[j]
  <2> TAKE i \in DOMAIN t
  <2>1. CASE i \in 1..Len(u)
    BY <2>1, <1>10, <1>13, <1>20
  <2>2. CASE i = Len(u) + 1
    BY <2>2, <1>20
  <2>3. CASE i - (Len(u) + 1) \in 1..Len(w) /\ t[i] = w[i - (Len(u) + 1)]
    BY <2>3, <1>10, <1>13
  <2> QED BY <2>1, <2>2, <2>3, <1>21
<1>24. \E i \in DOMAIN t : t[i] = p
  <2>1. Len(u) + 1 \in DOMAIN t BY <1>13, <1>19
  <2> QED BY <2>1, <1>20
<1>25. \A j \in DOMAIN s : \E i \in DOMAIN t : t[i] = s[j]
  <2> TAKE j \in DOMAIN s
  <2>1. CASE \E k \in DOMAIN u : u[k] = s[j]
    <3>1. PICK k \in DOMAIN u : u[k] = s[j] BY <2>1
    <3>2. k \in DOMAIN t /\ t[k] = u[k] BY <1>13, <1>19, <1>20
    <3> QED BY <3>1, <3>2
  <2>2. CASE \E k \in DOMAIN w : w[k] = s[j]
    <3>1. PICK k \in DOMAIN w : w[k] = s[j] BY <2>2
    <3>a. k \in 1..Len(w) BY <1>13
    <3>b. Len(u) + 1 + k \in DOMAIN t BY <3>a, <1>13, <1>19
    <3>2. t[Len(u) + 1 + k] = w[k] BY <3>a, <1>20
    <3> QED BY <3>1, <3>b, <3>2
  <2> QED BY <2>1, <2>2, <1>10
<1> QED BY <1>19, <1>22, <1>23, <1>24, <1>25 DEF s, Inserted

\* create_port(), or the port that is there already
LEMMA CreatePortEffect ==
  ASSUME NEW n, Good(n), NEW b \in DOMAIN n.blocks, n.error = "none" => n.blocks[b].valid,
         NEW pn \in PortName, NEW m, m = CreatePort(n, b, pn)
  PROVE  /\ Good(m) /\ Grown(n, m, b)
         /\ m.pins = n.pins /\ m.nets = n.nets /\ m.netOf = n.netOf
         /\ n.error = "none" =>
               /\ FindPort(m, b, pn) \in DOMAIN m.ports
               /\ m.ports[FindPort(m, b, pn)].block = b
               /\ m.ports[FindPort(m, b, pn)].name = pn
         /\ \A p \in DOMAIN n.pins : IsSink(m, p) = IsSink(n, p) /\ PinBlock(m, p) = PinBlock(n, p)
<1> DEFINE Found(x) == {q \in x.blocks[b].ports : x.ports[q].name = pn}
<1>1. n \in Netlists /\ InRange(n) /\ Typed(n)
  BY DEF Good, Typed
<1>2. CASE n.error # "none"
  <2>1. m = n BY <1>2 DEF CreatePort
  <2> QED BY <2>1, <1>2, GrownByNothing
<1>3. ASSUME n.error = "none" PROVE Refs(n) /\ n.blocks[b].valid
  BY <1>3 DEF Good
<1>4. CASE n.error = "none" /\ FindPort(n, b, pn) # 0
  <2>1. m = n BY <1>4 DEF CreatePort
  <2>2. Found(n) # {} /\ FindPort(n, b, pn) = CHOOSE q \in Found(n) : TRUE
    BY <1>4 DEF FindPort
  <2>3. FindPort(n, b, pn) \in Found(n)
    BY <2>2
  <2>4. FindPort(n, b, pn) \in DOMAIN n.ports /\ n.ports[FindPort(n, b, pn)].name = pn
        /\ FindPort(n, b, pn) \in n.blocks[b].ports
    BY <2>3, <1>1 DEF InRange
  <2>5. n.ports[FindPort(n, b, pn)].block = b
    BY <2>4, <1>3, <1>4 DEF Refs, Structure
  <2> QED BY <2>1, <2>4, <2>5, GrownByNothing
<1>5. CASE n.error = "none" /\ FindPort(n, b, pn) = 0
  <2> DEFINE r == [valid |-> TRUE, block |-> b, name |-> pn, pins |-> <<>>]
             new == Len(n.ports) + 1
             t == Append(n.ports, r)
             old == n.blocks[b]
             rb == [old EXCEPT !.ports = @ \cup {new}]
             g == [n.blocks EXCEPT ![b] = rb]
  <2>1. m = [n EXCEPT !.ports = t, !.blocks = g]
    BY <1>5 DEF CreatePort
  <2>2. Found(n) = {}
    <3>1. ASSUME Found(n) # {} PROVE FALSE
      <4>1. FindPort(n, b, pn) \in Found(n)
        BY <3>1 DEF FindPort
      <4>2. 0 \in DOMAIN n.ports
        BY <4>1, <1>1, <1>5 DEF InRange
      <4> QED BY <4>2, <1>1, ZeroIsNoId
    <3> QED BY <3>1
  <2>a. Refs(n) /\ n.blocks[b].valid
    BY <1>3, <1>5
  <2>3. r \in PortRecs
    <3>1. b \in Nat BY <1>1, Shape
    <3> QED BY <3>1 DEF PortRecs
  <2>4. /\ t \in Seq(PortRecs) /\ DOMAIN t = DOMAIN n.ports \cup {new}
        /\ new \notin DOMAIN n.ports /\ new \in Nat /\ new # 0
        /\ \A q \in DOMAIN n.ports : t[q] = n.ports[q]
        /\ t[new] = r
    <3>1. n.ports \in Seq(PortRecs) BY <1>1 DEF Netlists
    <3>2. Len(n.ports) \in Nat BY <1>1, Shape
    <3> HIDE DEF r
    <3> QED BY <2>3, <3>1, <3>2, AppendFacts
  <2>5. /\ r.valid = TRUE /\ r.block = b /\ r.name = pn /\ r.pins = <<>>
    OBVIOUS
  <2>6. old \in BlockRecs
    BY <1>1, Shape
  <2>7. /\ rb \in BlockRecs /\ rb.ports = old.ports \cup {new} /\ rb.valid = old.valid
        /\ rb.name = old.name /\ rb.model = old.model /\ rb.table = old.table /\ rb.pins = old.pins
    <3> HIDE DEF new, old
    <3> QED BY <2>6, <2>4 DEF BlockRecs
  <2>8. /\ g \in Seq(BlockRecs) /\ DOMAIN g = DOMAIN n.blocks /\ g[b] = rb
        /\ \A a \in DOMAIN n.blocks : a # b => g[a] = n.blocks[a]
    <3>1. n.blocks \in Seq(BlockRecs) BY <1>1 DEF Netlists
    <3> HIDE DEF rb, old
    <3>2. n.blocks \in [1..Len(n.blocks) -> BlockRecs] /\ Len(n.blocks) \in Nat /\ DOMAIN n.blocks = 1..Len(n.blocks)
      BY <3>1, LenProperties
    <3>3. g \in [1..Len(n.blocks) -> BlockRecs]
      BY <3>2, <2>7
    <3>4. g \in Seq(BlockRecs) BY <3>2, <3>3, WholeSeq
    <3> QED BY <3>2, <3>3, <3>4
  <2> HIDE DEF r, t, new, rb, g
  <2>9. /\ m \in Netlists /\ m.ports = t /\ m.blocks = g
        /\ m.pins = n.pins /\ m.nets = n.nets /\ m.blockOf = n.blockOf
        /\ m.netOf = n.netOf /\ m.error = n.error /\ m.dirty = n.dirty
    BY <1>1, <2>1, <2>4, <2>8 DEF Netlists
  <2>10. /\ m.blocks[b].ports = n.blocks[b].ports \cup {new}
         /\ \A a \in DOMAIN n.blocks :
              /\ m.blocks[a].valid = n.blocks[a].valid /\ m.blocks[a].name = n.blocks[a].name
              /\ m.blocks[a].model = n.blocks[a].model /\ m.blocks[a].table = n.blocks[a].table
              /\ m.blocks[a].pins = n.blocks[a].pins
              /\ a # b => m.blocks[a].ports = n.blocks[a].ports
    BY <2>7, <2>8, <2>9
  <2> HIDE DEF old
  <2>11. InRange(m)
    <3>1. \A a \in DOMAIN m.blocks : /\ m.blocks[a].ports \subseteq DOMAIN m.ports
                                     /\ m.blocks[a].pins \subseteq DOMAIN m.pins
      BY <1>1, <2>4, <2>8, <2>9, <2>10 DEF InRange
    <3>2. ASSUME NEW q \in DOMAIN m.ports
          PROVE  /\ m.ports[q].block \in DOMAIN m.blocks
                 /\ \A i \in DOMAIN m.ports[q].pins : m.ports[q].pins[i] \in DOMAIN m.pins
      <4>1. CASE q = new
        BY <4>1, <2>4, <2>5, <2>8, <2>9
      <4>2. CASE q # new
        <5>1. q \in DOMAIN n.ports /\ m.ports[q] = n.ports[q] BY <4>2, <2>4, <2>9
        <5> QED BY <5>1, <1>1, <2>8, <2>9 DEF InRange
      <4> QED BY <4>1, <4>2
    <3>3. \A x \in Name : /\ m.blockOf[x] # 0 => m.blockOf[x] \in DOMAIN m.blocks
                          /\ m.netOf[x] # 0 => m.netOf[x] \in DOMAIN m.nets
      BY <1>1, <2>8, <2>9 DEF InRange
    <3>4. \A p \in DOMAIN m.pins : /\ m.pins[p].port \in DOMAIN m.ports
                                   /\ m.pins[p].net # 0 => m.pins[p].net \in DOMAIN m.nets
      BY <1>1, <2>4, <2>9 DEF InRange
    <3>5. \A k \in DOMAIN m.nets : \A i \in DOMAIN m.nets[k].pins :
             m.nets[k].pins[i] # 0 => m.nets[k].pins[i] \in DOMAIN m.pins
      BY <1>1, <2>9 DEF InRange
    <3> QED BY <3>1, <3>2, <3>3, <3>4, <3>5 DEF InRange
  <2>12. \A p \in DOMAIN n.pins : PinBlock(m, p) = PinBlock(n, p) /\ IsSink(m, p) = IsSink(n, p)
    BY <1>1, <2>4, <2>9 DEF PinBlock, IsSink, InRange
  <2>13. Structure(m)
    <3>0. Structure(n) BY <2>a DEF Refs
    <3>1. \A a \in DOMAIN m.blocks, q \in DOMAIN m.ports :
            q \in m.blocks[a].ports <=> m.ports[q].block = a
      <4> SUFFICES ASSUME NEW a \in DOMAIN m.blocks, NEW q \in DOMAIN m.ports
                   PROVE  q \in m.blocks[a].ports <=> m.ports[q].block = a
        OBVIOUS
      <4>1. CASE q = new
        <5>1. m.ports[q].block = b BY <4>1, <2>4, <2>5, <2>9
        <5>2. new \notin n.blocks[a].ports BY <1>1, <2>4, <2>8, <2>9 DEF InRange
        <5> QED BY <4>1, <5>1, <5>2, <2>8, <2>9, <2>10
      <4>2. CASE q # new
        <5>1. q \in DOMAIN n.ports /\ m.ports[q] = n.ports[q] BY <4>2, <2>4, <2>9
        <5>2. q \in m.blocks[a].ports <=> q \in n.blocks[a].ports
          BY <4>2, <2>8, <2>9, <2>10
        <5> QED BY <5>1, <5>2, <3>0, <2>8, <2>9 DEF Structure
      <4> QED BY <4>1, <4>2
    <3>2. \A a \in DOMAIN m.blocks, p \in DOMAIN m.pins :
            p \in m.blocks[a].pins <=> PinBlock(m, p) = a
      BY <2>8, <2>9, <2>10, <2>12, <3>0 DEF Structure
    <3>3. \A q \in DOMAIN m.ports, p \in DOMAIN m.pins :
            (\E i \in DOMAIN m.ports[q].pins : m.ports[q].pins[i] = p) <=> m.pins[p].port = q
      <4> SUFFICES ASSUME NEW q \in DOMAIN m.ports, NEW p \in DOMAIN m.pins
                   PROVE  (\E i \in DOMAIN m.ports[q].pins : m.ports[q].pins[i] = p) <=> m.pins[p].port = q
        OBVIOUS
      <4>1. CASE q = new
        <5>1. m.ports[q].pins = <<>> BY <4>1, <2>4, <2>5, <2>9
        <5>2. m.pins[p].port # new BY <1>1, <2>4, <2>9 DEF InRange
        <5> QED BY <4>1, <5>1, <5>2
      <4>2. CASE q # new
        <5>1. q \in DOMAIN n.ports /\ m.ports[q] = n.ports[q] BY Zenon, <4>2, <2>4, <2>9
        <5> QED BY <5>1, <2>9, <3>0 DEF Structure
      <4> QED BY <4>1, <4>2
    <3>4. \A q \in DOMAIN m.ports : \A i, j \in DOMAIN m.ports[q].pins :
            i < j => m.pins[m.ports[q].pins[i]].bit < m.pins[m.ports[q].pins[j]].bit
      <4> TAKE q \in DOMAIN m.ports
      <4>1. CASE q = new
        BY <4>1, <2>4, <2>5, <2>9
      <4>2. CASE q # new
        <5>1. q \in DOMAIN n.ports /\ m.ports[q] = n.ports[q] BY <4>2, <2>4, <2>9
        <5> QED BY <5>1, <2>9, <3>0 DEF Structure
      <4> QED BY <4>1, <4>2
    <3>5. \A q, z \in DOMAIN m.ports :
            m.ports[q].block = m.ports[z].block /\ m.ports[q].name = m.ports[z].name => q = z
      <4>1. \A q \in DOMAIN n.ports : m.ports[q] = n.ports[q] BY <2>4, <2>9
      <4>2. m.ports[new].block = b /\ m.ports[new].name = pn BY <2>4, <2>5, <2>9
      <4>3. \A q \in DOMAIN n.ports : n.ports[q].block = b => n.ports[q].name # pn
        BY <2>2, <3>0 DEF Structure
      <4>4. \A q, z \in DOMAIN n.ports :
              n.ports[q].block = n.ports[z].block /\ n.ports[q].name = n.ports[z].name => q = z
        BY <3>0 DEF Structure
      <4>5. DOMAIN m.ports = DOMAIN n.ports \cup {new} BY <2>4, <2>9
      <4> QED BY <4>1, <4>2, <4>3, <4>4, <4>5
    <3> QED BY <3>1, <3>2, <3>3, <3>4, <3>5 DEF Structure
  <2>14. Owned(m)
    <3>1. ASSUME NEW q \in DOMAIN m.ports, m.ports[q].valid PROVE m.blocks[m.ports[q].block].valid
      <4>1. CASE q = new
        BY <4>1, <2>4, <2>5, <2>9, <2>10, <2>a
      <4>2. CASE q # new
        <5>1. q \in DOMAIN n.ports /\ m.ports[q] = n.ports[q] BY <4>2, <2>4, <2>9
        <5> QED BY <5>1, <3>1, <1>1, <2>10, <2>a DEF Refs, Owned, InRange
      <4> QED BY <4>1, <4>2
    <3>2. \A p \in DOMAIN m.pins : m.pins[p].valid => m.ports[m.pins[p].port].valid
      BY <1>1, <2>4, <2>9, <2>a DEF Refs, Owned, InRange
    <3> QED BY <3>1, <3>2 DEF Owned
  <2>15. Netted(m)
    BY <1>1, <2>9, <2>12, <2>a, NettedKept DEF Refs
  <2>16. BlocksNamed(m)
    BY <1>1, <2>8, <2>9, <2>10, <2>a DEF Refs, BlocksNamed, InRange
  <2>17. NetsNamed(m) /\ Indexed(m)
    BY <2>9, <2>a DEF Refs, NetsNamed, Indexed, IndicesAgree, Valid
  <2>18. Good(m)
    BY <2>9, <2>11, <2>13, <2>14, <2>15, <2>16, <2>17 DEF Good, Typed, Refs
  <2>19. Grown(n, m, b)
    BY <1>1, <2>4, <2>5, <2>8, <2>9, <2>10 DEF Grown
  <2>20. Found(m) = {new}
    <3>1. new \in Found(m) BY <2>4, <2>5, <2>9, <2>10
    <3>2. \A q \in Found(m) : q = new
      <4> TAKE q \in Found(m)
      <4>1. q = new \/ q \in n.blocks[b].ports BY <2>10
      <4>2. ASSUME q \in n.blocks[b].ports PROVE FALSE
        <5>1. q \in DOMAIN n.ports BY <4>2, <1>1 DEF InRange
        <5>2. n.ports[q].name = pn BY <5>1, <2>4, <2>9
        <5> QED BY <4>2, <5>2, <2>2
      <4> QED BY <4>1, <4>2
    <3> HIDE DEF Found
    <3> QED BY <3>1, <3>2
  <2>21. FindPort(m, b, pn) = new
    BY <2>20 DEF FindPort
  <2> QED BY <2>4, <2>5, <2>9, <2>12, <2>18, <2>19, <2>21
<1> QED BY <1>2, <1>4, <1>5

\* Pin p joins net k at place j, the driver's or a new last one.
Joined(n, p, k, j, m) ==
  /\ m \in Netlists
  /\ m.blocks = n.blocks /\ m.ports = n.ports
  /\ m.blockOf = n.blockOf /\ m.netOf = n.netOf
  /\ m.error = n.error /\ m.dirty = n.dirty
  /\ DOMAIN m.pins = DOMAIN n.pins
  /\ \A x \in DOMAIN n.pins : x # p => m.pins[x] = n.pins[x]
  /\ m.pins[p].valid = n.pins[p].valid /\ m.pins[p].port = n.pins[p].port
  /\ m.pins[p].bit = n.pins[p].bit /\ m.pins[p].const = n.pins[p].const
  /\ m.pins[p].net = k /\ m.pins[p].idx = j - 1
  /\ DOMAIN m.nets = DOMAIN n.nets
  /\ \A l \in DOMAIN n.nets : l # k => m.nets[l] = n.nets[l]
  /\ m.nets[k].valid = n.nets[k].valid /\ m.nets[k].name = n.nets[k].name
  /\ m.nets[k].pins \in Seq(Nat)
  /\ DOMAIN m.nets[k].pins = DOMAIN n.nets[k].pins \cup {j}
  /\ m.nets[k].pins[j] = p
  /\ \A i \in DOMAIN n.nets[k].pins : i # j => m.nets[k].pins[i] = n.nets[k].pins[i]
  /\ j \in DOMAIN n.nets[k].pins => n.nets[k].pins[j] = 0
  /\ j \in Nat /\ j >= 1 /\ (IsSink(n, p) <=> j > 1)

\* Associating a pin with a net joins it, or fails on a second driver.
LEMMA JoinNetJoins ==
  ASSUME NEW n, Typed(n), Netted(n), NEW p \in DOMAIN n.pins, NEW k \in DOMAIN n.nets,
         n.nets[k].valid, NEW m, m = JoinNet(n, p, k)
  PROVE  \/ m = Fail(n, "assert") /\ ~IsSink(n, p) /\ n.nets[k].pins[1] # 0
         \/ \E j : Joined(n, p, k, j, m)
<1> DEFINE s == n.nets[k].pins
           r == n.pins[p]
           c == n.nets[k]
<1>1. n \in Netlists /\ InRange(n)
  BY DEF Typed
<1>2. r \in PinRecs /\ c \in NetRecs /\ s \in Seq(Nat) /\ p \in Nat /\ k \in Nat
  BY <1>1, Shape, FieldTypes
<1>3. Len(s) >= 1 /\ Len(s) \in Nat /\ DOMAIN s = 1..Len(s)
  BY <1>2, LenProperties DEF Netted
<1>4. CASE ~IsSink(n, p) /\ s[1] # 0
  BY <1>4 DEF JoinNet
<1>5. ASSUME NEW j \in Nat, j >= 1, IsSink(n, p) <=> j > 1, NEW t \in Seq(Nat),
             DOMAIN t = DOMAIN s \cup {j}, t[j] = p,
             \A i \in DOMAIN s : i # j => t[i] = s[i],
             j \in DOMAIN s => s[j] = 0,
             m = [n EXCEPT !.pins = [@ EXCEPT ![p] = [r EXCEPT !.net = k, !.idx = j - 1]],
                           !.nets = [@ EXCEPT ![k] = [c EXCEPT !.pins = t]]]
      PROVE  Joined(n, p, k, j, m)
  <2> DEFINE r2 == [r EXCEPT !.net = k, !.idx = j - 1]
             c2 == [c EXCEPT !.pins = t]
             f == [n.pins EXCEPT ![p] = r2]
             g == [n.nets EXCEPT ![k] = c2]
  <2>1. /\ r2 \in PinRecs /\ r2.valid = r.valid /\ r2.port = r.port /\ r2.bit = r.bit
        /\ r2.const = r.const /\ r2.net = k /\ r2.idx = j - 1
    <3>1. j - 1 \in Nat \cup {-1} BY <1>5
    <3> HIDE DEF r
    <3> QED BY <3>1, <1>2 DEF PinRecs
  <2>2. /\ c2 \in NetRecs /\ c2.valid = c.valid /\ c2.name = c.name /\ c2.pins = t
    <3> HIDE DEF c
    <3> QED BY <1>2, <1>5 DEF NetRecs
  <2> HIDE DEF r2, c2
  <2>3. /\ f \in Seq(PinRecs) /\ DOMAIN f = DOMAIN n.pins /\ f[p] = r2
        /\ \A x \in DOMAIN n.pins : x # p => f[x] = n.pins[x]
    <3>1. n.pins \in [1..Len(n.pins) -> PinRecs] /\ Len(n.pins) \in Nat /\ DOMAIN n.pins = 1..Len(n.pins)
      <4>1. n.pins \in Seq(PinRecs) BY <1>1 DEF Netlists
      <4> QED BY <4>1, LenProperties
    <3>2. f \in [1..Len(n.pins) -> PinRecs]
      BY <3>1, <2>1
    <3>3. f \in Seq(PinRecs) BY <3>1, <3>2, WholeSeq
    <3> QED BY <3>1, <3>2, <3>3
  <2>4. /\ g \in Seq(NetRecs) /\ DOMAIN g = DOMAIN n.nets /\ g[k] = c2
        /\ \A l \in DOMAIN n.nets : l # k => g[l] = n.nets[l]
    <3>1. n.nets \in [1..Len(n.nets) -> NetRecs] /\ Len(n.nets) \in Nat /\ DOMAIN n.nets = 1..Len(n.nets)
      <4>1. n.nets \in Seq(NetRecs) BY <1>1 DEF Netlists
      <4> QED BY <4>1, LenProperties
    <3>2. g \in [1..Len(n.nets) -> NetRecs]
      BY <3>1, <2>2
    <3>3. g \in Seq(NetRecs) BY <3>1, <3>2, WholeSeq
    <3> QED BY <3>1, <3>2, <3>3
  <2>5. m = [n EXCEPT !.pins = f, !.nets = g]
    BY <1>5 DEF r2, c2
  <2> HIDE DEF f, g
  <2>6. /\ m \in Netlists /\ m.pins = f /\ m.nets = g /\ m.ports = n.ports /\ m.blocks = n.blocks
        /\ m.blockOf = n.blockOf /\ m.netOf = n.netOf /\ m.error = n.error /\ m.dirty = n.dirty
    BY <1>1, <2>3, <2>4, <2>5 DEF Netlists
  <2>7. /\ DOMAIN m.pins = DOMAIN n.pins
        /\ \A x \in DOMAIN n.pins : x # p => m.pins[x] = n.pins[x]
        /\ m.pins[p] = r2
    BY <2>3, <2>6
  <2>8. /\ DOMAIN m.nets = DOMAIN n.nets
        /\ \A l \in DOMAIN n.nets : l # k => m.nets[l] = n.nets[l]
        /\ m.nets[k] = c2
    BY <2>4, <2>6
  <2>9. /\ m.pins[p].valid = n.pins[p].valid /\ m.pins[p].port = n.pins[p].port
        /\ m.pins[p].bit = n.pins[p].bit /\ m.pins[p].const = n.pins[p].const
        /\ m.pins[p].net = k /\ m.pins[p].idx = j - 1
    BY <2>1, <2>7
  <2>10. m.nets[k].valid = n.nets[k].valid /\ m.nets[k].name = n.nets[k].name /\ m.nets[k].pins = t
    BY <2>2, <2>8
  <2>11. /\ m.nets[k].pins \in Seq(Nat)
         /\ DOMAIN m.nets[k].pins = DOMAIN n.nets[k].pins \cup {j}
         /\ m.nets[k].pins[j] = p
         /\ \A i \in DOMAIN n.nets[k].pins : i # j => m.nets[k].pins[i] = n.nets[k].pins[i]
         /\ j \in DOMAIN n.nets[k].pins => n.nets[k].pins[j] = 0
         /\ j \in Nat /\ j >= 1 /\ (IsSink(n, p) <=> j > 1)
    BY <2>10, <1>5
  <2> HIDE DEF r, c, s
  <2> QED BY <2>6, <2>7, <2>8, <2>9, <2>10, <2>11 DEF Joined
<1>6. CASE IsSink(n, p)
  <2> DEFINE j == Len(s) + 1
             t == Append(s, p)
  <2>1. m = [n EXCEPT !.pins = [@ EXCEPT ![p] = [r EXCEPT !.net = k, !.idx = j - 1]],
                      !.nets = [@ EXCEPT ![k] = [c EXCEPT !.pins = t]]]
    <3>1. j - 1 = Len(s) BY <1>3
    <3>2. m = [n EXCEPT !.pins[p].net = k, !.pins[p].idx = Len(n.nets[k].pins),
                        !.nets[k].pins = Append(@, p)]
      BY <1>6 DEF JoinNet
    <3> QED BY <3>1, <3>2, <1>1, <1>2 DEF Netlists, PinRecs, NetRecs
  <2>2. /\ t \in Seq(Nat) /\ DOMAIN t = DOMAIN s \cup {j}
        /\ j \notin DOMAIN s /\ \A i \in DOMAIN s : t[i] = s[i]
        /\ t[j] = p
    <3> HIDE DEF s
    <3> QED BY <1>2, AppendFacts
  <2>3. j \in Nat /\ j > 1 /\ j >= 1
    BY <1>3
  <2>4. Joined(n, p, k, j, m)
    <3> HIDE DEF j, t
    <3>1. j \in DOMAIN s => s[j] = 0 BY <2>2
    <3>2. \A i \in DOMAIN s : i # j => t[i] = s[i] BY <2>2
    <3>3. IsSink(n, p) <=> j > 1 BY <1>6, <2>3
    <3> HIDE DEF s, r, c
    <3> QED BY Zenon, <1>5, <2>1, <2>2, <2>3, <3>1, <3>2, <3>3
  <2> QED BY <2>4
<1>7. CASE ~IsSink(n, p) /\ s[1] = 0
  <2> DEFINE j == 1
             t == [s EXCEPT ![1] = p]
  <2>1. m = [n EXCEPT !.pins = [@ EXCEPT ![p] = [r EXCEPT !.net = k, !.idx = j - 1]],
                      !.nets = [@ EXCEPT ![k] = [c EXCEPT !.pins = t]]]
    <3>1. j - 1 = 0 OBVIOUS
    <3>2. m = [n EXCEPT !.pins[p].net = k, !.pins[p].idx = 0,
                        !.nets[k].pins[1] = p]
      BY <1>7 DEF JoinNet
    <3> HIDE DEF j
    <3> QED BY <3>1, <3>2, <1>1, <1>2 DEF Netlists, PinRecs, NetRecs
  <2>2. /\ t \in Seq(Nat) /\ DOMAIN t = DOMAIN s \cup {j} /\ t[j] = p
        /\ \A i \in DOMAIN s : i # j => t[i] = s[i]
    <3>1. s \in [1..Len(s) -> Nat] BY <1>2, <1>3
    <3>2. t \in [1..Len(s) -> Nat] BY <3>1, <1>2
    <3>3. t \in Seq(Nat) BY <3>2, <1>3, WholeSeq
    <3> QED BY <3>2, <3>3, <1>3
  <2>3. j \in Nat /\ j >= 1 /\ ~(j > 1)
    OBVIOUS
  <2>4. Joined(n, p, k, j, m)
    <3>1. j \in DOMAIN s => s[j] = 0 BY <1>7
    <3> HIDE DEF j, t
    <3>3. IsSink(n, p) <=> j > 1 BY <1>7, <2>3
    <3> HIDE DEF s, r, c
    <3> QED BY Zenon, <1>5, <2>1, <2>2, <2>3, <3>1, <3>3
  <2> QED BY <2>4
<1> QED BY <1>4, <1>6, <1>7

\* Joining a pin that was on no net to a net keeps a netlist good.
LEMMA JoinedIsGood ==
  ASSUME NEW n, Typed(n), Refs(n), NEW p \in DOMAIN n.pins, NEW k \in DOMAIN n.nets,
         n.nets[k].valid, n.pins[p].valid, n.pins[p].net = 0, NEW j, NEW m, Joined(n, p, k, j, m)
  PROVE  Typed(m) /\ Refs(m) /\ SameShape(n, m)
<1>1. n \in Netlists /\ InRange(n) /\ k # 0 /\ p # 0
  BY ZeroIsNoId DEF Typed
<1> DEFINE s == n.nets[k].pins
           t == m.nets[k].pins
<1>2. /\ m \in Netlists
      /\ m.blocks = n.blocks /\ m.ports = n.ports
      /\ m.blockOf = n.blockOf /\ m.netOf = n.netOf
      /\ m.error = n.error /\ m.dirty = n.dirty
      /\ DOMAIN m.pins = DOMAIN n.pins
      /\ \A x \in DOMAIN n.pins : x # p => m.pins[x] = n.pins[x]
      /\ DOMAIN m.nets = DOMAIN n.nets
      /\ \A l \in DOMAIN n.nets : l # k => m.nets[l] = n.nets[l]
  BY DEF Joined
<1>3. /\ m.pins[p].valid = n.pins[p].valid /\ m.pins[p].port = n.pins[p].port
      /\ m.pins[p].bit = n.pins[p].bit /\ m.pins[p].const = n.pins[p].const
      /\ m.pins[p].net = k /\ m.pins[p].idx = j - 1
      /\ m.nets[k].valid = n.nets[k].valid /\ m.nets[k].name = n.nets[k].name
      /\ t \in Seq(Nat)
  BY DEF Joined
<1>4. /\ DOMAIN t = DOMAIN s \cup {j} /\ t[j] = p
      /\ \A i \in DOMAIN s : i # j => t[i] = s[i]
      /\ j \in DOMAIN s => s[j] = 0
      /\ j \in Nat /\ j >= 1 /\ (IsSink(n, p) <=> j > 1)
  BY DEF Joined
<1>5. /\ Len(s) >= 1 /\ Single(s) /\ \A i \in DOMAIN s : PlaceOK(n, k, i)
  BY DEF Refs, Netted
<1>6. \A l \in DOMAIN n.nets : n.nets[l].valid => \A i \in DOMAIN n.nets[l].pins : n.nets[l].pins[i] # p
  <2> SUFFICES ASSUME NEW l \in DOMAIN n.nets, n.nets[l].valid, NEW i \in DOMAIN n.nets[l].pins,
                      n.nets[l].pins[i] = p
               PROVE  FALSE
    OBVIOUS
  <2>1. PlaceOK(n, l, i) BY DEF Refs, Netted
  <2>2. l # 0 BY <1>1, ZeroIsNoId
  <2> QED BY <2>1, <2>2, <1>1 DEF PlaceOK
<1> HIDE DEF s, t
<1>7. SameShape(n, m)
  BY <1>2, <1>3 DEF SameShape
<1>8. Structure(m) /\ \A x \in DOMAIN n.pins : IsSink(m, x) = IsSink(n, x) /\ PinBlock(m, x) = PinBlock(n, x)
  BY <1>7, ShapeKeepsStructure DEF Refs
<1>9. Owned(m) /\ BlocksNamed(m)
  <2>1. \A x \in DOMAIN n.pins : m.pins[x].valid = n.pins[x].valid /\ m.pins[x].port = n.pins[x].port
    BY <1>2, <1>3
  <2> QED BY <1>2, <2>1 DEF Refs, Owned, BlocksNamed
<1>10. NetsNamed(m)
  <2>1. \A l \in DOMAIN n.nets : m.nets[l].valid = n.nets[l].valid /\ m.nets[l].name = n.nets[l].name
    BY <1>2, <1>3
  <2>2. \A x \in Name : n.netOf[x] # 0 => n.netOf[x] \in DOMAIN n.nets
    BY <1>1 DEF InRange
  <2> QED BY <1>2, <2>1, <2>2 DEF Refs, NetsNamed
<1>11. \A i \in DOMAIN t : i # j => i \in DOMAIN s /\ t[i] = s[i] /\ s[i] # p
  BY <1>4, <1>6 DEF s
<1>12. InRange(m)
  <2>1. \A x \in DOMAIN m.pins : /\ m.pins[x].port \in DOMAIN m.ports
                                 /\ m.pins[x].net # 0 => m.pins[x].net \in DOMAIN m.nets
    BY <1>1, <1>2, <1>3 DEF InRange
  <2>2. ASSUME NEW l \in DOMAIN m.nets, NEW i \in DOMAIN m.nets[l].pins, m.nets[l].pins[i] # 0
        PROVE  m.nets[l].pins[i] \in DOMAIN m.pins
    <3>1. CASE l = k
      <4>1. CASE i = j
        BY <3>1, <4>1, <1>4, <1>2 DEF t
      <4>2. CASE i # j
        BY <3>1, <4>2, <2>2, <1>1, <1>11, <1>2 DEF t, s, InRange
      <4> QED BY <4>1, <4>2
    <3>2. CASE l # k
      BY <3>2, <2>2, <1>1, <1>2 DEF InRange
    <3> QED BY <3>1, <3>2
  <2>3. \A x \in Name : /\ m.blockOf[x] # 0 => m.blockOf[x] \in DOMAIN m.blocks
                        /\ m.netOf[x] # 0 => m.netOf[x] \in DOMAIN m.nets
    BY <1>1, <1>2 DEF InRange
  <2>4. /\ \A b \in DOMAIN m.blocks : /\ m.blocks[b].ports \subseteq DOMAIN m.ports
                                      /\ m.blocks[b].pins \subseteq DOMAIN m.pins
        /\ \A q \in DOMAIN m.ports :
              /\ m.ports[q].block \in DOMAIN m.blocks
              /\ \A i \in DOMAIN m.ports[q].pins : m.ports[q].pins[i] \in DOMAIN m.pins
    BY <1>1, <1>2 DEF InRange
  <2> QED BY <2>1, <2>2, <2>3, <2>4 DEF InRange
<1>13. Netted(m)
  <2>1. ASSUME NEW l \in DOMAIN m.nets, m.nets[l].valid
        PROVE  /\ Len(m.nets[l].pins) >= 1 /\ Single(m.nets[l].pins)
               /\ \A i \in DOMAIN m.nets[l].pins : PlaceOK(m, l, i)
    <3>1. CASE l = k
      <4>1. Len(t) >= 1
        <5>1. Len(t) \in Nat /\ DOMAIN t = 1..Len(t) BY <1>3, LenProperties
        <5>2. 1..Len(t) # {} BY <5>1, <1>4
        <5> QED BY <5>1, <5>2
      <4>2. Single(t)
        BY <1>4, <1>5, <1>11 DEF Single
      <4>3. ASSUME NEW i \in DOMAIN t PROVE PlaceOK(m, k, i)
        <5>1. CASE i = j
          BY <5>1, <1>2, <1>3, <1>4, <1>8 DEF PlaceOK, t
        <5>2. CASE i # j
          <6>1. i \in DOMAIN s /\ t[i] = s[i] /\ s[i] # p BY <5>2, <1>11
          <6>2. PlaceOK(n, k, i) BY <6>1, <1>5
          <6> QED BY <6>1, <6>2, <1>2, <1>8 DEF PlaceOK, t, s
        <5> QED BY <5>1, <5>2
      <4> QED BY <3>1, <4>1, <4>2, <4>3 DEF t
    <3>2. CASE l # k
      <4>1. l \in DOMAIN n.nets /\ m.nets[l] = n.nets[l] /\ n.nets[l].valid
        BY <3>2, <2>1, <1>2
      <4>2. /\ Len(n.nets[l].pins) >= 1 /\ Single(n.nets[l].pins)
            /\ \A i \in DOMAIN n.nets[l].pins : PlaceOK(n, l, i)
        BY Zenon, <4>1 DEF Refs, Netted
      <4>3. \A i \in DOMAIN n.nets[l].pins : PlaceOK(m, l, i)
        BY <4>1, <4>2, <1>2, <1>6, <1>8 DEF PlaceOK
      <4> QED BY <4>1, <4>2, <4>3
    <3> QED BY <3>1, <3>2
  <2>2. ASSUME NEW x \in DOMAIN m.pins, m.pins[x].valid PROVE PinOK(m, x)
    <3>1. CASE x = p
      BY <3>1, <1>3, <1>4 DEF PinOK, t
    <3>2. CASE x # p
      <4>1. m.pins[x] = n.pins[x] /\ PinOK(n, x)
        BY <3>2, <2>2, <1>2 DEF Refs, Netted
      <4>2. CASE n.pins[x].net = k
        <5>1. PICK i \in DOMAIN s : s[i] = x
          BY <4>1, <4>2, <1>1 DEF PinOK, s
        <5>2. i # j /\ i \in DOMAIN t /\ t[i] = x
          <6>1. x # 0 BY Zenon, <1>1, <1>2, ZeroIsNoId
          <6> QED BY <5>1, <6>1, <1>4
        <5> QED BY <4>1, <4>2, <5>2, <1>3 DEF PinOK, t
      <4>3. CASE n.pins[x].net # k
        <5>1. n.pins[x].net # 0 => m.nets[n.pins[x].net] = n.nets[n.pins[x].net]
          BY <4>3, <1>1, <1>2 DEF InRange
        <5> QED BY Zenon, <4>1, <5>1 DEF PinOK
      <4> QED BY <4>2, <4>3
    <3> QED BY <3>1, <3>2
  <2> QED BY <2>1, <2>2 DEF Netted
<1>14. Indexed(m)
  <2> SUFFICES ASSUME ~m.dirty, NEW l \in DOMAIN m.nets, m.nets[l].valid,
                      NEW i \in DOMAIN m.nets[l].pins, m.nets[l].pins[i] # 0
               PROVE  m.pins[m.nets[l].pins[i]].idx = i - 1
    BY DEF Indexed, IndicesAgree, Valid
  <2>1. \A e \in DOMAIN n.nets : n.nets[e].valid => \A u \in DOMAIN n.nets[e].pins :
           n.nets[e].pins[u] # 0 => n.pins[n.nets[e].pins[u]].idx = u - 1
    BY <1>2 DEF Refs, Indexed, IndicesAgree, Valid
  <2>2. CASE l = k
    <3>1. CASE i = j
      BY <2>2, <3>1, <1>3, <1>4 DEF t
    <3>2. CASE i # j
      <4>1. i \in DOMAIN s /\ t[i] = s[i] /\ s[i] # p BY <2>2, <3>2, <1>11 DEF t
      <4>2. n.pins[s[i]].idx = i - 1 BY <4>1, <2>1, <2>2 DEF t, s
      <4>3. s[i] \in DOMAIN n.pins BY <4>1, <2>2, <1>1 DEF InRange, s, t
      <4> QED BY <4>1, <4>2, <4>3, <2>2, <1>2 DEF t
    <3> QED BY <3>1, <3>2
  <2>3. CASE l # k
    <3>1. l \in DOMAIN n.nets /\ m.nets[l] = n.nets[l] /\ n.nets[l].valid
      BY <2>3, <1>2
    <3>2. n.nets[l].pins[i] # p /\ n.nets[l].pins[i] \in DOMAIN n.pins
      BY Zenon, <3>1, <1>1, <1>6 DEF InRange
    <3> QED BY <3>1, <3>2, <2>1, <1>2
  <2> QED BY <2>2, <2>3
<1> QED BY <1>2, <1>7, <1>8, <1>9, <1>10, <1>12, <1>13, <1>14 DEF Typed, Refs

\* create_pin() before the pin joins its net: a new pin of port q, of block b.
PinAdded(n, q, b, p, r, t, m) ==
  /\ m \in Netlists
  /\ m.nets = n.nets /\ m.blockOf = n.blockOf /\ m.netOf = n.netOf
  /\ m.error = n.error /\ m.dirty = n.dirty
  /\ DOMAIN m.pins = DOMAIN n.pins \cup {p}
  /\ \A x \in DOMAIN n.pins : m.pins[x] = n.pins[x]
  /\ m.pins[p] = r
  /\ DOMAIN m.ports = DOMAIN n.ports
  /\ \A x \in DOMAIN n.ports :
        /\ m.ports[x].valid = n.ports[x].valid /\ m.ports[x].block = n.ports[x].block
        /\ m.ports[x].name = n.ports[x].name
        /\ x # q => m.ports[x].pins = n.ports[x].pins
  /\ m.ports[q].pins = t
  /\ DOMAIN m.blocks = DOMAIN n.blocks
  /\ \A x \in DOMAIN n.blocks :
        /\ m.blocks[x].valid = n.blocks[x].valid /\ m.blocks[x].name = n.blocks[x].name
        /\ m.blocks[x].model = n.blocks[x].model /\ m.blocks[x].table = n.blocks[x].table
        /\ m.blocks[x].ports = n.blocks[x].ports
        /\ x # b => m.blocks[x].pins = n.blocks[x].pins
  /\ m.blocks[b].pins = n.blocks[b].pins \cup {p}

\* A pin added to its port and block.
LEMMA AddPin ==
  ASSUME NEW n \in Netlists, NEW q \in DOMAIN n.ports, NEW b \in DOMAIN n.blocks,
         NEW r \in PinRecs, NEW t \in Seq(Nat), NEW p, p = Len(n.pins) + 1,
         NEW m, m = [n EXCEPT !.pins = Append(@, r), !.ports[q].pins = t,
                              !.blocks[b].pins = @ \cup {p}]
  PROVE  PinAdded(n, q, b, p, r, t, m) /\ p \notin DOMAIN n.pins /\ p \in Nat
<1> DEFINE oq == n.ports[q]
           ob == n.blocks[b]
           rq == [oq EXCEPT !.pins = t]
           rb == [ob EXCEPT !.pins = @ \cup {p}]
           e == Append(n.pins, r)
           f == [n.ports EXCEPT ![q] = rq]
           g == [n.blocks EXCEPT ![b] = rb]
<1>1. m = [n EXCEPT !.pins = e, !.ports = f, !.blocks = g]
  BY DEF Netlists, PortRecs, BlockRecs
<1>2. oq \in PortRecs /\ ob \in BlockRecs /\ n.pins \in Seq(PinRecs)
  BY Shape DEF Netlists
<1>3. /\ e \in Seq(PinRecs) /\ DOMAIN e = DOMAIN n.pins \cup {p} /\ p \notin DOMAIN n.pins /\ p \in Nat
      /\ \A x \in DOMAIN n.pins : e[x] = n.pins[x]
      /\ e[p] = r
  <2>1. Len(n.pins) \in Nat BY Shape
  <2> QED BY <1>2, <2>1, AppendFacts
<1> HIDE DEF oq, ob
<1>4. /\ rq \in PortRecs /\ rq.valid = oq.valid /\ rq.block = oq.block /\ rq.name = oq.name
      /\ rq.pins = t
  BY <1>2 DEF PortRecs
<1>5. /\ rb \in BlockRecs /\ rb.valid = ob.valid /\ rb.name = ob.name /\ rb.model = ob.model
      /\ rb.table = ob.table /\ rb.ports = ob.ports /\ rb.pins = ob.pins \cup {p}
  BY <1>2, <1>3 DEF BlockRecs
<1> HIDE DEF rq, rb, e
<1>6. /\ f \in Seq(PortRecs) /\ DOMAIN f = DOMAIN n.ports /\ f[q] = rq
      /\ \A x \in DOMAIN n.ports : x # q => f[x] = n.ports[x]
  <2>1. n.ports \in [1..Len(n.ports) -> PortRecs] /\ Len(n.ports) \in Nat /\ DOMAIN n.ports = 1..Len(n.ports)
    <3>1. n.ports \in Seq(PortRecs) BY DEF Netlists
    <3> QED BY <3>1, LenProperties
  <2>2. f \in [1..Len(n.ports) -> PortRecs]
    BY <2>1, <1>4
  <2>3. f \in Seq(PortRecs) BY <2>1, <2>2, WholeSeq
  <2> QED BY <2>1, <2>2, <2>3
<1>7. /\ g \in Seq(BlockRecs) /\ DOMAIN g = DOMAIN n.blocks /\ g[b] = rb
      /\ \A x \in DOMAIN n.blocks : x # b => g[x] = n.blocks[x]
  <2>1. n.blocks \in [1..Len(n.blocks) -> BlockRecs] /\ Len(n.blocks) \in Nat /\ DOMAIN n.blocks = 1..Len(n.blocks)
    <3>1. n.blocks \in Seq(BlockRecs) BY DEF Netlists
    <3> QED BY <3>1, LenProperties
  <2>2. g \in [1..Len(n.blocks) -> BlockRecs]
    BY <2>1, <1>5
  <2>3. g \in Seq(BlockRecs) BY <2>1, <2>2, WholeSeq
  <2> QED BY <2>1, <2>2, <2>3
<1> HIDE DEF f, g
<1>8. /\ m \in Netlists /\ m.pins = e /\ m.ports = f /\ m.blocks = g /\ m.nets = n.nets
      /\ m.blockOf = n.blockOf /\ m.netOf = n.netOf /\ m.error = n.error /\ m.dirty = n.dirty
  BY <1>1, <1>3, <1>6, <1>7 DEF Netlists
<1>9. /\ \A x \in DOMAIN n.ports :
           /\ m.ports[x].valid = n.ports[x].valid /\ m.ports[x].block = n.ports[x].block
           /\ m.ports[x].name = n.ports[x].name
           /\ x # q => m.ports[x].pins = n.ports[x].pins
      /\ m.ports[q].pins = t
  BY <1>4, <1>6, <1>8 DEF oq
<1>10. /\ \A x \in DOMAIN n.blocks :
            /\ m.blocks[x].valid = n.blocks[x].valid /\ m.blocks[x].name = n.blocks[x].name
            /\ m.blocks[x].model = n.blocks[x].model /\ m.blocks[x].table = n.blocks[x].table
            /\ m.blocks[x].ports = n.blocks[x].ports
            /\ x # b => m.blocks[x].pins = n.blocks[x].pins
       /\ m.blocks[b].pins = n.blocks[b].pins \cup {p}
  BY <1>5, <1>7, <1>8 DEF ob
<1> QED BY <1>3, <1>6, <1>7, <1>8, <1>9, <1>10 DEF PinAdded

\* A pin that port q does not have yet
FreshPin(n, q, bit, p, r) ==
  /\ q \in DOMAIN n.ports /\ n.ports[q].valid
  /\ bit \in 0..LutInputs - 1
  /\ \A i \in DOMAIN n.ports[q].pins : n.pins[n.ports[q].pins[i]].bit # bit
  /\ p \in Nat \ DOMAIN n.pins
  /\ r \in PinRecs /\ r.valid /\ r.port = q /\ r.bit = bit /\ r.net = 0

\* It keeps a netlist good, if the port had no pin of that bit.
LEMMA PinAddedIsGood ==
  ASSUME NEW n, Typed(n), Refs(n), NEW q, NEW bit, NEW p, NEW r, FreshPin(n, q, bit, p, r),
         NEW b, b = n.ports[q].block, NEW m, PinAdded(n, q, b, p, r, InsertByBit(n, q, p, bit), m)
  PROVE  /\ Typed(m) /\ Refs(m)
         /\ \A x \in DOMAIN n.pins : IsSink(m, x) = IsSink(n, x) /\ PinBlock(m, x) = PinBlock(n, x)
         /\ PinBlock(m, p) = b /\ IsSink(m, p) = (n.ports[q].name # "out")
<1> DEFINE t == InsertByBit(n, q, p, bit)
<1>0. /\ q \in DOMAIN n.ports /\ n.ports[q].valid
      /\ bit \in 0..LutInputs - 1
      /\ \A i \in DOMAIN n.ports[q].pins : n.pins[n.ports[q].pins[i]].bit # bit
      /\ p \in Nat /\ p \notin DOMAIN n.pins
      /\ r \in PinRecs /\ r.valid /\ r.port = q /\ r.bit = bit /\ r.net = 0
  BY DEF FreshPin
<1>1. n \in Netlists /\ InRange(n) /\ Structure(n) /\ b \in DOMAIN n.blocks
  BY <1>0 DEF Typed, Refs, InRange
<1>a. t = InsertByBit(n, q, p, bit)
  BY Zenon
<1> HIDE DEF t
<1>b. Inserted(n, q, p, bit, t)
  <2>1. bit \in Nat BY <1>0, LutInputsAssumption
  <2>2. \A i, j \in DOMAIN n.ports[q].pins :
            i < j => n.pins[n.ports[q].pins[i]].bit < n.pins[n.ports[q].pins[j]].bit
    BY <1>0, <1>1 DEF Structure
  <2> QED BY <1>0, <1>a, <2>1, <2>2, InsertFacts
<1>2. /\ t \in Seq(Nat)
      /\ \A i \in DOMAIN t : t[i] = p \/ \E j \in DOMAIN n.ports[q].pins : t[i] = n.ports[q].pins[j]
      /\ \E i \in DOMAIN t : t[i] = p
      /\ \A j \in DOMAIN n.ports[q].pins : \E i \in DOMAIN t : t[i] = n.ports[q].pins[j]
      /\ \A i, j \in DOMAIN t : i < j =>
               (IF t[i] = p THEN bit ELSE n.pins[t[i]].bit)
               < (IF t[j] = p THEN bit ELSE n.pins[t[j]].bit)
  BY <1>0, <1>b DEF Inserted
<1>3. /\ m \in Netlists
      /\ m.nets = n.nets /\ m.blockOf = n.blockOf /\ m.netOf = n.netOf
      /\ m.error = n.error /\ m.dirty = n.dirty
      /\ DOMAIN m.pins = DOMAIN n.pins \cup {p}
      /\ \A x \in DOMAIN n.pins : m.pins[x] = n.pins[x]
      /\ m.pins[p] = r
      /\ DOMAIN m.ports = DOMAIN n.ports
      /\ DOMAIN m.blocks = DOMAIN n.blocks
  BY <1>0 DEF PinAdded
<1>4. /\ \A x \in DOMAIN n.ports :
            /\ m.ports[x].valid = n.ports[x].valid /\ m.ports[x].block = n.ports[x].block
            /\ m.ports[x].name = n.ports[x].name
            /\ x # q => m.ports[x].pins = n.ports[x].pins
      /\ m.ports[q].pins = t
  BY <1>0, <1>a DEF PinAdded
<1>5. /\ \A x \in DOMAIN n.blocks :
            /\ m.blocks[x].valid = n.blocks[x].valid /\ m.blocks[x].name = n.blocks[x].name
            /\ m.blocks[x].model = n.blocks[x].model /\ m.blocks[x].table = n.blocks[x].table
            /\ m.blocks[x].ports = n.blocks[x].ports
            /\ x # b => m.blocks[x].pins = n.blocks[x].pins
      /\ m.blocks[b].pins = n.blocks[b].pins \cup {p}
  BY <1>0 DEF PinAdded
<1>6. /\ \A x \in DOMAIN n.pins : IsSink(m, x) = IsSink(n, x) /\ PinBlock(m, x) = PinBlock(n, x)
      /\ PinBlock(m, p) = b /\ IsSink(m, p) = (n.ports[q].name # "out")
  BY <1>0, <1>1, <1>3, <1>4 DEF IsSink, PinBlock, InRange
<1>7. InRange(m)
  <2>1. \A x \in DOMAIN m.blocks : /\ m.blocks[x].ports \subseteq DOMAIN m.ports
                                   /\ m.blocks[x].pins \subseteq DOMAIN m.pins
    BY <1>0, <1>1, <1>3, <1>5 DEF InRange
  <2>2. ASSUME NEW x \in DOMAIN m.ports
        PROVE  /\ m.ports[x].block \in DOMAIN m.blocks
               /\ \A i \in DOMAIN m.ports[x].pins : m.ports[x].pins[i] \in DOMAIN m.pins
    <3>1. m.ports[x].block \in DOMAIN m.blocks
      BY <1>0, <1>1, <1>3, <1>4 DEF InRange
    <3>2. CASE x = q
      <4>1. \A j \in DOMAIN n.ports[q].pins : n.ports[q].pins[j] \in DOMAIN n.pins
        BY <1>0, <1>1 DEF InRange
      <4> QED BY <1>0, <3>1, <3>2, <4>1, <1>2, <1>3, <1>4
    <3>3. CASE x # q
      BY <1>0, <3>1, <3>3, <1>1, <1>3, <1>4 DEF InRange
    <3> QED BY <1>0, <3>2, <3>3
  <2>3. \A x \in DOMAIN m.pins : /\ m.pins[x].port \in DOMAIN m.ports
                                 /\ m.pins[x].net # 0 => m.pins[x].net \in DOMAIN m.nets
    BY <1>0, <1>1, <1>3 DEF InRange
  <2>4. \A k \in DOMAIN m.nets : \A i \in DOMAIN m.nets[k].pins :
          m.nets[k].pins[i] # 0 => m.nets[k].pins[i] \in DOMAIN m.pins
    BY <1>0, <1>1, <1>3 DEF InRange
  <2>5. \A x \in Name : /\ m.blockOf[x] # 0 => m.blockOf[x] \in DOMAIN m.blocks
                        /\ m.netOf[x] # 0 => m.netOf[x] \in DOMAIN m.nets
    BY Zenon, <1>0, <1>1, <1>3 DEF InRange
  <2> QED BY <1>0, <2>1, <2>2, <2>3, <2>4, <2>5 DEF InRange
<1>8. Structure(m)
  <2>1. \A x \in DOMAIN m.blocks, y \in DOMAIN m.ports :
          y \in m.blocks[x].ports <=> m.ports[y].block = x
    BY <1>0, <1>1, <1>3, <1>4, <1>5 DEF Structure
  <2>2. ASSUME NEW y \in DOMAIN m.ports, NEW x \in DOMAIN m.pins
        PROVE  (\E i \in DOMAIN m.ports[y].pins : m.ports[y].pins[i] = x) <=> m.pins[x].port = y
    <3>1. CASE x = p
      <4>1. m.pins[x].port = q BY <1>0, <3>1, <1>3
      <4>2. CASE y = q
        BY <1>0, <3>1, <4>1, <4>2, <1>2, <1>4
      <4>3. CASE y # q
        <5>1. \A i \in DOMAIN n.ports[y].pins : n.ports[y].pins[i] # p
          BY <1>0, <1>1, <1>3 DEF InRange
        <5> QED BY <1>0, <3>1, <4>1, <4>3, <5>1, <1>3, <1>4
      <4> QED BY <1>0, <4>2, <4>3
    <3>2. CASE x # p
      <4>1. x \in DOMAIN n.pins /\ m.pins[x] = n.pins[x] BY Zenon, <1>0, <3>2, <1>3
      <4>2. (\E i \in DOMAIN n.ports[y].pins : n.ports[y].pins[i] = x) <=> n.pins[x].port = y
        BY <1>0, <4>1, <1>1, <1>3 DEF Structure
      <4>3. CASE y = q
        <5>1. (\E i \in DOMAIN t : t[i] = x) <=> (\E i \in DOMAIN n.ports[q].pins : n.ports[q].pins[i] = x)
          BY <1>0, <3>2, <1>2
        <5> QED BY <1>0, <4>1, <4>2, <4>3, <5>1, <1>4
      <4>4. CASE y # q
        BY <1>0, <4>1, <4>2, <4>4, <1>3, <1>4
      <4> QED BY <1>0, <4>3, <4>4
    <3> QED BY <1>0, <3>1, <3>2
  <2>3. ASSUME NEW x \in DOMAIN m.blocks, NEW y \in DOMAIN m.pins
        PROVE  y \in m.blocks[x].pins <=> PinBlock(m, y) = x
    <3>1. CASE y = p
      <4>1. p \notin n.blocks[x].pins BY <1>0, <1>1, <1>3 DEF InRange
      <4> QED BY <1>0, <3>1, <4>1, <1>3, <1>5, <1>6
    <3>2. CASE y # p
      <4>1. y \in DOMAIN n.pins /\ PinBlock(m, y) = PinBlock(n, y) BY <1>0, <3>2, <1>3, <1>6
      <4>2. y \in n.blocks[x].pins <=> PinBlock(n, y) = x BY <1>0, <4>1, <1>1, <1>3 DEF Structure
      <4> QED BY <1>0, <3>2, <4>1, <4>2, <1>3, <1>5
    <3> QED BY <1>0, <3>1, <3>2
  <2>4. ASSUME NEW y \in DOMAIN m.ports, NEW i \in DOMAIN m.ports[y].pins, NEW j \in DOMAIN m.ports[y].pins, i < j
        PROVE  m.pins[m.ports[y].pins[i]].bit < m.pins[m.ports[y].pins[j]].bit
    <3>1. CASE y = q
      <4>1. \A u \in DOMAIN t : m.pins[t[u]].bit = IF t[u] = p THEN bit ELSE n.pins[t[u]].bit
        <5>1. \A u \in DOMAIN n.ports[q].pins : n.ports[q].pins[u] \in DOMAIN n.pins
          BY <1>0, <1>1 DEF InRange
        <5> QED BY <1>0, <5>1, <1>2, <1>3
      <4> QED BY <1>0, <3>1, <4>1, <2>4, <1>2, <1>4
    <3>2. CASE y # q
      <4>1. m.ports[y].pins = n.ports[y].pins /\ y \in DOMAIN n.ports BY <1>0, <3>2, <1>3, <1>4
      <4>2. n.ports[y].pins[i] \in DOMAIN n.pins /\ n.ports[y].pins[j] \in DOMAIN n.pins
        BY Zenon, <1>0, <4>1, <1>1 DEF InRange
      <4> QED BY <1>0, <4>1, <4>2, <2>4, <1>1, <1>3 DEF Structure
    <3> QED BY <1>0, <3>1, <3>2
  <2>5. \A y, z \in DOMAIN m.ports :
          m.ports[y].block = m.ports[z].block /\ m.ports[y].name = m.ports[z].name => y = z
    BY <1>0, <1>1, <1>3, <1>4 DEF Structure
  <2> QED BY Zenon, <1>0, <2>1, <2>2, <2>3, <2>4, <2>5 DEF Structure
<1>9. Owned(m)
  <2>1. \A y \in DOMAIN m.ports : m.ports[y].valid => m.blocks[m.ports[y].block].valid
    BY <1>0, <1>1, <1>3, <1>4, <1>5 DEF Refs, Owned, InRange
  <2>2. \A x \in DOMAIN m.pins : m.pins[x].valid => m.ports[m.pins[x].port].valid
    BY <1>0, <1>1, <1>3, <1>4 DEF Refs, Owned, InRange
  <2> QED BY Zenon, <1>0, <2>1, <2>2 DEF Owned
<1>10. Netted(m)
  <2>1. ASSUME NEW k \in DOMAIN m.nets, m.nets[k].valid
        PROVE  /\ Len(m.nets[k].pins) >= 1 /\ Single(m.nets[k].pins)
               /\ \A i \in DOMAIN m.nets[k].pins : PlaceOK(m, k, i)
    <3>1. k \in DOMAIN n.nets /\ n.nets[k].valid /\ m.nets[k] = n.nets[k]
      BY <1>0, <2>1, <1>3
    <3>2. /\ Len(n.nets[k].pins) >= 1 /\ Single(n.nets[k].pins)
          /\ \A i \in DOMAIN n.nets[k].pins : PlaceOK(n, k, i)
      BY Zenon, <1>0, <3>1 DEF Refs, Netted
    <3>3. \A i \in DOMAIN n.nets[k].pins : PlaceOK(m, k, i)
      BY <1>0, <3>1, <3>2, <1>3, <1>6 DEF PlaceOK
    <3> QED BY <1>0, <3>1, <3>2, <3>3
  <2>2. ASSUME NEW x \in DOMAIN m.pins, m.pins[x].valid PROVE PinOK(m, x)
    <3>1. CASE x = p
      BY Zenon, <1>0, <3>1, <1>3 DEF PinOK
    <3>2. CASE x # p
      <4>1. m.pins[x] = n.pins[x] /\ PinOK(n, x)
        BY <1>0, <3>2, <2>2, <1>3 DEF Refs, Netted
      <4> QED BY <1>0, <4>1, <1>3 DEF PinOK
    <3> QED BY <1>0, <3>1, <3>2
  <2> QED BY <1>0, <2>1, <2>2 DEF Netted
<1>11. BlocksNamed(m) /\ NetsNamed(m)
  <2>1. \A x \in Name : n.blockOf[x] # 0 => n.blockOf[x] \in DOMAIN n.blocks
    BY <1>0, <1>1 DEF InRange
  <2> QED BY <1>0, <2>1, <1>3, <1>5 DEF Refs, BlocksNamed, NetsNamed
<1>12. Indexed(m)
  <2> SUFFICES ASSUME ~m.dirty, NEW k \in DOMAIN m.nets, m.nets[k].valid,
                      NEW i \in DOMAIN m.nets[k].pins, m.nets[k].pins[i] # 0
               PROVE  m.pins[m.nets[k].pins[i]].idx = i - 1
    BY <1>0 DEF Indexed, IndicesAgree, Valid
  <2>1. IndicesAgree(n) BY <1>0, <1>3 DEF Refs, Indexed
  <2>2. n.nets[k].pins[i] \in DOMAIN n.pins BY <1>0, <1>1, <1>3 DEF InRange
  <2> QED BY <1>0, <2>1, <2>2, <1>3 DEF IndicesAgree, Valid
<1> QED BY <1>0, <1>3, <1>6, <1>7, <1>8, <1>9, <1>10, <1>11, <1>12 DEF Typed, Refs

\* Pin p of port q, of block b, was made and joined net k at place j.
PinMade(n, q, b, p, k, j, const, m) ==
  /\ m.blockOf = n.blockOf /\ m.netOf = n.netOf
  /\ m.error = n.error /\ m.dirty = n.dirty
  /\ p \in Nat \ DOMAIN n.pins /\ DOMAIN m.pins = DOMAIN n.pins \cup {p}
  /\ \A x \in DOMAIN n.pins : m.pins[x] = n.pins[x]
  /\ m.pins[p].valid /\ m.pins[p].port = q /\ m.pins[p].net = k /\ m.pins[p].const = const
  /\ DOMAIN m.ports = DOMAIN n.ports
  /\ \A x \in DOMAIN n.ports :
        /\ m.ports[x].valid = n.ports[x].valid /\ m.ports[x].block = n.ports[x].block
        /\ m.ports[x].name = n.ports[x].name
        /\ x # q => m.ports[x].pins = n.ports[x].pins
  /\ DOMAIN m.blocks = DOMAIN n.blocks
  /\ \A x \in DOMAIN n.blocks :
        /\ m.blocks[x].valid = n.blocks[x].valid /\ m.blocks[x].name = n.blocks[x].name
        /\ m.blocks[x].model = n.blocks[x].model /\ m.blocks[x].table = n.blocks[x].table
        /\ m.blocks[x].ports = n.blocks[x].ports
        /\ x # b => m.blocks[x].pins = n.blocks[x].pins
  /\ m.blocks[b].pins = n.blocks[b].pins \cup {p}
  /\ k \in DOMAIN n.nets /\ n.nets[k].valid /\ DOMAIN m.nets = DOMAIN n.nets
  /\ \A l \in DOMAIN n.nets : l # k => m.nets[l] = n.nets[l]
  /\ m.nets[k].valid = n.nets[k].valid /\ m.nets[k].name = n.nets[k].name
  /\ DOMAIN m.nets[k].pins = DOMAIN n.nets[k].pins \cup {j}
  /\ m.nets[k].pins[j] = p
  /\ \A i \in DOMAIN n.nets[k].pins : i # j => m.nets[k].pins[i] = n.nets[k].pins[i]
  /\ j \in DOMAIN n.nets[k].pins => n.nets[k].pins[j] = 0
  /\ j \in Nat /\ j >= 1 /\ (n.ports[q].name # "out" <=> j > 1)

\* create_pin()
LEMMA CreatePinEffect ==
  ASSUME NEW n, Good(n), n.error = "none", NEW q \in DOMAIN n.ports, NEW b, b = n.ports[q].block,
         NEW bit \in Nat, NEW k, NEW const \in BOOLEAN, NEW m, m = CreatePin(n, q, bit, k, const)
  PROVE  /\ Good(m)
         /\ \/ /\ m.error # "none"
               /\ n.ports[q].valid /\ ValidId(n.nets, k) /\ n.ports[q].pins = <<>>
                  /\ bit < PortWidth(n.blocks[b].model, n.ports[q].name)
                  => n.ports[q].name = "out" /\ n.nets[k].pins[1] # 0
            \/ /\ m = n /\ ValidId(n.nets, k)
               /\ \E p \in DOMAIN n.pins : n.pins[p].valid /\ n.pins[p].port = q /\ n.pins[p].net = k
            \/ \E p, j : PinMade(n, q, b, p, k, j, const, m)
<1> DEFINE p == Len(n.pins) + 1
           old == FindPin(n, q, bit)
           r == [valid |-> TRUE, port |-> q, bit |-> bit, net |-> 0, idx |-> -1, const |-> const]
           t == InsertByBit(n, q, p, bit)
           a == [n EXCEPT !.pins = Append(@, r), !.ports[q].pins = t, !.blocks[b].pins = @ \cup {p}]
           Found == {x \in DOMAIN n.pins : x \in ToSet(n.ports[q].pins) /\ n.pins[x].bit = bit}
<1>1. n \in Netlists /\ InRange(n) /\ Typed(n) /\ Refs(n) /\ b \in DOMAIN n.blocks
  BY DEF Good, Typed, InRange
<1>2. CASE \/ ~ValidId(n.ports, q)
           \/ bit >= PortWidth(n.blocks[b].model, n.ports[q].name)
           \/ ~ValidId(n.nets, k)
  <2>1. m = Fail(n, "assert") BY <1>2 DEF CreatePin
  <2>2. ValidId(n.ports, q) <=> n.ports[q].valid BY DEF ValidId, Valid
  <2>3. PortWidth(n.blocks[b].model, n.ports[q].name) \in Nat
    BY LutInputsAssumption DEF PortWidth
  <2>4. Good(m) /\ m.error # "none" BY <2>1, <1>1, FailIsGood
  <2> HIDE DEF p, old, r, t, a, Found
  <2>5. ~(n.ports[q].valid /\ ValidId(n.nets, k) /\ bit < PortWidth(n.blocks[b].model, n.ports[q].name))
    BY <1>2, <2>2, <2>3
  <2> QED BY <2>4, <2>5
<1>3. ASSUME ValidId(n.ports, q), ~(bit >= PortWidth(n.blocks[b].model, n.ports[q].name)),
             ValidId(n.nets, k)
      PROVE  /\ n.ports[q].valid /\ bit \in 0..LutInputs - 1 /\ k \in DOMAIN n.nets /\ n.nets[k].valid
             /\ bit < PortWidth(n.blocks[b].model, n.ports[q].name)
  <2>1. PortWidth(n.blocks[b].model, n.ports[q].name) \in {1, LutInputs}
    BY DEF PortWidth
  <2> QED BY <1>3, <2>1, LutInputsAssumption DEF ValidId, Valid
<1>4. \A x \in Found : x # 0 /\ n.pins[x].port = q /\ \E i \in DOMAIN n.ports[q].pins : n.ports[q].pins[i] = x
  <2> TAKE x \in Found
  <2>1. \E i \in DOMAIN n.ports[q].pins : n.ports[q].pins[i] = x BY DEF ToSet
  <2> QED BY <2>1, <1>1, ZeroIsNoId DEF Refs, Structure
<1>5. old = IF Found = {} THEN 0 ELSE CHOOSE x \in Found : TRUE
  BY DEF FindPin
<1>6. /\ Found # {} => old \in Found
      /\ old = 0 <=> Found = {}
  <2>1. Found # {} => old \in Found BY <1>5
  <2> QED BY <2>1, <1>4, <1>5
<1>7. \A i \in DOMAIN n.ports[q].pins : n.ports[q].pins[i] \in DOMAIN n.pins
  BY <1>1 DEF InRange
<1>8. CASE /\ ValidId(n.ports, q) /\ ~(bit >= PortWidth(n.blocks[b].model, n.ports[q].name))
           /\ ValidId(n.nets, k) /\ old # 0
  <2>0. old \in Found /\ Found # {} BY <1>6, <1>8
  <2>1. n.ports[q].pins # <<>> BY <2>0, <1>4
  <2>2. m = IF n.pins[old].valid /\ n.pins[old].net = k /\ n.pins[old].const = const
            THEN n ELSE Fail(n, "assert")
    BY <1>8 DEF CreatePin
  <2>3. CASE n.pins[old].valid /\ n.pins[old].net = k /\ n.pins[old].const = const
    <3>1. m = n BY <2>2, <2>3
    <3>2. old \in DOMAIN n.pins /\ n.pins[old].port = q BY <2>0, <1>4
    <3> HIDE DEF old
    <3> QED BY <3>1, <3>2, <2>3, <1>8
  <2>4. CASE ~(n.pins[old].valid /\ n.pins[old].net = k /\ n.pins[old].const = const)
    <3>1. m = Fail(n, "assert") BY <2>2, <2>4
    <3>2. Good(m) /\ m.error # "none" BY <3>1, <1>1, FailIsGood
    <3> QED BY <3>2, <2>1
  <2> QED BY <2>3, <2>4
<1>9. CASE /\ ValidId(n.ports, q) /\ ~(bit >= PortWidth(n.blocks[b].model, n.ports[q].name))
           /\ ValidId(n.nets, k) /\ old = 0
  <2>1. m = JoinNet(a, p, k)
    BY <1>9 DEF CreatePin
  <2>2. /\ n.ports[q].valid /\ bit \in 0..LutInputs - 1 /\ k \in DOMAIN n.nets /\ n.nets[k].valid
    BY <1>3, <1>9
  <2>3. \A i \in DOMAIN n.ports[q].pins : n.pins[n.ports[q].pins[i]].bit # bit
    <3> SUFFICES ASSUME NEW i \in DOMAIN n.ports[q].pins, n.pins[n.ports[q].pins[i]].bit = bit
                 PROVE  FALSE
      OBVIOUS
    <3>1. n.ports[q].pins[i] \in Found BY <1>7 DEF ToSet
    <3> QED BY <3>1, <1>6, <1>9
  <2>4. r \in PinRecs /\ r.valid /\ r.port = q /\ r.bit = bit /\ r.net = 0 /\ r.const = const
    <3>1. q \in Nat BY <1>1, Shape
    <3> QED BY <3>1, <2>2 DEF PinRecs
  <2>5. Len(n.pins) \in Nat /\ DOMAIN n.pins = 1..Len(n.pins)
    BY <1>1, Shape
  <2>6. p \in Nat /\ p \notin DOMAIN n.pins
    BY <2>5
  <2>7. t \in Seq(Nat)
    <3>1. bit \in Nat OBVIOUS
    <3>2. \A i, j \in DOMAIN n.ports[q].pins :
              i < j => n.pins[n.ports[q].pins[i]].bit < n.pins[n.ports[q].pins[j]].bit
      BY <1>1 DEF Refs, Structure
    <3> HIDE DEF p
    <3>3. t = InsertByBit(n, q, p, bit) BY Zenon
    <3> HIDE DEF t
    <3>4. Inserted(n, q, p, bit, t) BY <1>1, <2>3, <2>6, <3>2, <3>3, InsertFacts
    <3> QED BY <3>4 DEF Inserted
  <2>8. p = Len(n.pins) + 1 /\ t = InsertByBit(n, q, p, bit)
    OBVIOUS
  <2>9. a = [n EXCEPT !.pins = Append(@, r), !.ports[q].pins = t, !.blocks[b].pins = @ \cup {p}]
    OBVIOUS
  <2> HIDE DEF p, t, r, a, Found, old
  <2>10. PinAdded(n, q, b, p, r, t, a)
    BY Zenon, <1>1, <2>4, <2>7, <2>8, <2>9, AddPin
  <2>11. /\ Typed(a) /\ Refs(a)
         /\ \A x \in DOMAIN n.pins : IsSink(a, x) = IsSink(n, x) /\ PinBlock(a, x) = PinBlock(n, x)
         /\ PinBlock(a, p) = b /\ IsSink(a, p) = (n.ports[q].name # "out")
    <3>1. PinAdded(n, q, b, p, r, InsertByBit(n, q, p, bit), a)
      BY <2>8, <2>10
    <3>2. FreshPin(n, q, bit, p, r)
      BY <2>2, <2>3, <2>4, <2>6 DEF FreshPin
    <3> QED BY <1>1, <3>1, <3>2, PinAddedIsGood
  <2>12. /\ a.nets = n.nets /\ a.error = n.error /\ a.blockOf = n.blockOf /\ a.netOf = n.netOf
         /\ a.dirty = n.dirty
         /\ p \in DOMAIN a.pins /\ a.pins[p] = r /\ DOMAIN a.pins = DOMAIN n.pins \cup {p}
         /\ \A x \in DOMAIN n.pins : a.pins[x] = n.pins[x]
    BY <2>10 DEF PinAdded
  <2>13. CASE m = Fail(a, "assert") /\ ~IsSink(a, p) /\ a.nets[k].pins[1] # 0
    <3>1. Good(m) /\ m.error # "none" BY <2>11, <2>13, FailIsGood
    <3>2. n.ports[q].name = "out" /\ n.nets[k].pins[1] # 0 BY <2>11, <2>12, <2>13
    <3> QED BY <3>1, <3>2
  <2>14. ASSUME NEW j, Joined(a, p, k, j, m)
         PROVE  Good(m) /\ PinMade(n, q, b, p, k, j, const, m)
    <3>1. Typed(m) /\ Refs(m) /\ SameShape(a, m)
      BY <2>2, <2>4, <2>11, <2>12, <2>14, JoinedIsGood
    <3>2. /\ m.blocks = a.blocks /\ m.ports = a.ports
          /\ m.blockOf = n.blockOf /\ m.netOf = n.netOf
          /\ m.error = n.error /\ m.dirty = n.dirty
      BY <2>12, <2>14 DEF Joined
    <3>3. /\ p \in Nat \ DOMAIN n.pins /\ DOMAIN m.pins = DOMAIN n.pins \cup {p}
          /\ \A x \in DOMAIN n.pins : m.pins[x] = n.pins[x]
          /\ m.pins[p].valid /\ m.pins[p].port = q /\ m.pins[p].net = k /\ m.pins[p].const = const
      BY <2>4, <2>6, <2>12, <2>14 DEF Joined
    <3>4. /\ DOMAIN m.ports = DOMAIN n.ports
          /\ \A x \in DOMAIN n.ports :
                /\ m.ports[x].valid = n.ports[x].valid /\ m.ports[x].block = n.ports[x].block
                /\ m.ports[x].name = n.ports[x].name
                /\ x # q => m.ports[x].pins = n.ports[x].pins
          /\ DOMAIN m.blocks = DOMAIN n.blocks
          /\ \A x \in DOMAIN n.blocks :
                /\ m.blocks[x].valid = n.blocks[x].valid /\ m.blocks[x].name = n.blocks[x].name
                /\ m.blocks[x].model = n.blocks[x].model /\ m.blocks[x].table = n.blocks[x].table
                /\ m.blocks[x].ports = n.blocks[x].ports
                /\ x # b => m.blocks[x].pins = n.blocks[x].pins
          /\ m.blocks[b].pins = n.blocks[b].pins \cup {p}
      BY <2>10, <3>2 DEF PinAdded
    <3>5. /\ k \in DOMAIN n.nets /\ n.nets[k].valid /\ DOMAIN m.nets = DOMAIN n.nets
          /\ \A l \in DOMAIN n.nets : l # k => m.nets[l] = n.nets[l]
          /\ m.nets[k].valid = n.nets[k].valid /\ m.nets[k].name = n.nets[k].name
      <4>1. a.nets = n.nets BY <2>12
      <4>2. /\ DOMAIN m.nets = DOMAIN a.nets /\ \A l \in DOMAIN a.nets : l # k => m.nets[l] = a.nets[l]
            /\ m.nets[k].valid = a.nets[k].valid /\ m.nets[k].name = a.nets[k].name
        BY <2>14 DEF Joined
      <4> QED BY <2>2, <4>1, <4>2
    <3>6. /\ DOMAIN m.nets[k].pins = DOMAIN n.nets[k].pins \cup {j}
          /\ m.nets[k].pins[j] = p
          /\ \A i \in DOMAIN n.nets[k].pins : i # j => m.nets[k].pins[i] = n.nets[k].pins[i]
          /\ j \in DOMAIN n.nets[k].pins => n.nets[k].pins[j] = 0
          /\ j \in Nat /\ j >= 1 /\ (n.ports[q].name # "out" <=> j > 1)
      <4>1. a.nets = n.nets BY <2>12
      <4>2. IsSink(a, p) <=> n.ports[q].name # "out" BY <2>11
      <4>3. /\ DOMAIN m.nets[k].pins = DOMAIN a.nets[k].pins \cup {j}
            /\ m.nets[k].pins[j] = p
            /\ \A i \in DOMAIN a.nets[k].pins : i # j => m.nets[k].pins[i] = a.nets[k].pins[i]
            /\ j \in DOMAIN a.nets[k].pins => a.nets[k].pins[j] = 0
            /\ j \in Nat /\ j >= 1 /\ (IsSink(a, p) <=> j > 1)
        BY <2>14 DEF Joined
      <4> QED BY ONLY <4>1, <4>2, <4>3
    <3>7. PinMade(n, q, b, p, k, j, const, m)
      BY <3>2, <3>3, <3>4, <3>5, <3>6 DEF PinMade
    <3> QED BY <3>1, <3>7 DEF Good
  <2>15. \/ m = Fail(a, "assert") /\ ~IsSink(a, p) /\ a.nets[k].pins[1] # 0
         \/ \E j : Joined(a, p, k, j, m)
    BY <2>1, <2>2, <2>11, <2>12, JoinNetJoins DEF Refs
  <2> QED BY <2>13, <2>14, <2>15
<1> QED BY <1>2, <1>8, <1>9

-----------------------------------------------------------------------------
(* Joining two nets.                                                       *)

\* What the loop of merge_nets() moves: pins of places after the first, each once.
MovedFrom(pins, v) ==
  /\ v \in Seq(Nat) /\ Single(v)
  /\ \A i \in DOMAIN v : v[i] # 0 /\ \E j \in DOMAIN pins : j > 1 /\ pins[j] = v[i]

\* The loop's state: what its storage holds after the first place, its length
\* and what it moved are of the pins it started with.
Moving(pins, r) ==
  /\ DOMAIN r.slots = DOMAIN pins
  /\ \A k \in DOMAIN pins : k > 1 => \E j \in DOMAIN pins : j > 1 /\ pins[j] = r.slots[k]
  /\ r.len \in Int /\ r.len <= Len(pins)
  /\ MovedFrom(pins, r.moved)

\* One round of merge_nets()'s loop.
MoveOne(pins, r, i) ==
  LET p == r.slots[i]
      at == {k \in 2..r.len : r.slots[k] = p}
  IN  [slots |-> [k \in 1..Len(pins) |->
                    IF k < r.len /\ \E e \in at : e =< k
                    THEN r.slots[k + 1] ELSE r.slots[k]],
       len |-> r.len - Cardinality(at),
       moved |-> Append(Without(r.moved, {p}), p)]

\* A round keeps what the loop maintains.
LEMMA MoveOneMoves ==
  ASSUME NEW pins \in Seq(Nat), \A j \in DOMAIN pins : j > 1 => pins[j] # 0,
         NEW r, Moving(pins, r), NEW i \in DOMAIN pins, i > 1
  PROVE  Moving(pins, MoveOne(pins, r, i))
<1> DEFINE n == Len(pins)
           p == r.slots[i]
           at == {k \in 2..r.len : r.slots[k] = p}
           w == Without(r.moved, {p})
           v == Append(w, p)
           sl == [k \in 1..n |-> IF k < r.len /\ \E e \in at : e =< k
                                 THEN r.slots[k + 1] ELSE r.slots[k]]
           m == MoveOne(pins, r, i)
<1>1. n \in Nat /\ DOMAIN pins = 1..n /\ \A j \in 1..n : pins[j] \in Nat
  OBVIOUS
<1>2. PICK j0 \in DOMAIN pins : j0 > 1 /\ pins[j0] = p
  BY DEF Moving
<1>3. p \in Nat /\ p # 0
  BY <1>1, <1>2
<1>4. m.slots = sl /\ m.len = r.len - Cardinality(at) /\ m.moved = v
  BY DEF MoveOne
<1>5. m.len \in Int /\ m.len <= n
  <2>1. r.len \in Int /\ r.len <= n BY DEF Moving
  <2>2. at \in SUBSET (1..n) BY <2>1, <1>1
  <2>3. Cardinality(at) \in 0..n BY <2>2, <1>1, PositionsFinite
  <2> HIDE DEF at
  <2> QED BY <2>1, <2>3, <1>1, <1>4
<1>6. DOMAIN m.slots = DOMAIN pins /\ \A k \in DOMAIN pins : k > 1 => \E j \in DOMAIN pins : j > 1 /\ pins[j] = m.slots[k]
  <2>1. DOMAIN sl = DOMAIN pins BY <1>1
  <2>2. ASSUME NEW k \in DOMAIN pins, k > 1
        PROVE  \E j \in DOMAIN pins : j > 1 /\ pins[j] = sl[k]
    <3>1. CASE k < r.len /\ \E e \in at : e =< k
      <4>1. sl[k] = r.slots[k + 1] BY <3>1, <1>1
      <4>0. r.len \in Int /\ r.len <= n /\ k \in 1..n BY <1>1 DEF Moving
      <4>2. k + 1 \in 1..n /\ k + 1 > 1
        <5> HIDE DEF n, at
        <5> QED BY <3>1, <2>2, <1>1, <4>0
      <4>3. \A l \in DOMAIN pins : l > 1 => \E j \in DOMAIN pins : j > 1 /\ pins[j] = r.slots[l]
        BY DEF Moving
      <4>4. k + 1 \in DOMAIN pins BY <4>2, <1>1
      <4> HIDE DEF sl, at, n
      <4> QED BY <4>1, <4>2, <4>3, <4>4
    <3>2. CASE ~(k < r.len /\ \E e \in at : e =< k)
      <4>1. sl[k] = r.slots[k] BY <3>2, <1>1
      <4> HIDE DEF sl
      <4> QED BY <4>1, <2>2 DEF Moving
    <3> QED BY <3>1, <3>2
  <2> HIDE DEF sl, m
  <2> QED BY <1>4, <2>1, <2>2
<1>7. MovedFrom(pins, v)
  <2>1. r.moved \in Seq(Nat) /\ Single(r.moved) BY DEF Moving, MovedFrom
  <2>2. /\ w \in Seq(Nat)
        /\ \A k \in DOMAIN w : \E l \in DOMAIN r.moved : w[k] = r.moved[l] /\ r.moved[l] \notin {p}
        /\ Single(w)
    BY <2>1, WithoutFacts
  <2> HIDE DEF w, p
  <2>3. /\ v \in Seq(Nat) /\ DOMAIN v = DOMAIN w \cup {Len(w) + 1}
        /\ \A k \in DOMAIN w : v[k] = w[k]
        /\ v[Len(w) + 1] = p
    BY <2>2, <1>3, AppendFacts
  <2> HIDE DEF v
  <2>7. \A l \in DOMAIN r.moved :
          r.moved[l] # 0 /\ \E j \in DOMAIN pins : j > 1 /\ pins[j] = r.moved[l]
    BY DEF Moving, MovedFrom
  <2>4. \A k \in DOMAIN w : w[k] # p /\ w[k] # 0 /\ \E j \in DOMAIN pins : j > 1 /\ pins[j] = w[k]
    BY <2>2, <2>7
  <2>5. \A k \in DOMAIN v : v[k] # 0 /\ \E j \in DOMAIN pins : j > 1 /\ pins[j] = v[k]
    BY <2>3, <2>4, <1>2, <1>3
  <2>6. Single(v)
    BY <2>2, <2>3, <2>4 DEF Single
  <2> QED BY <2>3, <2>5, <2>6 DEF MovedFrom
<1>8. MovedFrom(pins, m.moved)
  BY <1>4, <1>7
<1>9. Moving(pins, m)
  <2> HIDE DEF m
  <2> QED BY <1>5, <1>6, <1>8 DEF Moving
<1> QED BY <1>9

\* The loop, step by step
MoveSteps(pins, f) ==
  /\ f[1] = [slots |-> pins, len |-> Len(pins), moved |-> <<>>]
  /\ \A i \in 2..Len(pins) : f[i] = MoveOne(pins, f[i - 1], i)
  /\ MoveSinks(pins) = f[Len(pins)].moved

\* The loop's rounds.
LEMMA MoveSinksSteps ==
  ASSUME NEW pins \in Seq(Nat), Len(pins) >= 1
  PROVE  \E f : MoveSteps(pins, f)
<1> DEFINE L == Len(pins)
           p0 == [slots |-> pins, len |-> L, moved |-> <<>>]
           G(x, i) == MoveOne(pins, x, i)
           Is(f, k) == f = [i \in 1..k |-> IF i = 1 THEN p0 ELSE G(f[i - 1], i)]
           All == {k \in Nat : \E f : Is(f, k)}
<1>0. L \in Nat /\ L >= 1 OBVIOUS
<1> HIDE DEF p0, G
<1>1. 0 \in All
  <2>1. Is([i \in 1..0 |-> p0], 0)
    OBVIOUS
  <2> HIDE DEF Is
  <2> QED BY <2>1
<1>2. \A k \in Nat : k \in All => k + 1 \in All
  <2> SUFFICES ASSUME NEW k \in Nat, k \in All PROVE \E f : Is(f, k + 1)
    <3> HIDE DEF Is
    <3> QED OBVIOUS
  <2>1. PICK f : Is(f, k)
    <3> HIDE DEF Is
    <3> QED OBVIOUS
  <2> DEFINE g == [i \in 1..(k + 1) |-> IF i = k + 1 THEN (IF i = 1 THEN p0 ELSE G(f[k], k + 1)) ELSE f[i]]
  <2>2. ASSUME NEW i \in 1..(k + 1)
        PROVE  g[i] = IF i = 1 THEN p0 ELSE G(g[i - 1], i)
    <3>0. CASE i = k + 1 /\ i = 1
      BY <3>0
    <3>1. CASE i = k + 1 /\ i # 1
      <4>1. g[i] = G(f[k], k + 1)
        BY <3>1
      <4>2. i - 1 = k /\ k \in 1..(k + 1) /\ k # k + 1
        BY <3>1
      <4>3. g[i - 1] = f[k]
        BY <4>2
      <4> HIDE DEF g
      <4> QED BY <3>1, <4>1, <4>3
    <3>2. CASE i # k + 1
      <4>1. i \in 1..k /\ g[i] = f[i]
        BY <3>2
      <4>2. f[i] = IF i = 1 THEN p0 ELSE G(f[i - 1], i)
        BY <2>1, <4>1
      <4>3. i # 1 => g[i - 1] = f[i - 1]
        BY <4>1
      <4> HIDE DEF g
      <4> QED BY <4>1, <4>2, <4>3
    <3> QED BY <3>0, <3>1, <3>2
  <2>3. g = [i \in 1..(k + 1) |-> g[i]]
    OBVIOUS
  <2>4. Is(g, k + 1)
    <3> HIDE DEF g
    <3> QED BY <2>2, <2>3
  <2> HIDE DEF Is, g
  <2> QED BY <2>4
<1>3. L \in All
  <2> HIDE DEF All, L
  <2>1. Nat \subseteq All
    BY <1>1, <1>2, NatSetInduction
  <2> QED BY <2>1, <1>0
<1>4. \E f : Is(f, L)
  <2> HIDE DEF Is
  <2> QED BY <1>3
<1> DEFINE h == CHOOSE f : Is(f, L)
<1>5. Is(h, L)
  <2> HIDE DEF Is
  <2> QED BY <1>4
<1>6. MoveSinks(pins) = h[L].moved
  BY DEF MoveSinks, p0, G, MoveOne
<1> HIDE DEF h
<1>7. 1 \in 1..L /\ \A i \in 2..L : i \in 1..L /\ i # 1
  BY <1>0
<1>8. h[1] = p0 /\ \A i \in 2..L : h[i] = G(h[i - 1], i)
  BY <1>5, <1>7
<1>9. MoveSteps(pins, h)
  BY <1>6, <1>8 DEF MoveSteps, p0, G
<1> QED BY <1>9

\* What the loop moves: pins of the merged net, each once.
LEMMA MoveSinksFacts ==
  ASSUME NEW pins \in Seq(Nat), Len(pins) >= 1, \A j \in DOMAIN pins : j > 1 => pins[j] # 0
  PROVE  MovedFrom(pins, MoveSinks(pins))
<1>1. PICK f : MoveSteps(pins, f)
  BY MoveSinksSteps
<1> DEFINE L == Len(pins)
           All == {i \in Nat : i + 1 <= L => Moving(pins, f[i + 1])}
<1>2. L \in Nat /\ DOMAIN pins = 1..L OBVIOUS
<1>3. 0 \in All
  <2>1. f[1] = [slots |-> pins, len |-> L, moved |-> <<>>] BY <1>1 DEF MoveSteps
  <2>2. f[1].slots = pins /\ f[1].len = L /\ f[1].moved = <<>> BY <2>1
  <2>3. MovedFrom(pins, <<>>)
    <3>1. <<>> \in Seq(Nat) /\ DOMAIN <<>> = {}
      OBVIOUS
    <3> QED BY <3>1 DEF MovedFrom, Single
  <2> QED BY <2>2, <2>3, <1>2 DEF Moving
<1>4. \A i \in Nat : i \in All => i + 1 \in All
  <2> SUFFICES ASSUME NEW i \in Nat, i \in All, (i + 1) + 1 <= L PROVE Moving(pins, f[(i + 1) + 1])
    OBVIOUS
  <2>1. Moving(pins, f[i + 1]) BY <1>2
  <2> DEFINE k == (i + 1) + 1
  <2>2. k \in 2..L /\ k - 1 = i + 1 /\ k \in DOMAIN pins /\ k > 1 BY <1>2
  <2>3. f[k] = MoveOne(pins, f[k - 1], k) BY <1>1, <2>2 DEF MoveSteps
  <2> HIDE DEF k, L
  <2>4. Moving(pins, MoveOne(pins, f[k - 1], k))
    BY <2>1, <2>2, MoveOneMoves
  <2> QED BY <2>3, <2>4 DEF k
<1>5. L - 1 \in All
  <2> HIDE DEF All
  <2>1. Nat \subseteq All BY <1>3, <1>4, NatSetInduction
  <2>2. L - 1 \in Nat BY <1>2
  <2> QED BY <2>1, <2>2
<1>6. Moving(pins, f[L])
  <2>1. (L - 1) + 1 = L BY <1>2
  <2> HIDE DEF L
  <2> QED BY <1>5, <2>1, <1>2
<1> QED BY <1>1, <1>6 DEF Moving, MoveSteps

\* The table once the pins that s lists name net k.
Linked(table, s, k, i, t) ==
  /\ t \in Seq(PinRecs) /\ DOMAIN t = DOMAIN table
  /\ \A p \in DOMAIN table :
        /\ t[p].valid = table[p].valid /\ t[p].port = table[p].port
        /\ t[p].bit = table[p].bit /\ t[p].const = table[p].const
        /\ (\E j \in DOMAIN s : s[j] = p) => t[p].net = k
        /\ (\A j \in DOMAIN s : s[j] # p) => t[p] = table[p]
  /\ \A p \in DOMAIN table, j \in DOMAIN s :
        s[j] = p /\ (\A l \in DOMAIN s : s[l] = p => l = j) => t[p].idx = i + j - 1

\* Linking a vector's pins to a net.
LEMMA LinkFacts ==
  ASSUME NEW table \in Seq(PinRecs), NEW s \in Seq(Nat), NEW k \in Nat, NEW i \in Nat
  PROVE  Linked(table, s, k, i, Link(table, s, k, i))
<1> DEFINE at(p) == CHOOSE j \in DOMAIN s : s[j] = p
           e(p) == [table[p] EXCEPT !.net = k, !.idx = i + at(p) - 1]
           t == [p \in DOMAIN table |-> IF p \in ToSet(s) THEN e(p) ELSE table[p]]
<1>1. /\ Len(table) \in Nat /\ DOMAIN table = 1..Len(table)
      /\ \A p \in DOMAIN table : table[p] \in PinRecs
  OBVIOUS
<1>2. \A p : p \in ToSet(s) <=> \E j \in DOMAIN s : s[j] = p
  BY DEF ToSet
<1>3. \A p \in ToSet(s) : at(p) \in DOMAIN s /\ s[at(p)] = p /\ at(p) \in Nat /\ at(p) >= 1
  <2> TAKE p \in ToSet(s)
  <2>1. at(p) \in DOMAIN s /\ s[at(p)] = p BY <1>2
  <2> HIDE DEF at
  <2> QED BY <2>1
<1> HIDE DEF at
<1>4. ASSUME NEW p \in DOMAIN table, p \in ToSet(s)
      PROVE  /\ e(p) \in PinRecs /\ e(p).net = k /\ e(p).idx = i + at(p) - 1
             /\ e(p).valid = table[p].valid /\ e(p).port = table[p].port
             /\ e(p).bit = table[p].bit /\ e(p).const = table[p].const
  <2> DEFINE r == table[p]
             x == i + at(p) - 1
  <2>1. r \in PinRecs /\ x \in Nat BY <1>1, <1>3, <1>4
  <2>2. e(p) = [r EXCEPT !.net = k, !.idx = x] OBVIOUS
  <2> HIDE DEF e, x
  <2>3. r.valid = table[p].valid /\ r.port = table[p].port /\ r.bit = table[p].bit /\ r.const = table[p].const
    OBVIOUS
  <2> HIDE DEF r
  <2>4. e(p) \in PinRecs /\ e(p).net = k /\ e(p).idx = x /\ e(p).valid = r.valid
        /\ e(p).port = r.port /\ e(p).bit = r.bit /\ e(p).const = r.const
    BY <2>1, <2>2 DEF PinRecs
  <2> QED BY <2>3, <2>4 DEF x
<1> HIDE DEF e
<1>5. t \in [1..Len(table) -> PinRecs]
  BY <1>1, <1>4
<1>6. Link(table, s, k, i) = SubSeq(t, 1, Len(table))
  BY DEF Link, e, at
<1>7. \A p \in DOMAIN table : t[p] = IF p \in ToSet(s) THEN e(p) ELSE table[p]
  OBVIOUS
<1> HIDE DEF t
<1>8. Link(table, s, k, i) = t /\ t \in Seq(PinRecs) /\ DOMAIN t = DOMAIN table
  BY <1>1, <1>5, <1>6, WholeSeq
<1>9. ASSUME NEW p \in DOMAIN table
      PROVE  /\ t[p].valid = table[p].valid /\ t[p].port = table[p].port
             /\ t[p].bit = table[p].bit /\ t[p].const = table[p].const
             /\ (\E j \in DOMAIN s : s[j] = p) => t[p].net = k
             /\ (\A j \in DOMAIN s : s[j] # p) => t[p] = table[p]
  BY <1>2, <1>4, <1>7
<1>10. ASSUME NEW p \in DOMAIN table, NEW j \in DOMAIN s, s[j] = p, \A l \in DOMAIN s : s[l] = p => l = j
       PROVE  t[p].idx = i + j - 1
  <2>1. p \in ToSet(s) BY <1>2, <1>10
  <2>2. at(p) = j BY <1>3, <1>10, <2>1
  <2> QED BY <2>1, <2>2, <1>4, <1>7
<1> QED BY <1>8, <1>9, <1>10 DEF Linked

\* The places of two sequences, one after the other
LEMMA ConcatFacts ==
  ASSUME NEW s \in Seq(Nat), NEW v \in Seq(Nat)
  PROVE  /\ s \o v \in Seq(Nat) /\ Len(s) \in Nat /\ DOMAIN s = 1..Len(s)
         /\ Len(s \o v) = Len(s) + Len(v) /\ Len(v) \in Nat /\ DOMAIN v = 1..Len(v)
         /\ DOMAIN (s \o v) = 1..(Len(s) + Len(v))
         /\ \A i \in 1..Len(s) : (s \o v)[i] = s[i]
         /\ \A i \in 1..(Len(s) + Len(v)) : i > Len(s) => (s \o v)[i] = v[i - Len(s)]
OBVIOUS

\* What merge_nets() leaves: net k has the pins v of net l after its own, and
\* net l is gone, without pins.
Merged(n, k, l, v, m) ==
  /\ m \in Netlists
  /\ m.blocks = n.blocks /\ m.ports = n.ports /\ m.blockOf = n.blockOf
  /\ m.error = n.error /\ m.dirty
  /\ DOMAIN m.pins = DOMAIN n.pins
  /\ \A p \in DOMAIN n.pins :
        /\ m.pins[p].valid = n.pins[p].valid /\ m.pins[p].port = n.pins[p].port
        /\ m.pins[p].bit = n.pins[p].bit /\ m.pins[p].const = n.pins[p].const
        /\ (\E i \in DOMAIN v : v[i] = p) => m.pins[p].net = k
        /\ (\A i \in DOMAIN v : v[i] # p) => m.pins[p] = n.pins[p]
  /\ DOMAIN m.nets = DOMAIN n.nets
  /\ \A x \in DOMAIN n.nets : /\ m.nets[x].name = n.nets[x].name
                              /\ x # l => m.nets[x].valid = n.nets[x].valid
                              /\ x # l /\ x # k => m.nets[x].pins = n.nets[x].pins
  /\ m.nets[k].pins = n.nets[k].pins \o v
  /\ ~m.nets[l].valid /\ m.nets[l].pins = <<>>
  /\ \A x \in Name : m.netOf[x] = IF x = n.nets[l].name THEN 0 ELSE n.netOf[x]

\* A merge keeps a netlist good, lost pins and all.
LEMMA MergedIsGood ==
  ASSUME NEW n, Typed(n), Refs(n),
         NEW k \in DOMAIN n.nets, NEW l \in DOMAIN n.nets, k # l,
         n.nets[k].valid, n.nets[l].valid,
         NEW v, MovedFrom(n.nets[l].pins, v), NEW m, Merged(n, k, l, v, m)
  PROVE  Typed(m) /\ Refs(m) /\ SameShape(n, m)
<1> DEFINE s == n.nets[k].pins
           t == n.nets[l].pins
           c == m.nets[k].pins
<1>1. n \in Netlists /\ InRange(n) /\ Structure(n) /\ Owned(n) /\ Netted(n) /\ BlocksNamed(n) /\ NetsNamed(n)
  BY DEF Typed, Refs
<1>2. s \in Seq(Nat) /\ t \in Seq(Nat) /\ v \in Seq(Nat) /\ Len(s) >= 1 /\ Single(s)
  BY <1>1, FieldTypes DEF Netted, MovedFrom
<1>3. /\ c \in Seq(Nat) /\ Len(s) \in Nat /\ DOMAIN s = 1..Len(s)
      /\ \A i \in DOMAIN s : i \in DOMAIN c /\ c[i] = s[i]
      /\ \A i \in DOMAIN c : i \notin DOMAIN s => i > 1 /\ i - Len(s) \in DOMAIN v /\ c[i] = v[i - Len(s)]
      /\ \A i \in DOMAIN v : i + Len(s) \in DOMAIN c /\ c[i + Len(s)] = v[i]
  <2>1. c = s \o v BY DEF Merged
  <2> HIDE DEF c, s, t
  <2>2. /\ c \in Seq(Nat) /\ Len(s) \in Nat /\ DOMAIN s = 1..Len(s)
        /\ Len(v) \in Nat /\ DOMAIN v = 1..Len(v) /\ DOMAIN c = 1..(Len(s) + Len(v))
        /\ \A i \in 1..Len(s) : c[i] = s[i]
        /\ \A i \in 1..(Len(s) + Len(v)) : i > Len(s) => c[i] = v[i - Len(s)]
    BY <1>2, <2>1, ConcatFacts
  <2>3. \A i \in DOMAIN c : i \notin DOMAIN s => i > 1 /\ i > Len(s) /\ i - Len(s) \in DOMAIN v
    BY SMTT(30), <1>2, <2>2
  <2>4. \A i \in DOMAIN v : i + Len(s) \in DOMAIN c /\ i + Len(s) > Len(s) /\ (i + Len(s)) - Len(s) = i
    BY <2>2
  <2>5. \A i \in DOMAIN s : i \in DOMAIN c BY <2>2
  <2> QED BY <2>2, <2>3, <2>4, <2>5
<1> HIDE DEF c
<1>4. \A i \in DOMAIN v : /\ v[i] \in DOMAIN n.pins /\ n.pins[v[i]].valid /\ n.pins[v[i]].net = l
                          /\ IsSink(n, v[i]) /\ v[i] # 0
  <2> TAKE i \in DOMAIN v
  <2>1. PICK j \in DOMAIN t : j > 1 /\ t[j] = v[i] BY DEF MovedFrom
  <2>2. PlaceOK(n, l, j) BY <1>1, <2>1 DEF Netted
  <2> QED BY <2>1, <2>2, <1>1, ZeroIsNoId DEF PlaceOK
<1>5. \A i \in DOMAIN s : PlaceOK(n, k, i)
  BY <1>1 DEF Netted
<1>6. SameShape(n, m)
  BY DEF Merged, SameShape
<1>7. Structure(m) /\ \A p \in DOMAIN n.pins : IsSink(m, p) = IsSink(n, p)
  BY <1>1, <1>6, ShapeKeepsStructure
<1>8. c = m.nets[k].pins BY DEF c
<1>9. InRange(m)
  <2>1. \A x \in DOMAIN m.nets : \A i \in DOMAIN m.nets[x].pins :
           m.nets[x].pins[i] # 0 => m.nets[x].pins[i] \in DOMAIN m.pins
    <3> SUFFICES ASSUME NEW x \in DOMAIN m.nets, NEW i \in DOMAIN m.nets[x].pins, m.nets[x].pins[i] # 0
                 PROVE  m.nets[x].pins[i] \in DOMAIN m.pins
      OBVIOUS
    <3>1. CASE x = k
      <4>1. CASE i \in DOMAIN s
        <5>1. m.nets[x].pins[i] = s[i] /\ s[i] # 0 BY <3>1, <4>1, <1>3, <1>8
        <5>2. s[i] \in DOMAIN n.pins BY <4>1, <5>1, <1>1 DEF InRange
        <5> QED BY <5>1, <5>2 DEF Merged
      <4>2. CASE i \notin DOMAIN s
        <5>0. i \in DOMAIN c BY <3>1, <1>8
        <5>1. m.nets[x].pins[i] = v[i - Len(s)] /\ i - Len(s) \in DOMAIN v BY <3>1, <4>2, <5>0, <1>3, <1>8
        <5>2. v[i - Len(s)] \in DOMAIN n.pins BY <5>1, <1>4
        <5> QED BY <5>1, <5>2 DEF Merged
      <4> QED BY <4>1, <4>2
    <3>2. CASE x = l
      BY <3>2 DEF Merged
    <3>3. CASE x # k /\ x # l
      BY <3>3, <1>1 DEF InRange, Merged
    <3> QED BY <3>1, <3>2, <3>3
  <2>2. \A p \in DOMAIN m.pins : /\ m.pins[p].port \in DOMAIN m.ports
                                 /\ m.pins[p].net # 0 => m.pins[p].net \in DOMAIN m.nets
    BY <1>1 DEF InRange, Merged
  <2>3. \A x \in Name : /\ m.blockOf[x] # 0 => m.blockOf[x] \in DOMAIN m.blocks
                        /\ m.netOf[x] # 0 => m.netOf[x] \in DOMAIN m.nets
    BY <1>1 DEF InRange, Merged
  <2>4. /\ \A b \in DOMAIN m.blocks : /\ m.blocks[b].ports \subseteq DOMAIN m.ports
                                      /\ m.blocks[b].pins \subseteq DOMAIN m.pins
        /\ \A q \in DOMAIN m.ports :
              /\ m.ports[q].block \in DOMAIN m.blocks
              /\ \A i \in DOMAIN m.ports[q].pins : m.ports[q].pins[i] \in DOMAIN m.pins
    BY <1>1 DEF InRange, Merged
  <2> QED BY <2>1, <2>2, <2>3, <2>4 DEF InRange
<1>10. Typed(m)
  BY Zenon, <1>9 DEF Typed, Merged
<1>11. Owned(m)
  BY <1>1 DEF Owned, Merged
<1>12. BlocksNamed(m)
  BY <1>1 DEF BlocksNamed, Merged
<1>13. NetsNamed(m)
  <2>0. \A x \in DOMAIN n.nets : n.nets[x].name \in Name BY <1>1, FieldTypes
  <2>1. ASSUME NEW x \in Name, m.netOf[x] # 0
        PROVE  m.nets[m.netOf[x]].valid /\ m.nets[m.netOf[x]].name = x
    <3>1. x # n.nets[l].name /\ m.netOf[x] = n.netOf[x] BY <2>1 DEF Merged
    <3>2. n.netOf[x] \in DOMAIN n.nets /\ n.nets[n.netOf[x]].valid /\ n.nets[n.netOf[x]].name = x
      BY <3>1, <2>1, <1>1 DEF NetsNamed, InRange
    <3> QED BY <3>1, <3>2 DEF Merged
  <2>2. ASSUME NEW x \in DOMAIN m.nets, m.nets[x].valid
        PROVE  m.netOf[m.nets[x].name] = x
    <3>1. x # l /\ x \in DOMAIN n.nets /\ n.nets[x].valid /\ m.nets[x].name = n.nets[x].name
      BY <2>2 DEF Merged
    <3>2. n.netOf[n.nets[x].name] = x /\ n.netOf[n.nets[l].name] = l
      BY <3>1, <1>1 DEF NetsNamed
    <3> QED BY <3>1, <3>2, <2>0 DEF Merged
  <2> QED BY <2>1, <2>2 DEF NetsNamed
<1>14. Indexed(m)
  BY DEF Indexed, Merged
<1>15. \A x \in DOMAIN m.nets : m.nets[x].valid =>
          /\ Len(m.nets[x].pins) >= 1 /\ Single(m.nets[x].pins)
          /\ \A i \in DOMAIN m.nets[x].pins : PlaceOK(m, x, i)
  <2> SUFFICES ASSUME NEW x \in DOMAIN m.nets, m.nets[x].valid
               PROVE  /\ Len(m.nets[x].pins) >= 1 /\ Single(m.nets[x].pins)
                      /\ \A i \in DOMAIN m.nets[x].pins : PlaceOK(m, x, i)
    OBVIOUS
  <2>1. x # l /\ x \in DOMAIN n.nets /\ n.nets[x].valid
    BY Zenon DEF Merged
  <2>2. ASSUME NEW y \in DOMAIN n.nets, y # l, n.nets[y].valid, NEW i \in DOMAIN n.nets[y].pins,
               NEW j \in DOMAIN m.nets[y].pins, m.nets[y].pins[j] = n.nets[y].pins[i], j > 1 <=> i > 1
        PROVE  PlaceOK(m, y, j)
    <3>1. PlaceOK(n, y, i) BY <2>2, <1>1 DEF Netted
    <3> DEFINE p == n.nets[y].pins[i]
    <3>2. CASE i = 1 /\ p = 0
      <4>1. j = 1
        <5>1. m.nets[y].pins \in Seq(Nat) BY Zenon, <1>10, <2>2, FieldTypes DEF Typed, Merged
        <5> QED BY <5>1, <2>2, <3>2
      <4> QED BY <4>1, <3>2, <2>2 DEF PlaceOK
    <3>3. CASE p \in DOMAIN n.pins /\ n.pins[p].valid /\ n.pins[p].net = y /\ (IsSink(n, p) <=> i > 1)
      <4>1. \A a \in DOMAIN v : v[a] # p BY Zenon, <1>4, <2>2, <3>3
      <4>2. m.pins[p] = n.pins[p] /\ DOMAIN m.pins = DOMAIN n.pins BY <3>3, <4>1 DEF Merged
      <4>3. IsSink(m, p) = IsSink(n, p) BY <3>3, <1>7
      <4> QED BY <4>2, <4>3, <3>3, <2>2 DEF PlaceOK
    <3> QED BY <3>1, <3>2, <3>3 DEF PlaceOK
  <2>3. CASE x = k
    <3>0. m.nets[x].pins = c BY <2>3, <1>8
    <3>1. Len(c) >= 1
      <4>1. 1 \in DOMAIN s BY <1>2, <1>3
      <4>2. 1 \in DOMAIN c /\ c \in Seq(Nat) BY <4>1, <1>3
      <4> QED BY <4>2
    <3>2. \A i \in DOMAIN s : s[i] = 0 \/ n.pins[s[i]].net = k
      BY <1>5 DEF PlaceOK
    <3>3. Single(c)
      <4> SUFFICES ASSUME NEW i \in DOMAIN c, NEW j \in DOMAIN c, c[i] = c[j], c[i] # 0 PROVE i = j
        BY DEF Single
      <4>1. CASE i \in DOMAIN s /\ j \in DOMAIN s
        BY <4>1, <1>2, <1>3 DEF Single
      <4>0. ASSUME NEW x1 \in DOMAIN s, NEW x2 \in DOMAIN c, x2 \notin DOMAIN s, s[x1] = c[x2], s[x1] # 0
            PROVE  FALSE
        <5>1. n.pins[s[x1]].net = k BY <3>2, <4>0
        <5>3. x2 - Len(s) \in DOMAIN v /\ c[x2] = v[x2 - Len(s)] BY <1>3, <4>0
        <5>2. n.pins[c[x2]].net = l BY <1>4, <5>3
        <5> QED BY <5>1, <5>2, <4>0
      <4>2. CASE i \in DOMAIN s /\ j \notin DOMAIN s
        <5>1. s[i] = c[j] /\ s[i] # 0 BY <4>2, <1>3
        <5> QED BY <4>2, <5>1, <4>0
      <4>3. CASE i \notin DOMAIN s /\ j \in DOMAIN s
        <5>1. s[j] = c[i] /\ s[j] # 0 BY <4>3, <1>3
        <5> QED BY <4>3, <5>1, <4>0
      <4>4. CASE i \notin DOMAIN s /\ j \notin DOMAIN s
        <5>1. i - Len(s) \in DOMAIN v /\ j - Len(s) \in DOMAIN v /\ v[i - Len(s)] = v[j - Len(s)] /\ v[i - Len(s)] # 0
          BY <4>4, <1>3
        <5>2. i - Len(s) = j - Len(s) BY <5>1 DEF MovedFrom, Single
        <5>3. i \in Nat /\ j \in Nat /\ Len(s) \in Nat BY <1>3
        <5> HIDE DEF s
        <5> QED BY <5>2, <5>3
      <4> QED BY <4>1, <4>2, <4>3, <4>4
    <3>4. ASSUME NEW i \in DOMAIN c PROVE PlaceOK(m, k, i)
      <4>1. CASE i \in DOMAIN s
        BY Zenon, <4>1, <1>3, <1>8, <2>1, <2>2, <2>3
      <4>2. CASE i \notin DOMAIN s
        <5>1. i > 1 /\ i - Len(s) \in DOMAIN v /\ c[i] = v[i - Len(s)] BY <4>2, <1>3
        <5>2. c[i] \in DOMAIN n.pins /\ n.pins[c[i]].valid /\ IsSink(n, c[i]) BY Zenon, <5>1, <1>4
        <5>3. m.pins[c[i]].net = k /\ m.pins[c[i]].valid /\ DOMAIN m.pins = DOMAIN n.pins
          BY <5>1, <5>2 DEF Merged
        <5>4. IsSink(m, c[i]) BY <5>2, <1>7
        <5> QED BY <5>1, <5>2, <5>3, <5>4, <1>8 DEF PlaceOK
      <4> QED BY <4>1, <4>2
    <3> QED BY <2>3, <3>0, <3>1, <3>3, <3>4
  <2>4. CASE x # k
    <3>1. m.nets[x].pins = n.nets[x].pins BY <2>1, <2>4 DEF Merged
    <3>2. Len(n.nets[x].pins) >= 1 /\ Single(n.nets[x].pins) BY <2>1, <1>1 DEF Netted
    <3>3. \A i \in DOMAIN m.nets[x].pins : PlaceOK(m, x, i) BY <2>1, <2>2, <3>1
    <3> QED BY <3>1, <3>2, <3>3
  <2> QED BY <2>3, <2>4
<1>16. \A p \in DOMAIN m.pins : m.pins[p].valid => PinOK(m, p)
  <2> SUFFICES ASSUME NEW p \in DOMAIN m.pins, m.pins[p].valid PROVE PinOK(m, p)
    OBVIOUS
  <2>1. p \in DOMAIN n.pins /\ n.pins[p].valid /\ PinOK(n, p)
    BY <1>1 DEF Merged, Netted
  <2>2. CASE \E i \in DOMAIN v : v[i] = p
    <3>1. PICK i \in DOMAIN v : v[i] = p BY <2>2
    <3>2. m.pins[p].net = k /\ m.nets[k].valid BY <2>1, <2>2 DEF Merged
    <3>3. i + Len(s) \in DOMAIN m.nets[k].pins /\ m.nets[k].pins[i + Len(s)] = p BY <3>1, <1>3, <1>8
    <3> QED BY <3>2, <3>3 DEF PinOK
  <2>3. CASE \A i \in DOMAIN v : v[i] # p
    <3>1. m.pins[p] = n.pins[p] BY <2>1, <2>3 DEF Merged
    <3>2. CASE n.pins[p].net = 0
      BY <3>1, <3>2 DEF PinOK
    <3>3. CASE n.pins[p].net = l
      BY <3>1, <3>3 DEF PinOK, Merged
    <3>4. CASE n.pins[p].net = k
      <4>1. PICK i \in DOMAIN s : s[i] = p BY <2>1, <3>4, <1>1, ZeroIsNoId DEF PinOK
      <4>2. i \in DOMAIN m.nets[k].pins /\ m.nets[k].pins[i] = p BY <4>1, <1>3, <1>8
      <4>3. m.nets[k].valid BY DEF Merged
      <4> QED BY <3>1, <3>4, <4>2, <4>3 DEF PinOK
    <3>5. CASE n.pins[p].net # 0 /\ n.pins[p].net # l /\ n.pins[p].net # k
      <4>1. n.pins[p].net \in DOMAIN n.nets BY <2>1, <3>5, <1>1 DEF InRange
      <4>2. m.nets[n.pins[p].net].valid = n.nets[n.pins[p].net].valid
            /\ m.nets[n.pins[p].net].pins = n.nets[n.pins[p].net].pins
        BY <3>5, <4>1 DEF Merged
      <4> QED BY Zenon, <2>1, <3>1, <4>2 DEF PinOK
    <3> QED BY <3>2, <3>3, <3>4, <3>5
  <2> QED BY <2>2, <2>3
<1>17. Netted(m)
  BY <1>15, <1>16 DEF Netted
<1> QED BY <1>6, <1>7, <1>10, <1>11, <1>12, <1>13, <1>14, <1>17 DEF Refs

\* merge_nets()
LEMMA MergeNetsEffect ==
  ASSUME NEW n, Good(n), NEW k, NEW l, NEW m, m = MergeNets(n, k, l),
         n.error = "none" => /\ k \in DOMAIN n.nets /\ n.nets[k].valid
                             /\ l \in DOMAIN n.nets /\ n.nets[l].valid /\ k # l
  PROVE  /\ Good(m)
         /\ m.error = "none" =>
              /\ n.error = "none"
              /\ \E v : MovedFrom(n.nets[l].pins, v) /\ Merged(n, k, l, v, m)
<1>0. Typed(n) /\ n \in Netlists /\ InRange(n) BY DEF Good, Typed
<1>1. CASE n.error # "none"
  <2>1. m = n BY <1>1 DEF MergeNets
  <2> QED BY <2>1, <1>1
<1>2. CASE n.error = "none" /\ Driver(n, l) # 0
  <2>1. m = Fail(n, "throw") BY <1>2 DEF MergeNets
  <2>2. Good(m) /\ m.error = "throw" BY <2>1, <1>0, FailIsGood
  <2> QED BY <2>2
<1>3. CASE n.error = "none" /\ Driver(n, l) = 0
  <2> DEFINE s == n.nets[k].pins
             t == n.nets[l].pins
             v == MoveSinks(t)
             i0 == Len(s)
             f == Link(n.pins, v, k, i0)
             e == [n.nets[k] EXCEPT !.pins = @ \o v]
             d == [n.nets[l] EXCEPT !.pins = <<>>]
             g == [[n.nets EXCEPT ![k] = e] EXCEPT ![l] = d]
             x == [n EXCEPT !.nets = g, !.pins = f]
             h == [g EXCEPT ![l] = Invalidate(d)]
             a == [y \in Name |-> IF y = n.nets[l].name THEN 0 ELSE n.netOf[y]]
  <2>0. /\ Refs(n) /\ Netted(n) /\ k \in DOMAIN n.nets /\ n.nets[k].valid
        /\ l \in DOMAIN n.nets /\ n.nets[l].valid /\ k # l
    BY <1>3 DEF Good, Refs
  <2>1. /\ n.nets \in [1..Len(n.nets) -> NetRecs] /\ Len(n.nets) \in Nat
        /\ DOMAIN n.nets = 1..Len(n.nets) /\ n.nets \in Seq(NetRecs)
        /\ n.pins \in Seq(PinRecs) /\ n.netOf \in [Name -> Nat]
    <3>1. n.nets \in Seq(NetRecs) /\ n.pins \in Seq(PinRecs) /\ n.netOf \in [Name -> Nat]
      BY <1>0 DEF Netlists
    <3> QED BY <3>1, LenProperties
  <2>2. s \in Seq(Nat) /\ t \in Seq(Nat) /\ Len(t) >= 1 /\ i0 \in Nat /\ k \in Nat
    <3>1. s \in Seq(Nat) /\ t \in Seq(Nat) /\ Len(t) >= 1
      BY <2>0, <1>0, FieldTypes DEF Netted
    <3> QED BY <3>1, <2>0, <2>1
  <2>3. \A j \in DOMAIN t : j > 1 => t[j] # 0
    <3> TAKE j \in DOMAIN t
    <3>1. PlaceOK(n, l, j) BY <2>0 DEF Netted
    <3>2. j # 1 => t[j] \in DOMAIN n.pins BY <3>1 DEF PlaceOK
    <3> HIDE DEF t
    <3> QED BY <3>2, <1>0, ZeroIsNoId
  <2>4. MovedFrom(t, v)
    <3> HIDE DEF t
    <3> QED BY <2>2, <2>3, MoveSinksFacts
  <2>5. v \in Seq(Nat) BY <2>4 DEF MovedFrom
  <2> HIDE DEF v
  <2>6. Linked(n.pins, v, k, i0, f)
    BY <2>1, <2>2, <2>5, LinkFacts
  <2>7. e \in NetRecs /\ e.valid = n.nets[k].valid /\ e.name = n.nets[k].name /\ e.pins = s \o v
    <3>1. s \o v \in Seq(Nat) BY <2>2, <2>5, ConcatFacts
    <3> DEFINE r == n.nets[k]
               z == s \o v
    <3>2. e = [r EXCEPT !.pins = z] /\ r \in NetRecs /\ z \in Seq(Nat)
      BY <2>0, <2>1, <3>1
    <3> HIDE DEF r, e, z
    <3>3. e \in NetRecs /\ e.valid = r.valid /\ e.name = r.name /\ e.pins = z
      BY <3>2 DEF NetRecs
    <3> QED BY <3>3 DEF r, z
  <2>8. d \in NetRecs /\ d.valid = n.nets[l].valid /\ d.name = n.nets[l].name /\ d.pins = <<>>
    <3> DEFINE r == n.nets[l]
               z == <<>>
    <3>2. d = [r EXCEPT !.pins = z] /\ r \in NetRecs /\ z \in Seq(Nat)
      BY <2>0, <2>1
    <3> HIDE DEF r, d, z
    <3>3. d \in NetRecs /\ d.valid = r.valid /\ d.name = r.name /\ d.pins = z
      BY <3>2 DEF NetRecs
    <3> QED BY <3>3 DEF r, z
  <2> DEFINE di == Invalidate(d)
  <2>9. di \in NetRecs /\ di.valid = FALSE /\ di.name = n.nets[l].name /\ di.pins = <<>>
    <3> HIDE DEF d
    <3> QED BY <2>8, InvalidateFacts
  <2>10. /\ g \in [1..Len(n.nets) -> NetRecs] /\ g[l] = d /\ g[k] = e
         /\ \A y \in DOMAIN n.nets : y # k /\ y # l => g[y] = n.nets[y]
    <3> HIDE DEF d, e
    <3> QED BY <2>0, <2>1, <2>7, <2>8
  <2> HIDE DEF di, e
  <2>11. /\ h \in [1..Len(n.nets) -> NetRecs] /\ h[l] = di /\ h[k] = e
         /\ \A y \in DOMAIN n.nets : y # k /\ y # l => h[y] = n.nets[y]
    <3>1. h = [g EXCEPT ![l] = di] BY DEF di
    <3> HIDE DEF d, g, h
    <3> QED BY <3>1, <2>0, <2>1, <2>9, <2>10
  <2>12. h \in Seq(NetRecs) /\ DOMAIN h = DOMAIN n.nets /\ g \in Seq(NetRecs)
         /\ DOMAIN g = DOMAIN n.nets /\ Len(g) = Len(n.nets)
    <3> HIDE DEF g, h
    <3>1. h \in Seq(NetRecs) /\ DOMAIN h = DOMAIN n.nets BY <2>1, <2>11, WholeSeq
    <3>2. g \in Seq(NetRecs) /\ Len(g) = Len(n.nets) BY <2>1, <2>10, WholeSeq
    <3>3. DOMAIN g = DOMAIN n.nets BY <2>1, <2>10
    <3> QED BY <3>1, <3>2, <3>3
  <2>13. a \in [Name -> Nat] BY <2>1
  <2>14. m = RemoveNets(x, {l})
    <3>1. m = RemoveNets([n EXCEPT
                !.nets[k].pins = @ \o v,
                !.nets[l].pins = <<>>,
                !.pins = Link(@, v, k, Len(n.nets[k].pins))],
                {l})
      BY <1>3 DEF MergeNets, v
    <3>2. [n EXCEPT !.nets[k].pins = @ \o v,
                    !.nets[l].pins = <<>>,
                    !.pins = Link(@, v, k, Len(n.nets[k].pins))] = x
      BY <2>0, <2>1, <1>0 DEF Netlists, NetRecs, e
    <3> QED BY <3>1, <3>2
  <2> HIDE DEF f, g
  <2>15. /\ x \in Netlists /\ x.nets = g /\ x.pins = f /\ x.error = "none"
         /\ x.blocks = n.blocks /\ x.ports = n.ports /\ x.netOf = n.netOf /\ x.blockOf = n.blockOf
         /\ x.dirty = n.dirty
    <3>1. f \in Seq(PinRecs) BY <2>6 DEF Linked
    <3> QED BY <1>0, <1>3, <2>12, <3>1 DEF Netlists
  <2> HIDE DEF x
  <2>16. m = [x EXCEPT !.pins = Update(x.pins, {}, Unlink), !.nets = Update(x.nets, {l}, Invalidate),
                       !.netOf = a, !.dirty = TRUE]
    <3>1. ~(\E y \in {l} : ~ValidId(x.nets, y))
      BY <2>0, <2>8, <2>10, <2>12, <2>15 DEF ValidId, Valid
    <3>2. UNION {ToSet(x.nets[y].pins) : y \in {l}} = {}
      <4>1. x.nets[l].pins = <<>> BY <2>8, <2>10, <2>15
      <4>2. ToSet(<<>>) = {} BY DEF ToSet
      <4>3. \A y \in {l} : ToSet(x.nets[y].pins) = {} BY <4>1, <4>2
      <4> QED BY <4>3
    <3>3. [y \in Name |-> IF \E z \in {l} : x.nets[z].name = y THEN 0 ELSE x.netOf[y]] = a
      <4>1. x.nets[l].name = n.nets[l].name /\ x.netOf = n.netOf
        BY <2>8, <2>10, <2>15
      <4> QED BY <4>1
    <3>4. m = [x EXCEPT
            !.pins = Update(@, UNION {ToSet(x.nets[y].pins) : y \in {l}}, Unlink),
            !.nets = Update(@, {l}, Invalidate),
            !.netOf = [y \in Name |->
                         IF \E z \in {l} : x.nets[z].name = y THEN 0 ELSE @[y]],
            !.dirty = @ \/ {l} # {}]
      BY <2>14, <2>15, <3>1 DEF RemoveNets
    <3>5. m = [x EXCEPT
            !.pins = Update(x.pins, UNION {ToSet(x.nets[y].pins) : y \in {l}}, Unlink),
            !.nets = Update(x.nets, {l}, Invalidate),
            !.netOf = [y \in Name |->
                         IF \E z \in {l} : x.nets[z].name = y THEN 0 ELSE x.netOf[y]],
            !.dirty = TRUE]
      BY <2>15, <3>4 DEF Netlists
    <3> HIDE DEF a
    <3> QED BY <3>2, <3>3, <3>5
  <2>17. Update(x.pins, {}, Unlink) = f
    <3>1. Update(f, {}, Unlink) = SubSeq([i \in DOMAIN f |-> f[i]], 1, Len(f))
      BY DEF Update
    <3>2. f \in Seq(PinRecs) BY <2>6 DEF Linked
    <3>3. Len(f) \in Nat /\ f \in [1..Len(f) -> PinRecs] BY <3>2, LenProperties
    <3>4. f = [i \in DOMAIN f |-> f[i]] BY <3>3
    <3>5. SubSeq(f, 1, Len(f)) = f BY <3>3, WholeSeq
    <3> QED BY <3>1, <3>4, <3>5, <2>15
  <2>18. Update(x.nets, {l}, Invalidate) = h
    <3> DEFINE w == [i \in DOMAIN g |-> IF i \in {l} THEN Invalidate(g[i]) ELSE g[i]]
    <3>1. Update(g, {l}, Invalidate) = SubSeq(w, 1, Len(g))
      BY DEF Update
    <3>2. w = h
      BY <2>0, <2>1, <2>10, <2>12
    <3> HIDE DEF h, w
    <3>3. SubSeq(h, 1, Len(n.nets)) = h BY <2>1, <2>11, WholeSeq
    <3> QED BY <3>1, <3>2, <3>3, <2>12, <2>15
  <2> HIDE DEF a, h
  <2>19. m = [x EXCEPT !.pins = f, !.nets = h, !.netOf = a, !.dirty = TRUE]
    BY <2>16, <2>17, <2>18
  <2>20. /\ m \in Netlists /\ m.blocks = n.blocks /\ m.ports = n.ports /\ m.blockOf = n.blockOf
         /\ m.error = n.error /\ m.dirty /\ m.pins = f /\ m.nets = h /\ m.netOf = a
    <3>1. f \in Seq(PinRecs) BY <2>6 DEF Linked
    <3> QED BY <1>3, <2>12, <2>13, <2>15, <2>19, <3>1 DEF Netlists
  <2>21. Merged(n, k, l, v, m)
    <3>1. DOMAIN m.pins = DOMAIN n.pins /\
          \A p \in DOMAIN n.pins :
            /\ m.pins[p].valid = n.pins[p].valid /\ m.pins[p].port = n.pins[p].port
            /\ m.pins[p].bit = n.pins[p].bit /\ m.pins[p].const = n.pins[p].const
            /\ (\E i \in DOMAIN v : v[i] = p) => m.pins[p].net = k
            /\ (\A i \in DOMAIN v : v[i] # p) => m.pins[p] = n.pins[p]
      BY <2>6, <2>20 DEF Linked
    <3>2. DOMAIN m.nets = DOMAIN n.nets /\
          \A y \in DOMAIN n.nets : /\ m.nets[y].name = n.nets[y].name
                                   /\ y # l => m.nets[y].valid = n.nets[y].valid
                                   /\ y # l /\ y # k => m.nets[y].pins = n.nets[y].pins
      BY <2>7, <2>9, <2>11, <2>12, <2>20
    <3>3. m.nets[k].pins = n.nets[k].pins \o v /\ ~m.nets[l].valid /\ m.nets[l].pins = <<>>
      BY <2>7, <2>9, <2>11, <2>20
    <3>4. \A y \in Name : m.netOf[y] = IF y = n.nets[l].name THEN 0 ELSE n.netOf[y]
      BY <2>20 DEF a
    <3> QED BY <2>20, <3>1, <3>2, <3>3, <3>4 DEF Merged
  <2>22. Typed(m) /\ Refs(m)
    BY <1>0, <2>0, <2>4, <2>21, MergedIsGood
  <2> QED BY <1>3, <2>4, <2>21, <2>22 DEF Good
<1> QED BY <1>1, <1>2, <1>3

\* A sequence without its first place
LEMMA TailFacts ==
  ASSUME NEW s \in Seq(Nat), Len(s) >= 1
  PROVE  /\ s # <<>> /\ Tail(s) \in Seq(Nat)
         /\ Len(s) \in Nat /\ DOMAIN s = 1..Len(s) /\ Len(Tail(s)) = Len(s) - 1
         /\ DOMAIN Tail(s) = 1..(Len(s) - 1)
         /\ \A j \in 1..(Len(s) - 1) : Tail(s)[j] = s[j + 1]
         /\ Single(s) => Single(Tail(s))
<1> DEFINE t == Tail(s)
<1>1. s # <<>> /\ Len(s) \in Nat /\ DOMAIN s = 1..Len(s) OBVIOUS
<1>2. t \in Seq(Nat) /\ Len(t) = Len(s) - 1 BY <1>1
<1>3. DOMAIN t = 1..(Len(s) - 1) BY <1>2
<1>4. \A j \in 1..(Len(s) - 1) : t[j] = s[j + 1] BY <1>1
<1> HIDE DEF t
<1>5. ASSUME Single(s) PROVE Single(t)
  <2> SUFFICES ASSUME NEW j \in DOMAIN t, NEW k \in DOMAIN t, t[j] = t[k], t[j] # 0 PROVE j = k
    BY DEF Single
  <2>1. j + 1 \in DOMAIN s /\ k + 1 \in DOMAIN s /\ t[j] = s[j + 1] /\ t[k] = s[k + 1] BY <1>1, <1>3, <1>4
  <2>2. j + 1 = k + 1 BY <2>1, <1>5 DEF Single
  <2> QED BY <2>2, <1>1, <1>3
<1> QED BY <1>1, <1>2, <1>3, <1>4, <1>5 DEF t

\* A sequence with one place before it
LEMMA ConsFacts ==
  ASSUME NEW d \in Nat, NEW w \in Seq(Nat), NEW v, v = <<d>> \o w
  PROVE  /\ v \in Seq(Nat) /\ Len(w) \in Nat /\ DOMAIN w = 1..Len(w)
         /\ Len(v) = 1 + Len(w) /\ DOMAIN v = 1..(1 + Len(w))
         /\ v[1] = d
         /\ \A j \in 1..(1 + Len(w)) : j > 1 => v[j] = w[j - 1]
<1> DEFINE e == <<d>>
<1>1. e \in Seq(Nat) /\ Len(e) = 1 /\ e[1] = d OBVIOUS
<1>2. v = e \o w OBVIOUS
<1> HIDE DEF e
<1> DEFINE u == e \o w
<1>3. /\ u \in Seq(Nat) /\ Len(u) = Len(e) + Len(w) /\ Len(w) \in Nat /\ DOMAIN w = 1..Len(w)
      /\ DOMAIN u = 1..(Len(e) + Len(w))
      /\ \A j \in 1..Len(e) : u[j] = e[j]
      /\ \A j \in 1..(Len(e) + Len(w)) : j > Len(e) => u[j] = w[j - Len(e)]
  BY <1>1, ConcatFacts
<1>4. v = u BY <1>2
<1> HIDE DEF u
<1> QED BY <1>1, <1>3, <1>4

-----------------------------------------------------------------------------
(* Making a net of pins that are on none.                                  *)

\* The positions of a set, in order
LEMMA AscendingFacts ==
  ASSUME NEW n \in Nat, NEW K \in SUBSET (1..n)
  PROVE  /\ Ascending(K) \in Seq(Nat) /\ Single(Ascending(K))
         /\ \A k \in DOMAIN Ascending(K) : Ascending(K)[k] \in K
         /\ \A i \in K : \E k \in DOMAIN Ascending(K) : Ascending(K)[k] = i
<1> DEFINE f == [k \in 1..Cardinality(K) |-> Nth(K, k)]
<1>1. /\ Cardinality(K) \in Nat
      /\ \A k \in 1..Cardinality(K) : Nth(K, k) \in K /\ Rank(K, Nth(K, k)) = k
      /\ \A i \in K : Rank(K, i) \in 1..Cardinality(K) /\ Nth(K, Rank(K, i)) = i
  BY NthOfRank
<1>a. \A k \in 1..Cardinality(K) : Nth(K, k) \in Nat
  <2> TAKE k \in 1..Cardinality(K)
  <2>1. Nth(K, k) \in K BY <1>1
  <2>2. \A i \in K : i \in Nat OBVIOUS
  <2> QED BY <2>1, <2>2
<1>2. f \in [1..Cardinality(K) -> Nat] /\ \A k \in 1..Cardinality(K) : f[k] = Nth(K, k)
  BY <1>a
<1>3. Ascending(K) = SubSeq(f, 1, Cardinality(K)) BY DEF Ascending
<1> HIDE DEF f
<1>4. Ascending(K) = f /\ f \in Seq(Nat) BY <1>1, <1>2, <1>3, WholeSeq
<1>5. DOMAIN f = 1..Cardinality(K) BY <1>2
<1>6. Single(f)
  BY <1>1, <1>2, <1>5 DEF Single
<1> QED BY <1>1, <1>2, <1>4, <1>5, <1>6

\* Pins a new net may take: a driver first, then sinks, each once.
Takes(n, v) ==
  /\ v \in Seq(Nat) /\ Len(v) >= 1 /\ Single(v)
  /\ \A i \in DOMAIN v : /\ v[i] \in DOMAIN n.pins /\ n.pins[v[i]].valid /\ n.pins[v[i]].net = 0
                         /\ IsSink(n, v[i]) <=> i > 1

\* Net k, called name, was made of the pins v.
NetAdded(n, name, k, v, m) ==
  /\ m \in Netlists
  /\ m.blocks = n.blocks /\ m.ports = n.ports /\ m.blockOf = n.blockOf
  /\ m.error = n.error /\ m.dirty = n.dirty
  /\ DOMAIN m.pins = DOMAIN n.pins
  /\ \A p \in DOMAIN n.pins :
        /\ m.pins[p].valid = n.pins[p].valid /\ m.pins[p].port = n.pins[p].port
        /\ m.pins[p].bit = n.pins[p].bit /\ m.pins[p].const = n.pins[p].const
        /\ (\E i \in DOMAIN v : v[i] = p) => m.pins[p].net = k
        /\ (\A i \in DOMAIN v : v[i] # p) => m.pins[p] = n.pins[p]
  /\ \A i \in DOMAIN v : m.pins[v[i]].idx = i - 1
  /\ k \in Nat \ DOMAIN n.nets /\ k # 0 /\ DOMAIN m.nets = DOMAIN n.nets \cup {k}
  /\ \A x \in DOMAIN n.nets : m.nets[x] = n.nets[x]
  /\ m.nets[k].valid /\ m.nets[k].name = name /\ m.nets[k].pins = v
  /\ m.netOf[name] = k
  /\ \A x \in Name : x # name => m.netOf[x] = n.netOf[x]

\* Making a net of pins adds it.
LEMMA AddNetAdds ==
  ASSUME NEW n, n \in Netlists, n.error = "none", NEW name \in Name, n.netOf[name] = 0,
         NEW driver, NEW sinks, NEW v, v = <<driver>> \o sinks, Takes(n, v),
         NEW m, m = AddNet(n, name, driver, sinks)
  PROVE  \E k : NetAdded(n, name, k, v, m)
<1> DEFINE k == Len(n.nets) + 1
           r == [valid |-> TRUE, name |-> name, pins |-> <<0>>]
           e == [r EXCEPT !.pins = v]
           g == Append(n.nets, r)
           h == [g EXCEPT ![k] = e]
           a == [n.netOf EXCEPT ![name] = k]
           made == [n EXCEPT !.nets = g, !.netOf = a]
           f == Link(n.pins, v, k, 0)
<1>1. /\ n.nets \in Seq(NetRecs) /\ Len(n.nets) \in Nat /\ DOMAIN n.nets = 1..Len(n.nets)
      /\ n.pins \in Seq(PinRecs) /\ n.netOf \in [Name -> Nat]
  BY Shape DEF Netlists
<1>2. v \in Seq(Nat) BY DEF Takes
<1>3. r \in NetRecs
  <2>1. <<0>> \in Seq(Nat) OBVIOUS
  <2> QED BY <2>1 DEF NetRecs
<1>r. r.valid = TRUE /\ r.name = name
  OBVIOUS
<1> HIDE DEF r
<1>4. e \in NetRecs /\ e.valid = TRUE /\ e.name = name /\ e.pins = v
  BY <1>2, <1>3, <1>r DEF NetRecs
<1> HIDE DEF e
<1>5. /\ g \in Seq(NetRecs) /\ DOMAIN g = DOMAIN n.nets \cup {k} /\ Len(g) = k
      /\ k \notin DOMAIN n.nets /\ k \in Nat /\ k # 0
      /\ \A x \in DOMAIN n.nets : g[x] = n.nets[x]
  <2>1. Append(n.nets, r) \in Seq(NetRecs) /\ Len(Append(n.nets, r)) = Len(n.nets) + 1
        /\ DOMAIN Append(n.nets, r) = DOMAIN n.nets \cup {Len(n.nets) + 1}
        /\ Len(n.nets) + 1 \notin DOMAIN n.nets
        /\ \A x \in DOMAIN n.nets : Append(n.nets, r)[x] = n.nets[x]
    BY <1>1, <1>3, AppendFacts
  <2> QED BY <1>1, <2>1
<1>6. CreateNet(n, name) = made
  <2>1. CreateNet(n, name) = [n EXCEPT !.nets = Append(@, r), !.netOf[name] = Len(n.nets) + 1]
    BY DEF CreateNet, r
  <2> QED BY <1>1, <2>1 DEF Netlists
<1> HIDE DEF k, g
<1>7. a \in [Name -> Nat] /\ a[name] = k /\ \A x \in Name : x # name => a[x] = n.netOf[x]
  BY <1>1, <1>5
<1> HIDE DEF a
<1>8. made.nets = g /\ made.netOf = a /\ made.pins = n.pins /\ made \in Netlists
      /\ made.blocks = n.blocks /\ made.ports = n.ports /\ made.blockOf = n.blockOf
      /\ made.error = n.error /\ made.dirty = n.dirty
  BY <1>5, <1>7 DEF Netlists
<1>9. h \in Seq(NetRecs) /\ DOMAIN h = DOMAIN g /\ h[k] = e /\ \A x \in DOMAIN n.nets : h[x] = n.nets[x]
  <2>1. Len(g) \in Nat /\ g \in [1..Len(g) -> NetRecs] /\ DOMAIN g = 1..Len(g) BY <1>5, LenProperties
  <2>2. h \in [1..Len(g) -> NetRecs] /\ h[k] = e /\ \A x \in DOMAIN n.nets : h[x] = g[x]
    BY <2>1, <1>4, <1>5
  <2> HIDE DEF h
  <2>3. h \in Seq(NetRecs) BY <2>1, <2>2, WholeSeq
  <2> QED BY <2>1, <2>2, <2>3, <1>5
<1>10. Linked(n.pins, v, k, 0, f)
  BY <1>1, <1>2, <1>5, LinkFacts
<1>11. m = [made EXCEPT !.nets[k].pins = v, !.pins = f]
  <2>1. m = [CreateNet(n, name) EXCEPT
               !.nets[CreateNet(n, name).netOf[name]].pins = <<driver>> \o sinks,
               !.pins = Link(@, <<driver>> \o sinks, CreateNet(n, name).netOf[name], 0)]
    BY DEF AddNet
  <2>2. CreateNet(n, name).netOf[name] = k BY <1>6, <1>7, <1>8
  <2>3. m = [made EXCEPT !.nets[k].pins = v, !.pins = Link(@, v, k, 0)]
    BY <2>1, <2>2, <1>6
  <2> HIDE DEF made
  <2> QED BY <2>3, <1>8 DEF Netlists
<1>12. [made EXCEPT !.nets[k].pins = v, !.pins = f] = [made EXCEPT !.nets = h, !.pins = f]
  <2>1. [g[k] EXCEPT !.pins = v] = e
    <3>1. g[k] = r
      <4>1. Append(n.nets, r)[Len(n.nets) + 1] = r BY <1>1, <1>3, AppendFacts
      <4> QED BY <4>1 DEF g, k
    <3>2. [r EXCEPT !.pins = v] = e BY DEF e
    <3> HIDE DEF e
    <3> QED BY <3>1, <3>2
  <2>2. [g EXCEPT ![k].pins = v] = h
    <3>1. [g EXCEPT ![k].pins = v] = [g EXCEPT ![k] = [g[k] EXCEPT !.pins = v]]
      OBVIOUS
    <3> QED BY <3>1, <2>1
  <2>3. [made EXCEPT !.nets[k].pins = v, !.pins = f] = [made EXCEPT !.nets = [g EXCEPT ![k].pins = v], !.pins = f]
    BY <1>8 DEF Netlists
  <2> QED BY <2>2, <2>3
<1>b. m = [made EXCEPT !.nets = h, !.pins = f]
  BY <1>11, <1>12
<1> HIDE DEF h, f, made
<1>13. /\ m \in Netlists /\ m.blocks = n.blocks /\ m.ports = n.ports /\ m.blockOf = n.blockOf
       /\ m.error = n.error /\ m.dirty = n.dirty /\ m.pins = f /\ m.nets = h /\ m.netOf = a
  <2>1. f \in Seq(PinRecs) BY <1>10 DEF Linked
  <2> QED BY <1>8, <1>9, <1>b, <2>1 DEF Netlists
<1>14. \A i \in DOMAIN v : m.pins[v[i]].idx = i - 1
  <2> TAKE i \in DOMAIN v
  <2>1. v[i] \in DOMAIN n.pins /\ v[i] # 0 /\ Single(v) BY ZeroIsNoId DEF Takes
  <2>2. \A l \in DOMAIN v : v[l] = v[i] => l = i BY <2>1 DEF Single
  <2>3. f[v[i]].idx = 0 + i - 1 BY <1>10, <2>1, <2>2 DEF Linked
  <2>4. i \in Nat BY <1>2
  <2> QED BY <1>13, <2>3, <2>4
<1>15. NetAdded(n, name, k, v, m)
  <2>1. /\ DOMAIN m.pins = DOMAIN n.pins
        /\ \A p \in DOMAIN n.pins :
              /\ m.pins[p].valid = n.pins[p].valid /\ m.pins[p].port = n.pins[p].port
              /\ m.pins[p].bit = n.pins[p].bit /\ m.pins[p].const = n.pins[p].const
              /\ (\E i \in DOMAIN v : v[i] = p) => m.pins[p].net = k
              /\ (\A i \in DOMAIN v : v[i] # p) => m.pins[p] = n.pins[p]
    BY <1>10, <1>13 DEF Linked
  <2>2. /\ DOMAIN m.nets = DOMAIN n.nets \cup {k}
        /\ \A x \in DOMAIN n.nets : m.nets[x] = n.nets[x]
        /\ m.nets[k].valid /\ m.nets[k].name = name /\ m.nets[k].pins = v
    BY <1>4, <1>5, <1>9, <1>13
  <2>3. k \in Nat \ DOMAIN n.nets /\ k # 0 BY <1>5
  <2>4. m.netOf[name] = k /\ \A x \in Name : x # name => m.netOf[x] = n.netOf[x]
    BY <1>7, <1>13
  <2> QED BY <1>13, <1>14, <2>1, <2>2, <2>3, <2>4 DEF NetAdded
<1> QED BY <1>15

\* It keeps a netlist good.
LEMMA NetAddedIsGood ==
  ASSUME NEW n, Typed(n), Refs(n), NEW name \in Name, n.netOf[name] = 0,
         NEW k, NEW v, Takes(n, v), NEW m, NetAdded(n, name, k, v, m)
  PROVE  /\ Typed(m) /\ Refs(m) /\ SameShape(n, m)
         /\ \A p \in DOMAIN n.pins : IsSink(m, p) = IsSink(n, p) /\ PinBlock(m, p) = PinBlock(n, p)
<1>1. n \in Netlists /\ InRange(n) /\ Structure(n) /\ Owned(n) /\ Netted(n) /\ BlocksNamed(n) /\ NetsNamed(n)
  BY DEF Typed, Refs
<1>2. v \in Seq(Nat) /\ Len(v) >= 1 /\ Single(v) /\
      \A i \in DOMAIN v : /\ v[i] \in DOMAIN n.pins /\ n.pins[v[i]].valid /\ n.pins[v[i]].net = 0
                          /\ IsSink(n, v[i]) <=> i > 1
  BY DEF Takes
<1>3. SameShape(n, m)
  BY DEF NetAdded, SameShape
<1>4. Structure(m) /\ \A p \in DOMAIN n.pins : IsSink(m, p) = IsSink(n, p) /\ PinBlock(m, p) = PinBlock(n, p)
  BY <1>1, <1>3, ShapeKeepsStructure
<1>5. \A p \in DOMAIN n.pins : (\E i \in DOMAIN v : v[i] = p) \/ m.pins[p] = n.pins[p]
  BY DEF NetAdded
<1>6. \A p \in DOMAIN n.pins : n.pins[p].net # 0 => m.pins[p] = n.pins[p]
  BY <1>2, <1>5
<1>7. InRange(m)
  <2>1. \A x \in DOMAIN m.nets : \A i \in DOMAIN m.nets[x].pins :
           m.nets[x].pins[i] # 0 => m.nets[x].pins[i] \in DOMAIN m.pins
    <3> SUFFICES ASSUME NEW x \in DOMAIN m.nets, NEW i \in DOMAIN m.nets[x].pins, m.nets[x].pins[i] # 0
                 PROVE  m.nets[x].pins[i] \in DOMAIN m.pins
      OBVIOUS
    <3>1. CASE x = k
      BY <3>1, <1>2 DEF NetAdded
    <3>2. CASE x # k
      BY <3>2, <1>1 DEF NetAdded, InRange
    <3> QED BY <3>1, <3>2
  <2>2. \A p \in DOMAIN m.pins : /\ m.pins[p].port \in DOMAIN m.ports
                                 /\ m.pins[p].net # 0 => m.pins[p].net \in DOMAIN m.nets
    <3> TAKE p \in DOMAIN m.pins
    <3>1. p \in DOMAIN n.pins BY DEF NetAdded
    <3>2. m.pins[p].port \in DOMAIN m.ports BY <3>1, <1>1 DEF InRange, NetAdded
    <3>3. CASE \E i \in DOMAIN v : v[i] = p
      BY <3>1, <3>2, <3>3 DEF NetAdded
    <3>4. CASE m.pins[p] = n.pins[p]
      BY <3>1, <3>2, <3>4, <1>1 DEF NetAdded, InRange
    <3> QED BY <3>1, <3>3, <3>4, <1>5
  <2>3. \A x \in Name : /\ m.blockOf[x] # 0 => m.blockOf[x] \in DOMAIN m.blocks
                        /\ m.netOf[x] # 0 => m.netOf[x] \in DOMAIN m.nets
    BY <1>1 DEF InRange, NetAdded
  <2>4. /\ \A b \in DOMAIN m.blocks : /\ m.blocks[b].ports \subseteq DOMAIN m.ports
                                      /\ m.blocks[b].pins \subseteq DOMAIN m.pins
        /\ \A q \in DOMAIN m.ports :
              /\ m.ports[q].block \in DOMAIN m.blocks
              /\ \A i \in DOMAIN m.ports[q].pins : m.ports[q].pins[i] \in DOMAIN m.pins
    BY <1>1 DEF InRange, NetAdded
  <2> QED BY <2>1, <2>2, <2>3, <2>4 DEF InRange
<1>8. Typed(m)
  BY <1>7 DEF Typed, NetAdded
<1>9. Owned(m) /\ BlocksNamed(m)
  BY <1>1 DEF Owned, BlocksNamed, NetAdded
<1>10. NetsNamed(m)
  <2>0. \A x \in DOMAIN n.nets : n.nets[x].name \in Name /\ x # 0 BY <1>1, FieldTypes, ZeroIsNoId
  <2>1. ASSUME NEW x \in Name, m.netOf[x] # 0
        PROVE  m.nets[m.netOf[x]].valid /\ m.nets[m.netOf[x]].name = x
    <3>1. CASE x = name
      BY <3>1 DEF NetAdded
    <3>2. CASE x # name
      <4>1. m.netOf[x] = n.netOf[x] BY <3>2 DEF NetAdded
      <4>2. n.netOf[x] \in DOMAIN n.nets /\ n.nets[n.netOf[x]].valid /\ n.nets[n.netOf[x]].name = x
        BY <4>1, <2>1, <1>1 DEF NetsNamed, InRange
      <4> QED BY <4>1, <4>2 DEF NetAdded
    <3> QED BY <3>1, <3>2
  <2>2. ASSUME NEW x \in DOMAIN m.nets, m.nets[x].valid
        PROVE  m.netOf[m.nets[x].name] = x
    <3>1. CASE x = k
      BY <3>1 DEF NetAdded
    <3>2. CASE x # k
      <4>1. x \in DOMAIN n.nets /\ m.nets[x] = n.nets[x] BY <3>2 DEF NetAdded
      <4>2. n.netOf[n.nets[x].name] = x BY <4>1, <2>2, <1>1 DEF NetsNamed
      <4>3. n.nets[x].name # name BY <2>0, <4>1, <4>2
      <4> QED BY <2>0, <4>1, <4>2, <4>3 DEF NetAdded
    <3> QED BY <3>1, <3>2
  <2> QED BY <2>1, <2>2 DEF NetsNamed
<1>11. Indexed(m)
  <2> SUFFICES ASSUME ~m.dirty PROVE IndicesAgree(m) BY DEF Indexed
  <2>1. IndicesAgree(n) BY DEF Refs, Indexed, NetAdded
  <2> SUFFICES ASSUME NEW x \in Valid(m.nets), NEW i \in DOMAIN m.nets[x].pins, m.nets[x].pins[i] # 0
               PROVE  m.pins[m.nets[x].pins[i]].idx = i - 1
    BY DEF IndicesAgree
  <2>2. x \in DOMAIN m.nets /\ m.nets[x].valid BY DEF Valid
  <2>3. CASE x = k
    BY <2>3 DEF NetAdded
  <2>4. CASE x # k
    <3>1. x \in DOMAIN n.nets /\ m.nets[x] = n.nets[x] /\ x # 0
      BY <2>2, <2>4, <1>1, ZeroIsNoId DEF NetAdded
    <3>2. x \in Valid(n.nets) BY <3>1, <2>2 DEF Valid
    <3> DEFINE p == n.nets[x].pins[i]
    <3>3. n.pins[p].idx = i - 1 BY <2>1, <3>1, <3>2 DEF IndicesAgree
    <3>4. PlaceOK(n, x, i) BY <3>1, <2>2, <1>1 DEF Netted
    <3>5. p \in DOMAIN n.pins /\ n.pins[p].net = x BY <3>1, <3>4 DEF PlaceOK
    <3>6. m.pins[p] = n.pins[p] BY <3>1, <3>5, <1>6
    <3> QED BY <3>1, <3>3, <3>6
  <2> QED BY <2>3, <2>4
<1>12. Netted(m)
  <2>1. ASSUME NEW x \in DOMAIN m.nets, m.nets[x].valid
        PROVE  /\ Len(m.nets[x].pins) >= 1 /\ Single(m.nets[x].pins)
               /\ \A i \in DOMAIN m.nets[x].pins : PlaceOK(m, x, i)
    <3>1. CASE x = k
      <4>1. m.nets[x].pins = v BY <3>1 DEF NetAdded
      <4>2. \A i \in DOMAIN v : PlaceOK(m, x, i)
        <5> TAKE i \in DOMAIN v
        <5>1. v[i] \in DOMAIN m.pins /\ m.pins[v[i]].valid /\ m.pins[v[i]].net = k
          BY <1>2 DEF NetAdded
        <5>2. IsSink(m, v[i]) <=> i > 1 BY <1>2, <1>4
        <5> QED BY <3>1, <4>1, <5>1, <5>2 DEF PlaceOK
      <4> QED BY <4>1, <4>2, <1>2
    <3>2. CASE x # k
      <4>1. x \in DOMAIN n.nets /\ m.nets[x] = n.nets[x] /\ x # 0 /\ n.nets[x].valid
        BY <2>1, <3>2, <1>1, ZeroIsNoId DEF NetAdded
      <4>2. Len(n.nets[x].pins) >= 1 /\ Single(n.nets[x].pins) BY Zenon, <4>1, <1>1 DEF Netted
      <4>3. \A i \in DOMAIN n.nets[x].pins : PlaceOK(m, x, i)
        <5> TAKE i \in DOMAIN n.nets[x].pins
        <5>1. PlaceOK(n, x, i) BY <4>1, <1>1 DEF Netted
        <5> DEFINE p == n.nets[x].pins[i]
        <5>2. CASE i = 1 /\ p = 0
          BY <5>2, <4>1 DEF PlaceOK
        <5>3. CASE p \in DOMAIN n.pins /\ n.pins[p].valid /\ n.pins[p].net = x /\ (IsSink(n, p) <=> i > 1)
          <6>1. m.pins[p] = n.pins[p] /\ DOMAIN m.pins = DOMAIN n.pins BY <5>3, <4>1, <1>6 DEF NetAdded
          <6>2. IsSink(m, p) = IsSink(n, p) BY <5>3, <1>4
          <6> QED BY <5>3, <6>1, <6>2, <4>1 DEF PlaceOK
        <5> QED BY <5>1, <5>2, <5>3 DEF PlaceOK
      <4> QED BY <4>1, <4>2, <4>3
    <3> QED BY <3>1, <3>2
  <2>2. ASSUME NEW p \in DOMAIN m.pins, m.pins[p].valid
        PROVE  PinOK(m, p)
    <3>1. p \in DOMAIN n.pins /\ n.pins[p].valid /\ PinOK(n, p) BY <2>2, <1>1 DEF NetAdded, Netted
    <3>2. CASE \E i \in DOMAIN v : v[i] = p
      <4>1. m.pins[p].net = k /\ m.nets[k].valid /\ m.nets[k].pins = v
        BY <3>1, <3>2 DEF NetAdded
      <4> QED BY <3>2, <4>1 DEF PinOK
    <3>3. CASE m.pins[p] = n.pins[p]
      <4>1. CASE n.pins[p].net = 0
        BY Zenon, <3>3, <4>1 DEF PinOK
      <4>2. CASE n.pins[p].net # 0
        <5>1. n.pins[p].net \in DOMAIN n.nets BY <3>1, <4>2, <1>1 DEF InRange
        <5>2. m.nets[n.pins[p].net] = n.nets[n.pins[p].net] BY <5>1 DEF NetAdded
        <5> QED BY Zenon, <3>1, <3>3, <5>2 DEF PinOK
      <4> QED BY <4>1, <4>2
    <3> QED BY <3>1, <3>2, <3>3, <1>5
  <2> QED BY <2>1, <2>2 DEF Netted
<1> QED BY <1>3, <1>4, <1>8, <1>9, <1>10, <1>11, <1>12 DEF Refs

-----------------------------------------------------------------------------
(* What the circuit keeps true of its netlist, which renumbering keeps too. *)

\* A LUT has no clock, an input pad has an output only and an output pad an input.
Fits(model, pn) == /\ model = "names" => pn # "clk"
                   /\ model = "input" => pn = "out"
                   /\ model = "output" => pn = "in"
PortsFit(n) ==
  \A q \in DOMAIN n.ports : Fits(n.blocks[n.ports[q].block].model, n.ports[q].name)

\* Nets bear names of the file.
Plainly(n) == \A k \in DOMAIN n.nets : \E x \in Base : n.nets[k].name = Plain(x)

\* A port's block and name decide whether it fits.
LEMMA FitKept ==
  ASSUME NEW n, Typed(n), PortsFit(n), NEW m, DOMAIN m.ports = DOMAIN n.ports,
         \A q \in DOMAIN n.ports : m.ports[q].block = n.ports[q].block /\ m.ports[q].name = n.ports[q].name,
         \A b \in DOMAIN n.blocks : m.blocks[b].model = n.blocks[b].model
  PROVE  PortsFit(m)
<1>1. \A q \in DOMAIN n.ports : n.ports[q].block \in DOMAIN n.blocks
  BY DEF Typed, InRange
<1> QED BY <1>1 DEF PortsFit

\* The net of an input pad bears the pad's name.
PadsNamed(n) ==
  \A p \in DOMAIN n.pins :
     /\ n.pins[p].valid /\ n.blocks[PinBlock(n, p)].model = "input" /\ ~IsSink(n, p)
     /\ n.pins[p].net # 0
     => n.nets[n.pins[p].net].name = n.blocks[PinBlock(n, p)].name

\* Every block has a pin.
Pinned(n) == \A b \in DOMAIN n.blocks : n.blocks[b].valid => n.blocks[b].pins # {}

\* Every pin is on a net.
Connected(n) == \A p \in DOMAIN n.pins : n.pins[p].valid => n.pins[p].net # 0

\* Every pin's net, if it names one, is there.
Whole(n) == \A p \in DOMAIN n.pins :
  n.pins[p].valid /\ n.pins[p].net # 0 => n.nets[n.pins[p].net].valid

\* No net feeds a clock pin and a data pin.
ClocksApart(n) ==
  \A p, q \in DOMAIN n.pins :
     /\ n.pins[p].valid /\ n.ports[n.pins[p].port].name = "clk"
     /\ n.pins[q].valid /\ n.ports[n.pins[q].port].name = "in"
     /\ n.pins[p].net = n.pins[q].net /\ n.pins[p].net # 0
     => ~n.nets[n.pins[p].net].valid

-----------------------------------------------------------------------------
(* Dropping what is not used.                                              *)

\* Two vectors of a net hold the same driver and the same sinks.
SamePins(s, t) ==
  /\ DOMAIN s # {} /\ 1 \in DOMAIN s /\ 1 \in DOMAIN t /\ t[1] = s[1]
  /\ \A i \in DOMAIN s : i > 1 => \E j \in DOMAIN t : j > 1 /\ t[j] = s[i]
  /\ \A j \in DOMAIN t : j > 1 => \E i \in DOMAIN s : i > 1 /\ s[i] = t[j]

\* m is n without entries that no valid connection of n needs.
Thins(n, m) ==
  /\ SameShape(n, m)
  /\ \A b \in DOMAIN n.blocks : m.blocks[b].name = n.blocks[b].name
  /\ \A p \in DOMAIN n.pins :
        /\ m.pins[p].valid => n.pins[p].valid
        /\ m.pins[p].net = n.pins[p].net \/ m.pins[p].net = 0
        /\ m.pins[p].valid /\ m.pins[p].net # 0 /\ n.nets[n.pins[p].net].valid
           => m.nets[n.pins[p].net].valid
  /\ DOMAIN m.nets = DOMAIN n.nets
  /\ \A k \in DOMAIN n.nets :
        /\ m.nets[k].valid => n.nets[k].valid
        /\ m.nets[k].name = n.nets[k].name
        /\ m.nets[k].valid => SamePins(n.nets[k].pins, m.nets[k].pins)
        /\ n.nets[k].valid /\ ~m.nets[k].valid => \A i \in DOMAIN n.nets[k].pins : n.nets[k].pins[i] = 0

\* What a circuit with nothing unused any more keeps of n.
Thinned(n, m) ==
  /\ Good(m) /\ m.error = "none" /\ PortsFit(m) /\ PadsNamed(m) /\ Pinned(m)
  /\ Whole(n) => Whole(m)
  /\ ClocksApart(n) => ClocksApart(m)
  /\ Connections(m) = Connections(n)

\* The members of Connections
LEMMA ConnectionsFacts ==
  ASSUME NEW n, NEW e
  PROVE  e \in Connections(n) <=>
           \E k \in DOMAIN n.nets : \E i \in DOMAIN n.nets[k].pins :
              /\ n.nets[k].valid /\ n.nets[k].pins[i] # 0
              /\ e = <<n.nets[k].name, i = 1, PinNamed(n, n.nets[k].pins[i])>>
<1> DEFINE C(k) == {<<n.nets[k].name, i = 1, PinNamed(n, n.nets[k].pins[i])>> :
                      i \in {j \in DOMAIN n.nets[k].pins : n.nets[k].pins[j] # 0}}
<1>1. Connections(n) = UNION {C(k) : k \in Valid(n.nets)} BY DEF Connections
<1>2. \A k : e \in C(k) <=> \E i \in DOMAIN n.nets[k].pins :
              /\ n.nets[k].pins[i] # 0
              /\ e = <<n.nets[k].name, i = 1, PinNamed(n, n.nets[k].pins[i])>>
  OBVIOUS
<1> HIDE DEF C
<1>3. e \in Connections(n) <=> \E k \in Valid(n.nets) : e \in C(k) BY <1>1
<1>4. \A k : k \in Valid(n.nets) <=> k \in DOMAIN n.nets /\ n.nets[k].valid BY DEF Valid
<1> QED BY <1>2, <1>3, <1>4

\* Thinning keeps the connections.
LEMMA ThinsConnections ==
  ASSUME NEW n, Typed(n), NEW m, Typed(m), Thins(n, m)
  PROVE  Connections(m) = Connections(n)
<1>0. InRange(n) /\ n \in Netlists /\ m \in Netlists /\ SameShape(n, m) /\ DOMAIN m.nets = DOMAIN n.nets
  BY DEF Typed, Thins
<1>1. ASSUME NEW p \in DOMAIN n.pins PROVE PinNamed(m, p) = PinNamed(n, p)
  <2>1. m.pins[p].port = n.pins[p].port /\ m.pins[p].bit = n.pins[p].bit BY <1>0 DEF SameShape
  <2>2. n.pins[p].port \in DOMAIN n.ports BY <1>0 DEF InRange
  <2>3. m.ports[n.pins[p].port].name = n.ports[n.pins[p].port].name /\ PinBlock(m, p) = PinBlock(n, p)
    BY <1>0, <2>1, <2>2 DEF SameShape, PinBlock
  <2>4. PinBlock(n, p) \in DOMAIN n.blocks BY <1>0, <2>2 DEF InRange, PinBlock
  <2>5. m.blocks[PinBlock(n, p)].name = n.blocks[PinBlock(n, p)].name BY <2>4 DEF Thins
  <2> QED BY <2>1, <2>3, <2>5 DEF PinNamed
<1>2. \A k \in DOMAIN n.nets : \A i \in DOMAIN n.nets[k].pins :
         n.nets[k].pins[i] # 0 => n.nets[k].pins[i] \in DOMAIN n.pins
  BY <1>0 DEF InRange
<1>3. ASSUME NEW k \in DOMAIN n.nets
      PROVE  /\ DOMAIN n.nets[k].pins \subseteq Nat \ {0}
             /\ DOMAIN m.nets[k].pins \subseteq Nat \ {0}
             /\ m.nets[k].name = n.nets[k].name
             /\ m.nets[k].valid => n.nets[k].valid /\ SamePins(n.nets[k].pins, m.nets[k].pins)
             /\ n.nets[k].valid /\ ~m.nets[k].valid => \A i \in DOMAIN n.nets[k].pins : n.nets[k].pins[i] = 0
  <2>1. n.nets[k].pins \in Seq(Nat) /\ m.nets[k].pins \in Seq(Nat) BY <1>0, FieldTypes
  <2>2. DOMAIN n.nets[k].pins \subseteq Nat \ {0} /\ DOMAIN m.nets[k].pins \subseteq Nat \ {0} BY <2>1
  <2> QED BY <2>2 DEF Thins
<1>4. ASSUME NEW k \in DOMAIN n.nets, m.nets[k].valid, NEW i \in DOMAIN m.nets[k].pins
      PROVE  \E j \in DOMAIN n.nets[k].pins : n.nets[k].pins[j] = m.nets[k].pins[i] /\ ((j = 1) <=> (i = 1))
  <2>1. SamePins(n.nets[k].pins, m.nets[k].pins) /\ i \in Nat /\ i # 0 BY <1>3, <1>4
  <2>2. CASE i = 1 BY <2>1, <2>2 DEF SamePins
  <2>3. CASE i # 1
    <3>1. i > 1 BY <2>1, <2>3
    <3>2. PICK j \in DOMAIN n.nets[k].pins : j > 1 /\ n.nets[k].pins[j] = m.nets[k].pins[i]
      BY <2>1, <3>1 DEF SamePins
    <3>3. j # 1 BY <3>2
    <3> QED BY <2>3, <3>2, <3>3
  <2> QED BY <2>2, <2>3
<1>5. ASSUME NEW k \in DOMAIN n.nets, m.nets[k].valid, NEW i \in DOMAIN n.nets[k].pins
      PROVE  \E j \in DOMAIN m.nets[k].pins : n.nets[k].pins[i] = m.nets[k].pins[j] /\ ((j = 1) <=> (i = 1))
  <2>1. SamePins(n.nets[k].pins, m.nets[k].pins) /\ i \in Nat /\ i # 0 BY <1>3, <1>5
  <2>2. CASE i = 1 BY <2>1, <2>2 DEF SamePins
  <2>3. CASE i # 1
    <3>1. i > 1 BY <2>1, <2>3
    <3>2. PICK j \in DOMAIN m.nets[k].pins : j > 1 /\ n.nets[k].pins[i] = m.nets[k].pins[j]
      BY <2>1, <3>1 DEF SamePins
    <3>3. j # 1 BY <3>2
    <3> QED BY <2>3, <3>2, <3>3
  <2> QED BY <2>2, <2>3
<1>6. ASSUME NEW e, e \in Connections(m) PROVE e \in Connections(n)
  <2>0. PICK k \in DOMAIN m.nets : \E i \in DOMAIN m.nets[k].pins :
              /\ m.nets[k].valid /\ m.nets[k].pins[i] # 0
              /\ e = <<m.nets[k].name, i = 1, PinNamed(m, m.nets[k].pins[i])>>
    BY <1>6, ConnectionsFacts
  <2>1. PICK i \in DOMAIN m.nets[k].pins :
              /\ m.nets[k].valid /\ m.nets[k].pins[i] # 0
              /\ e = <<m.nets[k].name, i = 1, PinNamed(m, m.nets[k].pins[i])>>
    BY <2>0
  <2>2. k \in DOMAIN n.nets BY <1>0
  <2>3. PICK j \in DOMAIN n.nets[k].pins : n.nets[k].pins[j] = m.nets[k].pins[i] /\ ((j = 1) <=> (i = 1))
    BY <2>1, <2>2, <1>4
  <2>4. n.nets[k].valid /\ m.nets[k].name = n.nets[k].name BY <2>1, <2>2, <1>3
  <2>5. n.nets[k].pins[j] # 0 /\ PinNamed(m, n.nets[k].pins[j]) = PinNamed(n, n.nets[k].pins[j])
    BY <2>1, <2>2, <2>3, <1>1, <1>2
  <2>6. (i = 1) = (j = 1) BY <2>3
  <2>7. e = <<n.nets[k].name, j = 1, PinNamed(n, n.nets[k].pins[j])>> BY <2>1, <2>3, <2>4, <2>5, <2>6
  <2> QED BY <2>2, <2>4, <2>5, <2>7, ConnectionsFacts
<1>7. ASSUME NEW e, e \in Connections(n) PROVE e \in Connections(m)
  <2>0. PICK k \in DOMAIN n.nets : \E j \in DOMAIN n.nets[k].pins :
              /\ n.nets[k].valid /\ n.nets[k].pins[j] # 0
              /\ e = <<n.nets[k].name, j = 1, PinNamed(n, n.nets[k].pins[j])>>
    BY <1>7, ConnectionsFacts
  <2>1. PICK j \in DOMAIN n.nets[k].pins :
              /\ n.nets[k].valid /\ n.nets[k].pins[j] # 0
              /\ e = <<n.nets[k].name, j = 1, PinNamed(n, n.nets[k].pins[j])>>
    BY <2>0
  <2>2. m.nets[k].valid BY <2>1, <1>3
  <2>3. PICK i \in DOMAIN m.nets[k].pins : n.nets[k].pins[j] = m.nets[k].pins[i] /\ ((i = 1) <=> (j = 1))
    BY <2>1, <2>2, <1>5
  <2>4. m.nets[k].name = n.nets[k].name /\ k \in DOMAIN m.nets BY <1>0, <1>3
  <2>5. m.nets[k].pins[i] # 0 /\ PinNamed(m, m.nets[k].pins[i]) = PinNamed(n, n.nets[k].pins[j])
    BY <2>1, <2>3, <1>1, <1>2
  <2>6. (i = 1) = (j = 1) BY <2>3
  <2>7. e = <<m.nets[k].name, i = 1, PinNamed(m, m.nets[k].pins[i])>> BY <2>1, <2>4, <2>5, <2>6
  <2> QED BY <2>2, <2>4, <2>5, <2>7, ConnectionsFacts
<1> QED BY <1>6, <1>7

\* ... and what a circuit is.
LEMMA ThinsIsThinned ==
  ASSUME NEW n, Typed(n), PortsFit(n), PadsNamed(n), Pinned(n),
         NEW m, Good(m), m.error = "none", Thins(n, m),
         \A b \in DOMAIN n.blocks : m.blocks[b].valid => n.blocks[b].valid
  PROVE  Thinned(n, m)
<1>0. /\ InRange(n) /\ Typed(m) /\ SameShape(n, m) /\ DOMAIN m.nets = DOMAIN n.nets
      /\ DOMAIN m.blocks = DOMAIN n.blocks /\ DOMAIN m.ports = DOMAIN n.ports /\ DOMAIN m.pins = DOMAIN n.pins
  BY DEF Typed, Good, Thins, SameShape
<1>1. PortsFit(m) BY <1>0, FitKept DEF SameShape
<1>2. ASSUME NEW p \in DOMAIN n.pins
      PROVE  /\ n.pins[p].port \in DOMAIN n.ports
             /\ m.pins[p].port = n.pins[p].port
             /\ m.ports[m.pins[p].port].name = n.ports[n.pins[p].port].name
             /\ IsSink(m, p) = IsSink(n, p)
             /\ PinBlock(m, p) = PinBlock(n, p) /\ PinBlock(n, p) \in DOMAIN n.blocks
             /\ m.pins[p].valid => n.pins[p].valid
             /\ m.pins[p].net = n.pins[p].net \/ m.pins[p].net = 0
             /\ m.pins[p].valid /\ m.pins[p].net # 0 /\ n.nets[n.pins[p].net].valid
                => m.nets[n.pins[p].net].valid
             /\ n.pins[p].net # 0 => n.pins[p].net \in DOMAIN n.nets
  <2>1. n.pins[p].port \in DOMAIN n.ports /\ (n.pins[p].net # 0 => n.pins[p].net \in DOMAIN n.nets)
        /\ n.ports[n.pins[p].port].block \in DOMAIN n.blocks
    BY <1>0 DEF InRange
  <2>2. m.pins[p].port = n.pins[p].port /\ m.ports[n.pins[p].port].name = n.ports[n.pins[p].port].name
        /\ m.ports[n.pins[p].port].block = n.ports[n.pins[p].port].block
    BY <1>0, <2>1 DEF SameShape
  <2>3. /\ m.pins[p].valid => n.pins[p].valid
        /\ m.pins[p].net = n.pins[p].net \/ m.pins[p].net = 0
        /\ m.pins[p].valid /\ m.pins[p].net # 0 /\ n.nets[n.pins[p].net].valid
           => m.nets[n.pins[p].net].valid
    BY DEF Thins
  <2> QED BY <2>1, <2>2, <2>3 DEF IsSink, PinBlock
<1>3. \A k \in DOMAIN n.nets : m.nets[k].name = n.nets[k].name /\ (m.nets[k].valid => n.nets[k].valid)
  BY DEF Thins
<1>4. \A b \in DOMAIN n.blocks : m.blocks[b].name = n.blocks[b].name BY Zenon DEF Thins
<1>5. PadsNamed(m)
  <2> SUFFICES ASSUME NEW p \in DOMAIN n.pins, m.pins[p].valid, m.blocks[PinBlock(m, p)].model = "input",
                      ~IsSink(m, p), m.pins[p].net # 0
               PROVE  m.nets[m.pins[p].net].name = m.blocks[PinBlock(m, p)].name
    BY <1>0 DEF PadsNamed
  <2>1. n.blocks[PinBlock(n, p)].model = "input" BY <1>0, <1>2 DEF SameShape
  <2>2. n.pins[p].net # 0 /\ m.pins[p].net = n.pins[p].net /\ n.pins[p].valid /\ ~IsSink(n, p) BY <1>2
  <2>3. n.nets[n.pins[p].net].name = n.blocks[PinBlock(n, p)].name BY <2>1, <2>2 DEF PadsNamed
  <2> QED BY <2>2, <2>3, <1>2, <1>3, <1>4
<1>6. Pinned(m) BY <1>0 DEF Pinned, SameShape
<1>7. ASSUME Whole(n) PROVE Whole(m)
  <2> SUFFICES ASSUME NEW p \in DOMAIN n.pins, m.pins[p].valid, m.pins[p].net # 0
               PROVE  m.nets[m.pins[p].net].valid
    BY <1>0 DEF Whole
  <2>1. n.pins[p].valid /\ m.pins[p].net = n.pins[p].net /\ n.pins[p].net # 0 BY <1>2
  <2>2. n.nets[n.pins[p].net].valid BY <2>1, <1>7 DEF Whole
  <2> QED BY <2>1, <2>2, <1>2
<1>8. ASSUME ClocksApart(n) PROVE ClocksApart(m)
  <2> SUFFICES ASSUME NEW p \in DOMAIN n.pins, NEW q \in DOMAIN n.pins,
                      m.pins[p].valid, m.ports[m.pins[p].port].name = "clk",
                      m.pins[q].valid, m.ports[m.pins[q].port].name = "in",
                      m.pins[p].net = m.pins[q].net, m.pins[p].net # 0, m.nets[m.pins[p].net].valid
               PROVE  FALSE
    BY <1>0 DEF ClocksApart
  <2>1. n.pins[p].valid /\ n.ports[n.pins[p].port].name = "clk" BY <1>2
  <2>2. n.pins[q].valid /\ n.ports[n.pins[q].port].name = "in" BY <1>2
  <2>3. n.pins[p].net = n.pins[q].net /\ n.pins[p].net # 0 /\ m.pins[p].net = n.pins[p].net BY Zenon, <1>2
  <2>4. n.nets[n.pins[p].net].valid BY <2>3, <1>2, <1>3
  <2> QED BY <2>1, <2>2, <2>3, <2>4, <1>8 DEF ClocksApart
<1>9. Connections(m) = Connections(n) BY <1>0, ThinsConnections
<1> QED BY <1>1, <1>5, <1>6, <1>7, <1>8, <1>9 DEF Thinned

\* Thinning twice.
LEMMA ThinnedTransitive ==
  ASSUME NEW n, NEW m, NEW l, Thinned(n, m), Thinned(m, l)
  PROVE  Thinned(n, l)
BY DEF Thinned

\* A vector without pins that it does not have is the same vector.
LEMMA ShortenedSame ==
  ASSUME NEW s \in Seq(Nat), NEW t, NEW P, Shortened(s, t, P), \A i \in DOMAIN s : s[i] \notin P,
         Len(s) >= 1
  PROVE  SamePins(s, t)
<1>1. t \in Seq(Nat) /\ Len(t) >= 1 BY DEF Shortened
<1>2. 1 \in DOMAIN s /\ 1 \in DOMAIN t BY <1>1
<1>3. t[1] = s[1] BY <1>2 DEF Shortened
<1>4. \A i \in DOMAIN t : i > 1 => \E j \in DOMAIN s : j > 1 /\ s[j] = t[i] BY DEF Shortened
<1>5. \A j \in DOMAIN s : j > 1 => \E i \in DOMAIN t : i > 1 /\ t[i] = s[j] BY DEF Shortened
<1> QED BY <1>2, <1>3, <1>4, <1>5 DEF SamePins

\* A vector has its own pins.
LEMMA SamePinsSelf ==
  ASSUME NEW s \in Seq(Nat), Len(s) >= 1
  PROVE  SamePins(s, s)
<1>1. 1 \in DOMAIN s OBVIOUS
<1> QED BY <1>1 DEF SamePins

\* Nets without pins
LEMMA UnusedNetsThinned ==
  ASSUME NEW n, Good(n), n.error = "none", PortsFit(n), PadsNamed(n), Pinned(n),
         NEW m, m = RemoveNets(n, UnusedNets(n))
  PROVE  Thinned(n, m)
<1> DEFINE N == UnusedNets(n)
<1>0. Typed(n) /\ Refs(n) /\ n \in Netlists /\ InRange(n) /\ Netted(n) BY DEF Good, Typed, Refs
<1>1. N \in SUBSET DOMAIN n.nets /\ \A k \in N : n.nets[k].valid BY DEF UnusedNets, Valid
<1>2. \A k \in N : \A i \in DOMAIN n.nets[k].pins : n.nets[k].pins[i] = 0
  <2> SUFFICES ASSUME NEW k \in N, NEW i \in DOMAIN n.nets[k].pins PROVE n.nets[k].pins[i] = 0
    OBVIOUS
  <2>1. Driver(n, k) = 0 /\ Sinks(n, k) = <<>> BY DEF UnusedNets
  <2>2. n.nets[k].pins \in Seq(Nat) /\ Len(n.nets[k].pins) >= 1 BY <1>0, <1>1, FieldTypes DEF Netted
  <2>3. n.nets[k].pins # <<>> /\ n.nets[k].pins[1] = 0 BY <2>1, <2>2 DEF Driver
  <2>4. Tail(n.nets[k].pins) = <<>> BY <2>1, <2>3 DEF Sinks
  <2>5. Len(Tail(n.nets[k].pins)) = Len(n.nets[k].pins) - 1 /\ Len(n.nets[k].pins) \in Nat
        /\ DOMAIN n.nets[k].pins = 1..Len(n.nets[k].pins)
    BY <2>2, TailFacts
  <2> DEFINE v == Tail(n.nets[k].pins)
  <2>a. v = <<>> BY <2>4
  <2>b. Len(v) = Len(n.nets[k].pins) - 1 BY <2>5
  <2> HIDE DEF v
  <2>c. Len(v) = 0 BY <2>a
  <2>6. Len(n.nets[k].pins) = 1 BY <2>5, <2>b, <2>c
  <2> QED BY <2>3, <2>5, <2>6
<1> HIDE DEF N
<1>3. Good(m) /\ m.error = "none" /\ NetsRemoved(n, N, m) /\ SameShape(n, m)
  BY <1>0, <1>1, RemoveNetsEffect DEF N
<1>4. Thins(n, m)
  <2>1. \A b \in DOMAIN n.blocks : m.blocks[b].name = n.blocks[b].name BY <1>3 DEF NetsRemoved
  <2>2. DOMAIN m.nets = DOMAIN n.nets BY <1>3 DEF NetsRemoved
  <2>3. ASSUME NEW p \in DOMAIN n.pins
        PROVE  /\ m.pins[p].valid => n.pins[p].valid
               /\ m.pins[p].net = n.pins[p].net \/ m.pins[p].net = 0
               /\ m.pins[p].valid /\ m.pins[p].net # 0 /\ n.nets[n.pins[p].net].valid
                     => m.nets[n.pins[p].net].valid
    <3>1. n.pins[p] \in PinRecs BY <1>0, Shape
    <3>2. Unlink(n.pins[p]).net = 0 /\ Unlink(n.pins[p]).valid = n.pins[p].valid BY <3>1, UnlinkFacts
    <3>3. m.pins[p] = IF n.pins[p].valid /\ n.pins[p].net # 0 /\ n.pins[p].net \in N
                      THEN Unlink(n.pins[p]) ELSE n.pins[p]
      BY <1>3 DEF NetsRemoved
    <3>4. m.pins[p].valid /\ m.pins[p].net # 0
          => n.pins[p].net # 0 /\ n.pins[p].valid /\ n.pins[p].net \notin N
      BY <3>2, <3>3
    <3>5. n.pins[p].net # 0 => n.pins[p].net \in DOMAIN n.nets BY <1>0 DEF InRange
    <3>6. n.pins[p].net # 0 /\ n.pins[p].net \notin N /\ n.nets[n.pins[p].net].valid
          => m.nets[n.pins[p].net].valid
      BY <3>5, <1>3 DEF NetsRemoved
    <3> QED BY <3>2, <3>3, <3>4, <3>6
  <2>4. ASSUME NEW k \in DOMAIN n.nets
        PROVE  /\ m.nets[k].valid => n.nets[k].valid
               /\ m.nets[k].name = n.nets[k].name
               /\ m.nets[k].valid => SamePins(n.nets[k].pins, m.nets[k].pins)
               /\ n.nets[k].valid /\ ~m.nets[k].valid => \A i \in DOMAIN n.nets[k].pins : n.nets[k].pins[i] = 0
    <3>1. /\ (m.nets[k].valid <=> n.nets[k].valid /\ k \notin N)
          /\ m.nets[k].name = n.nets[k].name /\ m.nets[k].pins = n.nets[k].pins
      BY <1>3 DEF NetsRemoved
    <3>2. n.nets[k].valid => SamePins(n.nets[k].pins, n.nets[k].pins)
      <4>1. n.nets[k].pins \in Seq(Nat) BY <1>0, FieldTypes
      <4> QED BY <4>1, <1>0, SamePinsSelf DEF Netted
    <3>3. k \in N => \A i \in DOMAIN n.nets[k].pins : n.nets[k].pins[i] = 0 BY <1>2
    <3> QED BY <3>1, <3>2, <3>3
  <2> QED BY <1>3, <2>1, <2>2, <2>3, <2>4 DEF Thins
<1>5. \A b \in DOMAIN n.blocks : m.blocks[b].valid => n.blocks[b].valid BY <1>3 DEF NetsRemoved
<1> QED BY <1>0, <1>3, <1>4, <1>5, ThinsIsThinned

\* Taking pins off that no net lists thins the circuit.
LEMMA CutThins ==
  ASSUME NEW n, Typed(n), Refs(n), NEW P \in SUBSET DOMAIN n.pins,
         \A p \in P : ~n.pins[p].valid \/ n.pins[p].net = 0,
         NEW m, SameShape(n, m), \A b \in DOMAIN n.blocks : m.blocks[b].name = n.blocks[b].name,
         PinsRemoved(n, P, m), NetsCut(n, P, m)
  PROVE  Thins(n, m)
<1>0. n \in Netlists /\ InRange(n) /\ Netted(n) BY DEF Typed, Refs
<1>2. DOMAIN m.nets = DOMAIN n.nets /\ DOMAIN m.pins = DOMAIN n.pins BY DEF NetsCut, PinsRemoved
<1>4. ASSUME NEW k \in DOMAIN n.nets
      PROVE  /\ m.nets[k].valid = n.nets[k].valid
             /\ m.nets[k].name = n.nets[k].name
             /\ n.nets[k].valid => SamePins(n.nets[k].pins, m.nets[k].pins)
  <2>1. m.nets[k].valid = n.nets[k].valid /\ m.nets[k].name = n.nets[k].name BY DEF NetsCut
  <2>2. ASSUME n.nets[k].valid PROVE SamePins(n.nets[k].pins, m.nets[k].pins)
    <3>1. n.nets[k].pins \in Seq(Nat) /\ Len(n.nets[k].pins) >= 1 BY <2>2, <1>0, FieldTypes DEF Netted
    <3>2. Shortened(n.nets[k].pins, m.nets[k].pins, P) BY <2>2 DEF NetsCut
    <3>3. ASSUME NEW i \in DOMAIN n.nets[k].pins, n.nets[k].pins[i] \in P PROVE FALSE
      <4>1. PlaceOK(n, k, i) BY <2>2, <1>0 DEF Netted
      <4>2. n.nets[k].pins[i] # 0 BY <3>3, <1>0, ZeroIsNoId
      <4>3. n.pins[n.nets[k].pins[i]].valid /\ n.pins[n.nets[k].pins[i]].net = k BY <4>1, <4>2 DEF PlaceOK
      <4>4. k # 0 BY <1>0, ZeroIsNoId
      <4> QED BY <3>3, <4>3, <4>4
    <3> QED BY <3>1, <3>2, <3>3, ShortenedSame
  <2> QED BY <2>1, <2>2
<1>3. ASSUME NEW p \in DOMAIN n.pins
      PROVE  /\ m.pins[p].valid => n.pins[p].valid
             /\ m.pins[p].net = n.pins[p].net \/ m.pins[p].net = 0
             /\ m.pins[p].valid /\ m.pins[p].net # 0 /\ n.nets[n.pins[p].net].valid
                   => m.nets[n.pins[p].net].valid
  <2>1. CASE p \in P BY <2>1 DEF PinsRemoved
  <2>2. CASE p \notin P
    <3>1. m.pins[p] = n.pins[p] BY <2>2 DEF PinsRemoved
    <3>2. n.pins[p].net # 0 => n.pins[p].net \in DOMAIN n.nets BY <1>0 DEF InRange
    <3> QED BY <3>1, <3>2, <1>4
  <2> QED BY <2>1, <2>2
<1> QED BY <1>2, <1>3, <1>4 DEF Thins

\* Pins on no net
LEMMA LoosePinsThinned ==
  ASSUME NEW n, Good(n), n.error = "none", PortsFit(n), PadsNamed(n), Pinned(n),
         NEW m, m = RemovePins(n, {p \in Valid(n.pins) : n.pins[p].net = 0})
  PROVE  Thinned(n, m)
<1> DEFINE P == {p \in Valid(n.pins) : n.pins[p].net = 0}
<1>0. Typed(n) /\ Refs(n) BY DEF Good
<1>1. P \in SUBSET DOMAIN n.pins /\ \A p \in P : n.pins[p].valid /\ n.pins[p].net = 0 BY DEF Valid
<1> HIDE DEF P
<1>2. /\ Typed(m) /\ Refs(m) /\ m.error = "none" /\ SameShape(n, m)
      /\ m.blocks = n.blocks /\ PinsRemoved(n, P, m) /\ NetsCut(n, P, m)
  BY <1>0, <1>1, RemovePinsEffect DEF P
<1>3. Thins(n, m) BY <1>0, <1>1, <1>2, CutThins
<1> QED BY <1>0, <1>2, <1>3, ThinsIsThinned DEF Good

\* Ports without pins
LEMMA LoosePortsThinned ==
  ASSUME NEW n, Good(n), n.error = "none", PortsFit(n), PadsNamed(n), Pinned(n),
         NEW m, m = RemovePorts(n, {q \in Valid(n.ports) : n.ports[q].pins = <<>>})
  PROVE  Thinned(n, m)
<1> DEFINE Q == {q \in Valid(n.ports) : n.ports[q].pins = <<>>}
<1>0. Typed(n) /\ Refs(n) /\ Structure(n) /\ InRange(n) BY DEF Good, Refs, Typed
<1>1. Q \in SUBSET DOMAIN n.ports /\ \A q \in Q : n.ports[q].valid /\ n.ports[q].pins = <<>> BY DEF Valid
<1> HIDE DEF Q
<1>2. /\ Typed(m) /\ Refs(m) /\ m.error = "none" /\ SameShape(n, m)
      /\ m.blocks = n.blocks /\ PinsRemoved(n, PinsOf(n, Q), m) /\ NetsCut(n, PinsOf(n, Q), m)
  BY <1>0, <1>1, RemovePortsEffect DEF Q
<1>3. PinsOf(n, Q) = {}
  <2> SUFFICES ASSUME NEW p \in DOMAIN n.pins, n.pins[p].port \in Q PROVE FALSE BY DEF PinsOf, Valid
  <2>1. n.pins[p].port \in DOMAIN n.ports BY Zenon, <1>0 DEF InRange
  <2>2. \E i \in DOMAIN n.ports[n.pins[p].port].pins : n.ports[n.pins[p].port].pins[i] = p
    BY <2>1, <1>0 DEF Structure
  <2>3. n.ports[n.pins[p].port].pins = <<>> BY <1>1
  <2> QED BY <2>2, <2>3
<1>4. Thins(n, m)
  <2>1. PinsOf(n, Q) \in SUBSET DOMAIN n.pins BY <1>3
  <2>2. \A b \in DOMAIN n.blocks : m.blocks[b].name = n.blocks[b].name BY <1>2
  <2> HIDE DEF Q
  <2> QED BY <1>0, <1>2, <1>3, <2>1, <2>2, CutThins
<1> QED BY <1>0, <1>2, <1>4, ThinsIsThinned DEF Good

\* Blocks without pins: there are none, since every block had one.
LEMMA LooseBlocksThinned ==
  ASSUME NEW n, Good(n), n.error = "none", PortsFit(n), PadsNamed(n), Pinned(n),
         NEW m, m = RemoveBlocks(n, {b \in Valid(n.blocks) : n.blocks[b].pins = {}})
  PROVE  Thinned(n, m)
<1> DEFINE B == {b \in Valid(n.blocks) : n.blocks[b].pins = {}}
<1>0. Typed(n) /\ Refs(n) BY DEF Good
<1>1. B = {} BY DEF Pinned, Valid
<1>m. m = RemoveBlocks(n, B) OBVIOUS
<1> HIDE DEF B
<1>2. Good(m) /\ m.error = "none" /\ BlocksRemoved(n, B, m)
  <2>1. B \in SUBSET DOMAIN n.blocks /\ \A b \in B : n.blocks[b].valid BY <1>1
  <2>2. /\ Good(m)
        /\ \/ m.error = "none" /\ BlocksRemoved(n, B, m)
           \/ m.error # "none" /\ \E q \in DOMAIN n.ports : ~n.ports[q].valid /\ n.ports[q].block \in B
    BY <1>0, <1>m, <2>1, RemoveBlocksEffect
  <2> QED BY <1>1, <2>2
<1>3. PinsOfBlocks(n, B) = {} BY <1>1 DEF PinsOfBlocks
<1>4. Thins(n, m)
  <2> DEFINE P == PinsOfBlocks(n, B)
  <2>1. /\ SameShape(n, m) /\ \A b \in DOMAIN n.blocks : m.blocks[b].name = n.blocks[b].name
        /\ PinsRemoved(n, P, m) /\ NetsCut(n, P, m)
    BY Zenon, <1>2 DEF BlocksRemoved
  <2>2. P = {} BY <1>3
  <2> HIDE DEF P
  <2> QED BY <1>0, <2>1, <2>2, CutThins
<1>5. \A b \in DOMAIN n.blocks : m.blocks[b].valid => n.blocks[b].valid BY <1>2 DEF BlocksRemoved
<1> QED BY <1>0, <1>2, <1>4, <1>5, ThinsIsThinned

\* remove_unused()
LEMMA RemoveUnusedEffect ==
  ASSUME NEW n, Good(n), n.error = "none", PortsFit(n), PadsNamed(n), Pinned(n),
         NEW m, m = RemoveUnused(n)
  PROVE  Thinned(n, m)
<1> DEFINE nets == RemoveNets(n, UnusedNets(n))
           pins == RemovePins(nets, {p \in Valid(nets.pins) : nets.pins[p].net = 0})
           ports == RemovePorts(pins, {q \in Valid(pins.ports) : pins.ports[q].pins = <<>>})
           blocks == RemoveBlocks(ports, {b \in Valid(ports.blocks) : ports.blocks[b].pins = {}})
<1>1. m = blocks BY Zenon DEF RemoveUnused
<1>2. Thinned(n, nets) BY UnusedNetsThinned
<1>3. pins = RemovePins(nets, {p \in Valid(nets.pins) : nets.pins[p].net = 0})
      /\ ports = RemovePorts(pins, {q \in Valid(pins.ports) : pins.ports[q].pins = <<>>})
      /\ blocks = RemoveBlocks(ports, {b \in Valid(ports.blocks) : ports.blocks[b].pins = {}})
  BY Zenon
<1> HIDE DEF nets, pins, ports, blocks
<1>4. Thinned(nets, pins) BY ZenonT(40), <1>2, <1>3, LoosePinsThinned DEF Thinned
<1>5. Thinned(pins, ports) BY ZenonT(40), <1>3, <1>4, LoosePortsThinned DEF Thinned
<1>6. Thinned(ports, blocks) BY <1>3, <1>5, LooseBlocksThinned DEF Thinned
<1>7. Thinned(n, pins) BY <1>2, <1>4, ThinnedTransitive
<1>8. Thinned(n, ports) BY <1>7, <1>5, ThinnedTransitive
<1>9. Thinned(n, blocks) BY <1>8, <1>6, ThinnedTransitive
<1> QED BY <1>1, <1>9
-----------------------------------------------------------------------------
(* Renumbering.                                                            *)

\* The new place of entry i of a table once the removed ones are gone, and the
\* old place of the one that is at k then.
At(table, i) == Rank(Valid(table), i)
Old(table, k) == Nth(Valid(table), k)

\* The valid entries of a table keep their order when it is packed.
LEMMA TablePlaces ==
  ASSUME NEW S, NEW t \in Seq(S)
  PROVE  /\ Cardinality(Valid(t)) \in Nat
         /\ Keep(t, Valid(t)) \in Seq(S) /\ Len(Keep(t, Valid(t))) = Cardinality(Valid(t))
         /\ DOMAIN Keep(t, Valid(t)) = 1..Cardinality(Valid(t))
         /\ \A k \in 1..Cardinality(Valid(t)) :
               /\ Old(t, k) \in DOMAIN t /\ t[Old(t, k)].valid /\ At(t, Old(t, k)) = k
               /\ Keep(t, Valid(t))[k] = t[Old(t, k)]
         /\ \A i \in DOMAIN t : t[i].valid =>
               At(t, i) \in 1..Cardinality(Valid(t)) /\ Old(t, At(t, i)) = i
<1> DEFINE V == Valid(t)
<1>1. V \in SUBSET DOMAIN t /\ V \in SUBSET (1..Len(t)) /\ Len(t) \in Nat BY DEF Valid
<1>2. \A i : i \in V <=> i \in DOMAIN t /\ t[i].valid BY DEF Valid
<1> HIDE DEF V
<1>3. /\ Keep(t, V) \in Seq(S)
      /\ Len(Keep(t, V)) = Cardinality(V) /\ Cardinality(V) \in 0..Len(t)
      /\ DOMAIN Keep(t, V) = 1..Cardinality(V)
      /\ \A k \in 1..Cardinality(V) : Keep(t, V)[k] = t[Nth(V, k)]
  BY <1>1, KeepFacts
<1>4. /\ \A k \in 1..Cardinality(V) : Nth(V, k) \in V /\ Rank(V, Nth(V, k)) = k
      /\ \A i \in V : Rank(V, i) \in 1..Cardinality(V) /\ Nth(V, Rank(V, i)) = i
  BY <1>1, NthOfRank
<1>5. Cardinality(V) \in Nat BY <1>1, <1>3
<1>6. /\ \A k : Old(t, k) = Nth(V, k)
      /\ \A i : At(t, i) = Rank(V, i)
  BY DEF Old, At, V
<1>7. \A k \in 1..Cardinality(V) :
               /\ Old(t, k) \in DOMAIN t /\ t[Old(t, k)].valid /\ At(t, Old(t, k)) = k
               /\ Keep(t, V)[k] = t[Old(t, k)]
  BY <1>2, <1>3, <1>4, <1>6
<1>8. \A i \in DOMAIN t : t[i].valid =>
               At(t, i) \in 1..Cardinality(V) /\ Old(t, At(t, i)) = i
  BY <1>2, <1>4, <1>6
<1> QED BY <1>3, <1>5, <1>7, <1>8 DEF V

\* t lists the new places of the members of s that stay, in order.
Relisted(s, t, pins) ==
  /\ t \in Seq(Nat)
  /\ \A k \in DOMAIN t : \E i \in DOMAIN s : s[i] \in Valid(pins) /\ t[k] = At(pins, s[i])
  /\ \A i \in DOMAIN s : s[i] \in Valid(pins) => \E k \in DOMAIN t : t[k] = At(pins, s[i])
  /\ \A k, l \in DOMAIN t : k < l =>
        \E i, j \in DOMAIN s : /\ i < j /\ s[i] \in Valid(pins) /\ s[j] \in Valid(pins)
                               /\ t[k] = At(pins, s[i]) /\ t[l] = At(pins, s[j])

\* update_valid_refs(), on a port's pins
LEMMA RenumberRelists ==
  ASSUME NEW S, NEW pins \in Seq(S), NEW s \in Seq(Nat), NEW no, no = FALSE,
         NEW t, t = Renumber(s, Valid(pins), no)
  PROVE  Relisted(s, t, pins)
<1> DEFINE V == Valid(pins)
           J == {i \in DOMAIN s : \/ s[i] \in V
                                  \/ no /\ i = 1 /\ s[i] = 0}
           kept == Keep(s, J)
<1>1. J \in SUBSET DOMAIN s /\ \A i \in DOMAIN s : i \in J <=> s[i] \in V OBVIOUS
<1>2. t = [k \in DOMAIN kept |-> NewId(V, kept[k])] BY DEF Renumber
<1>3. \A i \in V : NewId(V, i) = At(pins, i) /\ At(pins, i) \in Nat
  <2>1. \A i \in V : i \in DOMAIN pins /\ pins[i].valid BY DEF Valid
  <2>0. /\ Cardinality(Valid(pins)) \in Nat
        /\ \A i \in DOMAIN pins : pins[i].valid => At(pins, i) \in 1..Cardinality(Valid(pins))
    BY TablePlaces
  <2> DEFINE c == Cardinality(Valid(pins))
  <2> HIDE DEF c, V
  <2>c. c \in Nat /\ \A i \in DOMAIN pins : pins[i].valid => At(pins, i) \in 1..c BY <2>0 DEF c
  <2>2. \A i \in V : At(pins, i) \in Nat BY <2>1, <2>c
  <2> QED BY <2>2 DEF NewId, At, V
<1> HIDE DEF V, J
<1>4. /\ kept \in Seq(Nat) /\ Cardinality(J) \in 0..Len(s)
      /\ DOMAIN kept = 1..Cardinality(J)
  BY <1>1, KeepFacts
<1>5. /\ \A k \in DOMAIN kept : Nth(J, k) \in J /\ kept[k] = s[Nth(J, k)]
      /\ \A i \in J : Rank(J, i) \in DOMAIN kept /\ kept[Rank(J, i)] = s[i]
      /\ \A k, l \in DOMAIN kept : k < l => Nth(J, k) < Nth(J, l)
  BY <1>1, KeepPlaces
<1> HIDE DEF kept
<1>6. DOMAIN t = DOMAIN kept BY <1>2
<1>7. \A k \in DOMAIN t : kept[k] \in V /\ t[k] = At(pins, kept[k]) BY <1>1, <1>2, <1>3, <1>5, <1>6
<1>8. t \in Seq(Nat)
  <2>1. t \in [1..Cardinality(J) -> Nat] /\ Cardinality(J) \in Nat BY <1>2, <1>3, <1>4, <1>6, <1>7
  <2> QED BY <2>1
<1>9. \A k \in DOMAIN t : \E i \in DOMAIN s : s[i] \in V /\ t[k] = At(pins, s[i])
  BY <1>1, <1>5, <1>6, <1>7
<1>10. \A i \in DOMAIN s : s[i] \in V => \E k \in DOMAIN t : t[k] = At(pins, s[i])
  <2> SUFFICES ASSUME NEW i \in DOMAIN s, s[i] \in V PROVE \E k \in DOMAIN t : t[k] = At(pins, s[i])
    OBVIOUS
  <2>1. Rank(J, i) \in DOMAIN t /\ kept[Rank(J, i)] = s[i] BY <1>1, <1>5, <1>6
  <2>2. t[Rank(J, i)] = At(pins, s[i]) BY <2>1, <1>7
  <2> QED BY <2>1, <2>2
<1>11. ASSUME NEW k \in DOMAIN t, NEW l \in DOMAIN t, k < l
       PROVE  \E i, j \in DOMAIN s : /\ i < j /\ s[i] \in V /\ s[j] \in V
                                     /\ t[k] = At(pins, s[i]) /\ t[l] = At(pins, s[j])
  <2> DEFINE i == Nth(J, k)
             j == Nth(J, l)
  <2>1. i \in J /\ j \in J /\ i < j /\ kept[k] = s[i] /\ kept[l] = s[j] BY <1>5, <1>6, <1>11
  <2>2. i \in DOMAIN s /\ j \in DOMAIN s /\ s[i] \in V /\ s[j] \in V BY <2>1, <1>1
  <2>3. t[k] = At(pins, s[i]) /\ t[l] = At(pins, s[j]) BY <2>1, <1>7
  <2> HIDE DEF i, j
  <2> QED BY <2>1, <2>2, <2>3
<1> QED BY <1>8, <1>9, <1>10, <1>11 DEF Relisted, V

\* ... and on a net's, all of which stay
AllRelisted(s, t, pins) ==
  /\ t \in Seq(Nat) /\ DOMAIN t = DOMAIN s
  /\ \A i \in DOMAIN s : t[i] = At(pins, s[i])
AllStay(s, pins) == s \in Seq(Nat) /\ \A i \in DOMAIN s : s[i] \in Valid(pins)

\* A net's vector, renumbered, keeps its places if all of its pins stay.
LEMMA RenumberAll ==
  ASSUME NEW S, NEW pins \in Seq(S), NEW s, AllStay(s, pins), NEW yes, yes = TRUE,
         NEW t, t = Renumber(s, Valid(pins), yes)
  PROVE  AllRelisted(s, t, pins)
<1> USE DEF AllStay
<1> DEFINE V == Valid(pins)
           J == {i \in DOMAIN s : \/ s[i] \in V
                                  \/ yes /\ i = 1 /\ s[i] = 0}
           kept == Keep(s, J)
           L == Len(s)
<1>1. J = DOMAIN s OBVIOUS
<1>2. t = [k \in DOMAIN kept |-> NewId(V, kept[k])] BY DEF Renumber
<1>3. \A i \in V : NewId(V, i) = At(pins, i) /\ At(pins, i) \in Nat
  <2>1. \A i \in V : i \in DOMAIN pins /\ pins[i].valid BY DEF Valid
  <2>0. /\ Cardinality(Valid(pins)) \in Nat
        /\ \A i \in DOMAIN pins : pins[i].valid => At(pins, i) \in 1..Cardinality(Valid(pins))
    BY TablePlaces
  <2> DEFINE c == Cardinality(Valid(pins))
  <2> HIDE DEF c, V
  <2>c. c \in Nat /\ \A i \in DOMAIN pins : pins[i].valid => At(pins, i) \in 1..c BY <2>0 DEF c
  <2>2. \A i \in V : At(pins, i) \in Nat BY <2>1, <2>c
  <2> QED BY <2>2 DEF NewId, At, V
<1> HIDE DEF V, J
<1>4. J = 1..L /\ L \in Nat BY <1>1
<1>5. Cardinality(J) = L
  <2>0. L \in Nat /\ J = 1..L BY <1>4
  <2> HIDE DEF L
  <2>1. Cardinality(1..L) = L BY <2>0, FS_Interval
  <2> QED BY <2>0, <2>1
<1>6. ASSUME NEW i \in 1..L PROVE Rank(J, i) = i
  <2>1. {j \in J : j =< i} = 1..i BY <1>4
  <2>2. Cardinality(1..i) = i BY FS_Interval
  <2> QED BY <2>1, <2>2 DEF Rank
<1>7. /\ kept \in Seq(Nat) /\ DOMAIN kept = 1..Cardinality(J)
  BY <1>1, KeepFacts
<1>8. \A i \in J : Rank(J, i) \in DOMAIN kept /\ kept[Rank(J, i)] = s[i]
  BY <1>1, KeepPlaces
<1>9. DOMAIN kept = DOMAIN s /\ \A i \in DOMAIN s : kept[i] = s[i]
  BY <1>1, <1>4, <1>5, <1>6, <1>7, <1>8
<1> HIDE DEF kept, L
<1>10. DOMAIN t = DOMAIN s BY <1>2, <1>9
<1>11. \A i \in DOMAIN s : t[i] = At(pins, s[i]) /\ t[i] \in Nat
  <2> TAKE i \in DOMAIN s
  <2>1. s[i] \in V /\ kept[i] = s[i] BY <1>9 DEF V
  <2>2. t[i] = NewId(V, s[i]) BY <2>1, <1>2, <1>9
  <2> QED BY <2>1, <2>2, <1>3
<1>12. t \in Seq(Nat)
  <2>1. t = [k \in DOMAIN s |-> t[k]] BY <1>2, <1>9
  <2>0. L \in Nat /\ DOMAIN s = 1..L BY <1>1, <1>4
  <2>2. t \in [1..L -> Nat] BY <2>0, <1>11, <2>1
  <2> QED BY <2>0, <2>2, WholeSeq
<1> QED BY <1>10, <1>11, <1>12 DEF AllRelisted

\* The new ids of the members of x that stay
Renamed(x, table) == {At(table, i) : i \in {j \in x : j \in Valid(table)}}

\* m is n without its removed entries, every id renumbered.
PackedBlocks(n, m) ==
  /\ m.blocks \in Seq(BlockRecs)
  /\ DOMAIN m.blocks = 1..Cardinality(Valid(n.blocks))
  /\ \A b \in DOMAIN m.blocks : LET r == n.blocks[Old(n.blocks, b)] IN
        /\ m.blocks[b].valid /\ m.blocks[b].name = r.name
        /\ m.blocks[b].model = r.model /\ m.blocks[b].table = r.table
        /\ m.blocks[b].ports = Renamed(r.ports, n.ports)
        /\ m.blocks[b].pins = Renamed(r.pins, n.pins)
PackedPorts(n, m) ==
  /\ m.ports \in Seq(PortRecs)
  /\ DOMAIN m.ports = 1..Cardinality(Valid(n.ports))
  /\ \A q \in DOMAIN m.ports : LET r == n.ports[Old(n.ports, q)] IN
        /\ m.ports[q].valid /\ m.ports[q].name = r.name
        /\ m.ports[q].block = At(n.blocks, r.block)
        /\ Relisted(r.pins, m.ports[q].pins, n.pins)
PackedNets(n, m) ==
  /\ m.nets \in Seq(NetRecs)
  /\ DOMAIN m.nets = 1..Cardinality(Valid(n.nets))
  /\ \A k \in DOMAIN m.nets : LET r == n.nets[Old(n.nets, k)] IN
        /\ m.nets[k].valid /\ m.nets[k].name = r.name
        /\ DOMAIN m.nets[k].pins = DOMAIN r.pins
        /\ \A i \in DOMAIN r.pins : m.nets[k].pins[i] = At(n.pins, r.pins[i])
PackedPins(n, m) ==
  /\ m.pins \in Seq(PinRecs)
  /\ DOMAIN m.pins = 1..Cardinality(Valid(n.pins))
  /\ \A p \in DOMAIN m.pins : LET r == n.pins[Old(n.pins, p)] IN
        /\ m.pins[p].valid /\ m.pins[p].bit = r.bit /\ m.pins[p].const = r.const
        /\ m.pins[p].port = At(n.ports, r.port)
        /\ m.pins[p].net = NewId(Valid(n.nets), r.net)
  /\ \A k \in DOMAIN m.nets : \A i \in DOMAIN m.nets[k].pins :
        m.pins[m.nets[k].pins[i]].idx = i - 1

\* A look-up built again finds the entries' names, in a table without doubles.
Looks(id, table) ==
  /\ id \in [Name -> Nat]
  /\ \A x \in Name : id[x] # 0 => id[x] \in DOMAIN table /\ table[id[x]].name = x
  /\ \A i \in DOMAIN table : id[table[i].name] \in DOMAIN table
                             /\ table[id[table[i].name]].name = table[i].name

\* The entry of a name
IdIn(table, x) == IF \E i \in DOMAIN table : table[i].name = x
                  THEN CHOOSE i \in DOMAIN table : table[i].name = x ELSE 0

\* Lookups rebuilt from a table agree with it.
LEMMA IdsLook ==
  ASSUME NEW S, NEW t \in Seq(S), \A i \in DOMAIN t : t[i].name \in Name,
         NEW id, id = [x \in Name |-> IdIn(t, x)]
  PROVE  Looks(id, t)
<1>1. ASSUME NEW x PROVE /\ IdIn(t, x) \in Nat
                         /\ IdIn(t, x) # 0 => IdIn(t, x) \in DOMAIN t /\ t[IdIn(t, x)].name = x
                         /\ (\E i \in DOMAIN t : t[i].name = x) => IdIn(t, x) # 0
  <2>1. DOMAIN t \subseteq Nat \ {0} OBVIOUS
  <2>2. CASE \E i \in DOMAIN t : t[i].name = x
    <3>1. IdIn(t, x) \in DOMAIN t /\ t[IdIn(t, x)].name = x BY <2>2 DEF IdIn
    <3> QED BY <2>1, <3>1
  <2>3. CASE ~(\E i \in DOMAIN t : t[i].name = x) BY <2>3 DEF IdIn
  <2> QED BY <2>2, <2>3
<1>2. \A x \in Name : id[x] = IdIn(t, x) OBVIOUS
<1>3. id \in [Name -> Nat] BY <1>1
<1> QED BY <1>1, <1>2, <1>3 DEF Looks

\* A table every entry of which was changed
LEMMA UpdatedTable ==
  ASSUME NEW S, NEW f, NEW L \in Nat, DOMAIN f = 1..L, \A i \in 1..L : f[i] \in S,
         f = [i \in DOMAIN f |-> f[i]], NEW t, t = SubSeq(f, 1, L)
  PROVE  t = f /\ t \in Seq(S) /\ Len(t) = L /\ DOMAIN t = 1..L
<1>1. f \in [1..L -> S] OBVIOUS
<1>2. SubSeq(f, 1, L) = f /\ f \in Seq(S) /\ Len(f) = L BY <1>1, WholeSeq
<1> QED BY <1>2

\* A net's pin, put at its place by the rebuilt indices
OnlyAt(nets, p, k, i) ==
  /\ k \in DOMAIN nets /\ i \in DOMAIN nets[k].pins /\ i \in Int
  /\ nets[k].pins[i] = p
  /\ \A l \in DOMAIN nets : \A j \in DOMAIN nets[l].pins : nets[l].pins[j] = p => l = k /\ j = i

\* A pin's index is its only place.
LEMMA IndexFound ==
  ASSUME NEW nets, NEW p, NEW old, NEW k, NEW i, OnlyAt(nets, p, k, i)
  PROVE  IndexInNet(nets, p, old) = i - 1
<1> USE DEF OnlyAt
<1> DEFINE at == UNION {{a - 1 : a \in {j \in DOMAIN nets[l].pins : nets[l].pins[j] = p}}
                     : l \in DOMAIN nets}
           W(l) == {a - 1 : a \in {j \in DOMAIN nets[l].pins : nets[l].pins[j] = p}}
<1>1. at = UNION {W(l) : l \in DOMAIN nets} OBVIOUS
<1>2. W(k) = {i - 1}
  <2>1. {j \in DOMAIN nets[k].pins : nets[k].pins[j] = p} = {i} OBVIOUS
  <2> QED BY <2>1
<1>3. \A l \in DOMAIN nets : l # k => W(l) = {}
  <2> SUFFICES ASSUME NEW l \in DOMAIN nets, l # k PROVE W(l) = {} OBVIOUS
  <2>1. {j \in DOMAIN nets[l].pins : nets[l].pins[j] = p} = {} OBVIOUS
  <2> QED BY <2>1
<1>4. IndexInNet(nets, p, old) = IF at = {} THEN old ELSE CHOOSE a \in at : TRUE BY DEF IndexInNet
<1> HIDE DEF at, W
<1>5. \A a : a \in at <=> \E l \in DOMAIN nets : a \in W(l) BY <1>1
<1>6. at = {i - 1} BY <1>2, <1>3, <1>5
<1> QED BY <1>4, <1>6

\* Otherwise what it had is kept, or some place.
LEMMA IndexType ==
  ASSUME NEW nets, NEW p, NEW old \in Nat \cup {-1},
         \A l \in DOMAIN nets : nets[l].pins \in Seq(Nat)
  PROVE  IndexInNet(nets, p, old) \in Nat \cup {-1}
<1> DEFINE at == UNION {{a - 1 : a \in {j \in DOMAIN nets[l].pins : nets[l].pins[j] = p}}
                     : l \in DOMAIN nets}
<1>1. \A a \in at : a \in Nat
  <2> SUFFICES ASSUME NEW a \in at PROVE a \in Nat OBVIOUS
  <2>1. PICK l \in DOMAIN nets : \E j \in DOMAIN nets[l].pins : a = j - 1 OBVIOUS
  <2>2. DOMAIN nets[l].pins = 1..Len(nets[l].pins) /\ Len(nets[l].pins) \in Nat OBVIOUS
  <2> QED BY <2>1, <2>2
<1>2. IndexInNet(nets, p, old) = IF at = {} THEN old ELSE CHOOSE a \in at : TRUE BY DEF IndexInNet
<1> HIDE DEF at
<1> QED BY <1>1, <1>2

\* compress() when it represents the netlist
Packed(n, m) ==
  /\ m.error = "none" /\ m.dirty = FALSE
  /\ m.blockOf \in [Name -> Nat] /\ m.netOf \in [Name -> Nat]
  /\ PackedBlocks(n, m) /\ PackedPorts(n, m) /\ PackedNets(n, m) /\ PackedPins(n, m)
  /\ Looks(m.blockOf, m.blocks) /\ Looks(m.netOf, m.nets)
  /\ m \in Netlists

\* Entries that a valid entry names are valid.
LEMMA ValidNames ==
  ASSUME NEW n, Typed(n), Refs(n), ~Unrepresentable(n)
  PROVE  /\ \A q \in DOMAIN n.ports : n.ports[q].valid => n.ports[q].block \in Valid(n.blocks)
         /\ \A p \in DOMAIN n.pins : n.pins[p].valid => n.pins[p].port \in Valid(n.ports) /\ n.pins[p].net # 0
         /\ \A k \in DOMAIN n.nets : n.nets[k].valid =>
               /\ n.nets[k].pins \in Seq(Nat) /\ Len(n.nets[k].pins) >= 1
               /\ \A i \in DOMAIN n.nets[k].pins :
                     /\ n.nets[k].pins[i] \in Valid(n.pins) /\ n.pins[n.nets[k].pins[i]].net = k
                     /\ IsSink(n, n.nets[k].pins[i]) <=> i > 1
<1>0. InRange(n) /\ n \in Netlists /\ Owned(n) /\ Netted(n) BY DEF Typed, Refs
<1>1. \A q \in DOMAIN n.ports : n.ports[q].valid => n.ports[q].block \in Valid(n.blocks)
  BY <1>0 DEF InRange, Owned, Valid
<1>2. \A p \in DOMAIN n.pins : n.pins[p].valid => n.pins[p].port \in Valid(n.ports)
  BY <1>0 DEF InRange, Owned, Valid
<1>3. /\ \A p \in DOMAIN n.pins : n.pins[p].valid => n.pins[p].net # 0
      /\ \A k \in DOMAIN n.nets : n.nets[k].valid => Driver(n, k) # 0
  BY DEF Unrepresentable, Valid
<1>4. ASSUME NEW k \in DOMAIN n.nets, n.nets[k].valid
      PROVE  /\ n.nets[k].pins \in Seq(Nat) /\ Len(n.nets[k].pins) >= 1
             /\ \A i \in DOMAIN n.nets[k].pins :
                     /\ n.nets[k].pins[i] \in Valid(n.pins) /\ n.pins[n.nets[k].pins[i]].net = k
                     /\ IsSink(n, n.nets[k].pins[i]) <=> i > 1
  <2>1. n.nets[k].pins \in Seq(Nat) /\ Len(n.nets[k].pins) >= 1 BY <1>0, <1>4, FieldTypes DEF Netted
  <2>2. n.nets[k].pins # <<>> /\ n.nets[k].pins[1] # 0 BY Zenon, <1>3, <1>4, <2>1 DEF Driver
  <2>3. ASSUME NEW i \in DOMAIN n.nets[k].pins
        PROVE  /\ n.nets[k].pins[i] \in Valid(n.pins) /\ n.pins[n.nets[k].pins[i]].net = k
               /\ IsSink(n, n.nets[k].pins[i]) <=> i > 1
    <3>1. PlaceOK(n, k, i) BY <1>0, <1>4 DEF Netted
    <3>2. ~(i = 1 /\ n.nets[k].pins[i] = 0) BY <2>2
    <3> QED BY <3>1, <3>2 DEF PlaceOK, Valid
  <2> QED BY <2>1, <2>3
<1> QED BY <1>1, <1>2, <1>3, <1>4

\* An entry's new id is its place among the valid ones.
LEMMA NewIdAt ==
  ASSUME NEW S, NEW t \in Seq(S), NEW i \in Valid(t)
  PROVE  NewId(Valid(t), i) = At(t, i) /\ At(t, i) \in Nat
<1>1. i \in DOMAIN t /\ t[i].valid BY DEF Valid
<1>2. At(t, i) \in 1..Cardinality(Valid(t)) /\ Cardinality(Valid(t)) \in Nat BY <1>1, TablePlaces
<1> QED BY <1>2 DEF NewId, At

\* compress() packs a netlist that it can represent.
LEMMA CompressPacks ==
  ASSUME NEW n, Typed(n), Refs(n), n.error = "none", ~Unrepresentable(n), NEW m, m = Compress(n)
  PROVE  Packed(n, m)
<1>0. InRange(n) /\ n \in Netlists BY DEF Typed
<1> DEFINE B == Valid(n.blocks)
           Q == Valid(n.ports)
           P == Valid(n.pins)
           N == Valid(n.nets)
           Relabel(x, K) == {NewId(K, i) : i \in x \cap K}
           OfBlock(b) == [b EXCEPT !.pins = Relabel(@, P), !.ports = Relabel(@, Q)]
           OfPort(q) == [q EXCEPT !.block = NewId(B, @), !.pins = Renumber(@, P, FALSE)]
           OfNet(k) == [k EXCEPT !.pins = Renumber(@, P, TRUE)]
           kb == Keep(n.blocks, B)
           kq == Keep(n.ports, Q)
           kn == Keep(n.nets, N)
           fn == [i \in DOMAIN kn |-> IF i \in 1..Cardinality(N) THEN OfNet(kn[i]) ELSE kn[i]]
           nets == SubSeq(fn, 1, Len(kn))
           OfPin(p) == LET old == n.pins[Nth(P, p)] IN
                         [old EXCEPT !.port = NewId(Q, @), !.net = NewId(N, @),
                                     !.idx = IndexInNet(nets, p, @)]
           fb == [i \in DOMAIN kb |-> IF i \in DOMAIN kb THEN OfBlock(kb[i]) ELSE kb[i]]
           fq == [i \in DOMAIN kq |-> IF i \in 1..Cardinality(Q) THEN OfPort(kq[i]) ELSE kq[i]]
           fp == [p \in 1..Cardinality(P) |-> OfPin(p)]
           blocks == SubSeq(fb, 1, Len(kb))
           ports == SubSeq(fq, 1, Len(kq))
           pins == SubSeq(fp, 1, Cardinality(P))
           bo == [x \in Name |-> IdIn(kb, x)]
           no == [x \in Name |-> IdIn(nets, x)]
<1>1. ~ \E q \in Q : n.ports[q].block \notin B BY Zenon, ValidNames DEF Valid
<1>2. m = [n EXCEPT !.blocks = blocks, !.ports = ports, !.nets = nets, !.pins = pins,
                    !.blockOf = bo, !.netOf = no, !.dirty = FALSE]
  BY Zenon, <1>1 DEF Compress, Update, IdIn
<1> HIDE DEF blocks, ports, nets, pins, bo, no
<1>3. /\ m.blocks = blocks /\ m.ports = ports /\ m.nets = nets /\ m.pins = pins
      /\ m.blockOf = bo /\ m.netOf = no /\ m.dirty = FALSE /\ m.error = "none"
      /\ m = [blocks |-> blocks, ports |-> ports, pins |-> pins, nets |-> nets,
              blockOf |-> bo, netOf |-> no, dirty |-> FALSE, error |-> "none"]
  BY <1>0, <1>2 DEF Netlists
<1>5. PackedBlocks(n, m) /\ blocks \in Seq(BlockRecs) /\ DOMAIN kb = DOMAIN blocks
      /\ \A b \in DOMAIN blocks : blocks[b].name = kb[b].name
  <2>1. n.blocks \in Seq(BlockRecs) BY <1>0 DEF Netlists
  <2>2. /\ Cardinality(B) \in Nat
        /\ kb \in Seq(BlockRecs) /\ Len(kb) = Cardinality(B)
        /\ DOMAIN kb = 1..Cardinality(B)
        /\ \A k \in 1..Cardinality(B) :
              /\ Old(n.blocks, k) \in DOMAIN n.blocks /\ n.blocks[Old(n.blocks, k)].valid
              /\ kb[k] = n.blocks[Old(n.blocks, k)]
    BY <2>1, TablePlaces
  <2> DEFINE c == Cardinality(B)
  <2>3. blocks = SubSeq(fb, 1, c) BY <2>2 DEF blocks
  <2>4. DOMAIN fb = DOMAIN kb /\ fb = [i \in DOMAIN fb |-> fb[i]] OBVIOUS
  <2>5. \A x \in SUBSET Nat :
           /\ Relabel(x, P) = Renamed(x, n.pins) /\ Relabel(x, P) \in SUBSET Nat
           /\ Relabel(x, Q) = Renamed(x, n.ports) /\ Relabel(x, Q) \in SUBSET Nat
    <3> TAKE x \in SUBSET Nat
    <3>1. n.pins \in Seq(PinRecs) /\ n.ports \in Seq(PortRecs) BY <1>0 DEF Netlists
    <3>2. \A i \in P : NewId(P, i) = At(n.pins, i) /\ At(n.pins, i) \in Nat BY <3>1, NewIdAt
    <3>3. \A i \in Q : NewId(Q, i) = At(n.ports, i) /\ At(n.ports, i) \in Nat BY <3>1, NewIdAt
    <3> HIDE DEF P, Q
    <3>4. Relabel(x, P) = {At(n.pins, i) : i \in {j \in x : j \in P}} BY <3>2
    <3>5. Relabel(x, Q) = {At(n.ports, i) : i \in {j \in x : j \in Q}} BY <3>3
    <3> QED BY <3>2, <3>3, <3>4, <3>5 DEF Renamed, P, Q
  <2>6. ASSUME NEW i \in DOMAIN kb
        PROVE  LET r == n.blocks[Old(n.blocks, i)] IN
               /\ fb[i] \in BlockRecs
               /\ fb[i].valid /\ fb[i].name = r.name
               /\ fb[i].model = r.model /\ fb[i].table = r.table
               /\ fb[i].ports = Renamed(r.ports, n.ports)
               /\ fb[i].pins = Renamed(r.pins, n.pins)
               /\ fb[i].name = kb[i].name
    <3> DEFINE r == n.blocks[Old(n.blocks, i)]
               x == Relabel(r.pins, P)
               y == Relabel(r.ports, Q)
    <3>1. kb[i] = r /\ r \in BlockRecs /\ r.valid BY <2>2, <1>0, Shape
    <3>2. fb[i] = [r EXCEPT !.pins = Relabel(@, P), !.ports = Relabel(@, Q)]
      <4> HIDE DEF kb, r, P, Q
      <4> QED BY <3>1
    <3>3. [r EXCEPT !.pins = Relabel(@, P), !.ports = Relabel(@, Q)] = [r EXCEPT !.pins = x, !.ports = y] OBVIOUS
    <3>4. r.pins \in SUBSET Nat /\ r.ports \in SUBSET Nat BY <3>1 DEF BlockRecs
    <3>5. /\ x = Renamed(r.pins, n.pins) /\ x \in SUBSET Nat
          /\ y = Renamed(r.ports, n.ports) /\ y \in SUBSET Nat
      BY <2>5, <3>4
    <3> HIDE DEF x, y, r, fb, P, Q, kb
    <3>6. fb[i] = [r EXCEPT !.pins = x, !.ports = y] BY <3>2, <3>3
    <3>7. /\ fb[i] \in BlockRecs /\ fb[i].valid = r.valid /\ fb[i].name = r.name
          /\ fb[i].model = r.model /\ fb[i].table = r.table
          /\ fb[i].pins = x /\ fb[i].ports = y
      BY <3>1, <3>5, <3>6 DEF BlockRecs
    <3> QED BY <3>1, <3>5, <3>7 DEF r
  <2> HIDE DEF fb, kb, B
  <2>7. blocks = fb /\ blocks \in Seq(BlockRecs) /\ DOMAIN blocks = 1..c
    <3>1. c \in Nat /\ DOMAIN fb = 1..c /\ \A i \in 1..c : fb[i] \in BlockRecs BY <2>2, <2>4, <2>6
    <3> HIDE DEF c
    <3> QED BY <2>3, <2>4, <3>1, UpdatedTable
  <2> QED BY <1>3, <2>2, <2>6, <2>7 DEF PackedBlocks, B
<1>6. PackedPorts(n, m) /\ ports \in Seq(PortRecs)
  <2>1. n.ports \in Seq(PortRecs) /\ n.pins \in Seq(PinRecs) /\ n.blocks \in Seq(BlockRecs) BY <1>0 DEF Netlists
  <2>2. /\ Cardinality(Q) \in Nat
        /\ kq \in Seq(PortRecs) /\ Len(kq) = Cardinality(Q)
        /\ DOMAIN kq = 1..Cardinality(Q)
        /\ \A k \in 1..Cardinality(Q) :
              /\ Old(n.ports, k) \in DOMAIN n.ports /\ n.ports[Old(n.ports, k)].valid
              /\ kq[k] = n.ports[Old(n.ports, k)]
    BY Zenon, <2>1, TablePlaces
  <2> DEFINE c == Cardinality(Q)
             f == FALSE
  <2>3. ports = SubSeq(fq, 1, c) BY <2>2 DEF ports
  <2>4. DOMAIN fq = DOMAIN kq /\ fq = [i \in DOMAIN fq |-> fq[i]] OBVIOUS
  <2>6. ASSUME NEW i \in DOMAIN kq
        PROVE  LET r == n.ports[Old(n.ports, i)] IN
               /\ fq[i] \in PortRecs
               /\ fq[i].valid /\ fq[i].name = r.name
               /\ fq[i].block = At(n.blocks, r.block)
               /\ Relisted(r.pins, fq[i].pins, n.pins)
    <3> DEFINE r == n.ports[Old(n.ports, i)]
               x == NewId(B, r.block)
               y == Renumber(r.pins, P, FALSE)
    <3>0. i \in 1..Cardinality(Q) BY <2>2
    <3>1. kq[i] = r /\ r \in PortRecs /\ r.valid BY <2>2, <1>0, Shape
    <3>2. fq[i] = [r EXCEPT !.block = NewId(B, @), !.pins = Renumber(@, P, FALSE)]
      <4> HIDE DEF kq, r, P, Q, B
      <4> QED BY <3>0, <3>1
    <3>3. [r EXCEPT !.block = NewId(B, @), !.pins = Renumber(@, P, FALSE)] = [r EXCEPT !.block = x, !.pins = y]
      OBVIOUS
    <3>4. x = At(n.blocks, r.block) /\ x \in Nat
      <4>1. r.block \in B BY <2>2, ValidNames
      <4> HIDE DEF B, r
      <4>2. NewId(Valid(n.blocks), r.block) = At(n.blocks, r.block) /\ At(n.blocks, r.block) \in Nat
        BY <2>1, <4>1, NewIdAt DEF B
      <4> QED BY <4>2 DEF B
    <3>5. Relisted(r.pins, y, n.pins)
      <4>1. r.pins \in Seq(Nat) BY <3>1 DEF PortRecs
      <4>2. f = FALSE /\ y = Renumber(r.pins, Valid(n.pins), f) OBVIOUS
      <4> HIDE DEF f, y, r
      <4> QED BY <2>1, <4>1, <4>2, RenumberRelists
    <3>6. y \in Seq(Nat) BY <3>5 DEF Relisted
    <3> HIDE DEF x, y, r, fq, P, Q, B, kq
    <3>7. fq[i] = [r EXCEPT !.block = x, !.pins = y] BY <3>2, <3>3
    <3>8. /\ fq[i] \in PortRecs /\ fq[i].valid = r.valid /\ fq[i].name = r.name
          /\ fq[i].block = x /\ fq[i].pins = y
      BY <3>1, <3>4, <3>6, <3>7 DEF PortRecs
    <3> QED BY <3>1, <3>4, <3>5, <3>8 DEF r
  <2> HIDE DEF fq, kq, Q
  <2>7. ports = fq /\ ports \in Seq(PortRecs) /\ DOMAIN ports = 1..c
    <3>1. c \in Nat /\ DOMAIN fq = 1..c /\ \A i \in 1..c : fq[i] \in PortRecs BY <2>2, <2>4, <2>6
    <3> HIDE DEF c
    <3> QED BY <2>3, <2>4, <3>1, UpdatedTable
  <2> QED BY <1>3, <2>2, <2>6, <2>7 DEF PackedPorts, Q
<1>7. PackedNets(n, m) /\ nets \in Seq(NetRecs)
  <2>1. n.nets \in Seq(NetRecs) /\ n.pins \in Seq(PinRecs) BY <1>0 DEF Netlists
  <2>2. /\ Cardinality(N) \in Nat
        /\ kn \in Seq(NetRecs) /\ Len(kn) = Cardinality(N)
        /\ DOMAIN kn = 1..Cardinality(N)
        /\ \A k \in 1..Cardinality(N) :
              /\ Old(n.nets, k) \in DOMAIN n.nets /\ n.nets[Old(n.nets, k)].valid
              /\ kn[k] = n.nets[Old(n.nets, k)]
    BY <2>1, TablePlaces
  <2> DEFINE c == Cardinality(N)
             t == TRUE
  <2>3. nets = SubSeq(fn, 1, c) BY <2>2 DEF nets
  <2>4. DOMAIN fn = DOMAIN kn /\ fn = [i \in DOMAIN fn |-> fn[i]] OBVIOUS
  <2>6. ASSUME NEW i \in DOMAIN kn
        PROVE  LET r == n.nets[Old(n.nets, i)] IN
               /\ fn[i] \in NetRecs
               /\ fn[i].valid /\ fn[i].name = r.name
               /\ DOMAIN fn[i].pins = DOMAIN r.pins
               /\ \A j \in DOMAIN r.pins : fn[i].pins[j] = At(n.pins, r.pins[j])
    <3> DEFINE r == n.nets[Old(n.nets, i)]
               y == Renumber(r.pins, P, TRUE)
    <3>0. i \in 1..Cardinality(N) BY <2>2
    <3>1. kn[i] = r /\ r \in NetRecs /\ r.valid BY <2>2, <1>0, Shape
    <3>2. fn[i] = [r EXCEPT !.pins = Renumber(@, P, TRUE)]
      <4> HIDE DEF kn, r, P, N
      <4> QED BY <3>0, <3>1
    <3>3. [r EXCEPT !.pins = Renumber(@, P, TRUE)] = [r EXCEPT !.pins = y]
      OBVIOUS
    <3>5. y \in Seq(Nat) /\ DOMAIN y = DOMAIN r.pins /\ \A j \in DOMAIN r.pins : y[j] = At(n.pins, r.pins[j])
      <4>1. r.pins \in Seq(Nat) /\ \A j \in DOMAIN r.pins : r.pins[j] \in Valid(n.pins) BY <2>2, ValidNames
      <4>2. t = TRUE /\ y = Renumber(r.pins, Valid(n.pins), t) OBVIOUS
      <4> DEFINE s == r.pins
                 ps == n.pins
      <4>3. AllStay(s, ps) /\ ps \in Seq(PinRecs)
            /\ t = TRUE /\ y = Renumber(s, Valid(ps), t)
        BY <2>1, <4>1, <4>2 DEF AllStay
      <4> HIDE DEF t, y, s, ps
      <4>4. AllRelisted(s, y, ps) BY ONLY <4>3, RenumberAll
      <4> QED BY <4>4 DEF s, ps, AllRelisted
    <3> HIDE DEF y, r, fn, P, N, kn
    <3>7. fn[i] = [r EXCEPT !.pins = y] BY <3>2, <3>3
    <3>8. /\ fn[i] \in NetRecs /\ fn[i].valid = r.valid /\ fn[i].name = r.name
          /\ fn[i].pins = y
      BY <3>1, <3>5, <3>7 DEF NetRecs
    <3> QED BY <3>1, <3>5, <3>8 DEF r
  <2> HIDE DEF fn, kn, N
  <2>7. nets = fn /\ nets \in Seq(NetRecs) /\ DOMAIN nets = 1..c
    <3>1. c \in Nat /\ DOMAIN fn = 1..c /\ \A i \in 1..c : fn[i] \in NetRecs BY <2>2, <2>4, <2>6
    <3> HIDE DEF c
    <3> QED BY <2>3, <2>4, <3>1, UpdatedTable
  <2> QED BY <1>3, <2>2, <2>6, <2>7 DEF PackedNets, N
<1>8. Looks(m.blockOf, m.blocks) /\ Looks(m.netOf, m.nets)
  <2>1. Looks(no, nets)
    <3>0. \A i \in DOMAIN nets : nets[i] \in NetRecs BY <1>7
    <3>1. \A i \in DOMAIN nets : nets[i].name \in Name BY <3>0 DEF NetRecs
    <3> QED BY <1>7, <3>1, IdsLook DEF no
  <2>2. Looks(bo, blocks)
    <3> HIDE DEF kb
    <3>1. kb \in Seq(BlockRecs)
      <4>1. n.blocks \in Seq(BlockRecs) BY <1>0 DEF Netlists
      <4> QED BY <4>1, TablePlaces DEF kb
    <3>0. \A i \in DOMAIN kb : kb[i] \in BlockRecs BY <3>1
    <3>2. \A i \in DOMAIN kb : kb[i].name \in Name BY <3>0 DEF BlockRecs
    <3>3. Looks(bo, kb) BY <3>1, <3>2, IdsLook DEF bo
    <3> QED BY <3>3, <1>5 DEF Looks
  <2> QED BY <1>3, <2>1, <2>2
<1>9. PackedPins(n, m) /\ pins \in Seq(PinRecs)
  <2>1. n.nets \in Seq(NetRecs) /\ n.pins \in Seq(PinRecs) /\ n.ports \in Seq(PortRecs) BY <1>0 DEF Netlists
  <2>2. /\ Cardinality(P) \in Nat
        /\ \A k \in 1..Cardinality(P) :
              /\ Old(n.pins, k) \in DOMAIN n.pins /\ n.pins[Old(n.pins, k)].valid
              /\ Old(n.pins, k) = Nth(P, k) /\ At(n.pins, Old(n.pins, k)) = k
        /\ \A i \in DOMAIN n.pins : n.pins[i].valid => Old(n.pins, At(n.pins, i)) = i
                                                       /\ At(n.pins, i) \in 1..Cardinality(P)
    BY <2>1, TablePlaces DEF Old
  <2> DEFINE c == Cardinality(P)
  <2>4. DOMAIN fp = 1..c /\ fp = [i \in DOMAIN fp |-> fp[i]] /\ pins = SubSeq(fp, 1, c) BY DEF pins
  <2>5. \A k \in DOMAIN nets : nets[k].pins \in Seq(Nat)
    <3>1. \A k \in DOMAIN nets : nets[k] \in NetRecs BY <1>7
    <3> QED BY <3>1 DEF NetRecs
  <2>6. ASSUME NEW i \in 1..c
        PROVE  LET r == n.pins[Old(n.pins, i)] IN
               /\ fp[i] \in PinRecs
               /\ fp[i].valid /\ fp[i].bit = r.bit /\ fp[i].const = r.const
               /\ fp[i].port = At(n.ports, r.port)
               /\ fp[i].net = NewId(N, r.net)
               /\ fp[i].idx = IndexInNet(nets, i, r.idx)
    <3> DEFINE r == n.pins[Old(n.pins, i)]
               x == NewId(Q, r.port)
               y == NewId(N, r.net)
               z == IndexInNet(nets, i, r.idx)
    <3>1. Nth(P, i) = Old(n.pins, i) /\ r \in PinRecs /\ r.valid BY <2>2, <1>0, Shape
    <3>2. fp[i] = [r EXCEPT !.port = NewId(Q, @), !.net = NewId(N, @), !.idx = IndexInNet(nets, i, @)]
      <4>1. fp[i] = OfPin(i) OBVIOUS
      <4> HIDE DEF fp, P, N, Q
      <4> QED BY <3>1, <4>1
    <3>3. [r EXCEPT !.port = NewId(Q, @), !.net = NewId(N, @), !.idx = IndexInNet(nets, i, @)]
          = [r EXCEPT !.port = x, !.net = y, !.idx = z]
      OBVIOUS
    <3>4. x = At(n.ports, r.port) /\ x \in Nat
      <4>1. r.port \in Q BY <2>2, ValidNames
      <4> HIDE DEF Q, r
      <4>2. NewId(Valid(n.ports), r.port) = At(n.ports, r.port) /\ At(n.ports, r.port) \in Nat
        BY <2>1, <4>1, NewIdAt DEF Q
      <4> QED BY <4>2 DEF Q
    <3>5. y \in Nat
      <4>1. CASE r.net \in N
        <5> HIDE DEF N, r
        <5>1. NewId(Valid(n.nets), r.net) \in Nat BY <2>1, <4>1, NewIdAt DEF N
        <5> QED BY <5>1 DEF N
      <4>2. CASE r.net \notin N BY <4>2 DEF NewId
      <4> QED BY <4>1, <4>2
    <3>6. z \in Nat \cup {-1}
      <4>1. r.idx \in Nat \cup {-1} BY <3>1 DEF PinRecs
      <4> HIDE DEF r
      <4> QED BY <4>1, <2>5, IndexType
    <3> HIDE DEF x, y, z, r, fp, P, N, Q
    <3>7. fp[i] = [r EXCEPT !.port = x, !.net = y, !.idx = z] BY <3>2, <3>3
    <3>8. /\ fp[i] \in PinRecs /\ fp[i].valid = r.valid /\ fp[i].bit = r.bit /\ fp[i].const = r.const
          /\ fp[i].port = x /\ fp[i].net = y /\ fp[i].idx = z
      BY <3>1, <3>4, <3>5, <3>6, <3>7 DEF PinRecs
    <3> QED BY <3>1, <3>4, <3>8 DEF r, y, z
  <2> HIDE DEF fp, P
  <2>7. pins = fp /\ pins \in Seq(PinRecs) /\ DOMAIN pins = 1..c
    <3>1. c \in Nat /\ DOMAIN fp = 1..c /\ \A i \in 1..c : fp[i] \in PinRecs BY <2>2, <2>4, <2>6
    <3> HIDE DEF c
    <3> QED BY <2>4, <3>1, UpdatedTable
  <2>8. ASSUME NEW k \in DOMAIN nets
        PROVE  /\ Old(n.nets, k) \in DOMAIN n.nets /\ n.nets[Old(n.nets, k)].valid
               /\ At(n.nets, Old(n.nets, k)) = k
               /\ DOMAIN nets[k].pins = DOMAIN n.nets[Old(n.nets, k)].pins
               /\ \A i \in DOMAIN nets[k].pins : nets[k].pins[i] = At(n.pins, n.nets[Old(n.nets, k)].pins[i])
    <3>1. DOMAIN nets = 1..Cardinality(Valid(n.nets)) /\ m.nets = nets BY <1>3, <1>7 DEF PackedNets
    <3>2. Old(n.nets, k) \in DOMAIN n.nets /\ n.nets[Old(n.nets, k)].valid /\ At(n.nets, Old(n.nets, k)) = k
      BY <2>1, <3>1, TablePlaces
    <3> QED BY <3>1, <3>2, <1>7 DEF PackedNets
  <2>9. ASSUME NEW k \in DOMAIN nets, NEW i \in DOMAIN nets[k].pins
        PROVE  LET u == n.nets[Old(n.nets, k)].pins[i] IN
               u \in DOMAIN n.pins /\ n.pins[u].valid /\ n.pins[u].net = Old(n.nets, k)
               /\ nets[k].pins[i] = At(n.pins, u) /\ Old(n.pins, nets[k].pins[i]) = u
               /\ nets[k].pins[i] \in 1..c
    <3>1. n.nets[Old(n.nets, k)].pins[i] \in Valid(n.pins)
          /\ n.pins[n.nets[Old(n.nets, k)].pins[i]].net = Old(n.nets, k)
      BY <2>8, ValidNames
    <3>2. n.nets[Old(n.nets, k)].pins[i] \in DOMAIN n.pins /\ n.pins[n.nets[Old(n.nets, k)].pins[i]].valid
      BY <3>1 DEF Valid
    <3> HIDE DEF c
    <3>3. nets[k].pins[i] = At(n.pins, n.nets[Old(n.nets, k)].pins[i]) BY <2>8
    <3>4. /\ Old(n.pins, At(n.pins, n.nets[Old(n.nets, k)].pins[i])) = n.nets[Old(n.nets, k)].pins[i]
          /\ At(n.pins, n.nets[Old(n.nets, k)].pins[i]) \in 1..c
      BY <2>2, <3>2 DEF c
    <3> QED BY <3>1, <3>2, <3>3, <3>4
  <2>10. ASSUME NEW k \in DOMAIN nets, NEW i \in DOMAIN nets[k].pins
         PROVE  pins[nets[k].pins[i]].idx = i - 1
    <3> DEFINE p == nets[k].pins[i]
    <3>1. p \in 1..c BY <2>9
    <3>2. ASSUME NEW l \in DOMAIN nets, NEW j \in DOMAIN nets[l].pins, nets[l].pins[j] = p
          PROVE  l = k /\ j = i
      <4> DEFINE u == n.nets[Old(n.nets, k)].pins[i]
                 v == n.nets[Old(n.nets, l)].pins[j]
      <4>1. u \in DOMAIN n.pins /\ n.pins[u].net = Old(n.nets, k) /\ Old(n.pins, p) = u BY <2>9
      <4>2. v \in DOMAIN n.pins /\ n.pins[v].net = Old(n.nets, l) /\ Old(n.pins, p) = v BY <2>9, <3>2
      <4>3. Old(n.nets, k) = Old(n.nets, l) BY <4>1, <4>2
      <4>4. k = l BY <4>3, <2>8
      <4>5. Single(n.nets[Old(n.nets, k)].pins) BY <2>8 DEF Refs, Netted
      <4>6. u # 0 BY <4>1, <1>0, ZeroIsNoId
      <4>7. i \in DOMAIN n.nets[Old(n.nets, k)].pins /\ j \in DOMAIN n.nets[Old(n.nets, k)].pins BY <2>8, <4>4
      <4>8. n.nets[Old(n.nets, k)].pins[j] = n.nets[Old(n.nets, k)].pins[i] BY <4>1, <4>2, <4>4
      <4> HIDE DEF u, v, p
      <4>9. n.nets[Old(n.nets, k)].pins[i] # 0 BY <4>6 DEF u
      <4>10. i = j BY ONLY <4>5, <4>7, <4>8, <4>9 DEF Single
      <4> QED BY Zenon, <4>4, <4>10
    <3>3. i \in Int BY <2>5
    <3> DEFINE old == n.pins[Old(n.pins, p)].idx
    <3>4. pins[p].idx = IndexInNet(nets, p, old) BY <2>6, <2>7, <3>1
    <3>5. nets[k].pins[i] = p OBVIOUS
    <3> HIDE DEF p, old
    <3>7. OnlyAt(nets, p, k, i) BY <3>2, <3>3, <3>5 DEF OnlyAt
    <3>6. IndexInNet(nets, p, old) = i - 1 BY ONLY <3>7, IndexFound
    <3> QED BY <3>4, <3>5, <3>6
  <2> HIDE DEF N
  <2>11. ASSUME NEW p \in DOMAIN m.pins
         PROVE  LET r == n.pins[Old(n.pins, p)] IN
                /\ m.pins[p].valid /\ m.pins[p].bit = r.bit /\ m.pins[p].const = r.const
                /\ m.pins[p].port = At(n.ports, r.port)
                /\ m.pins[p].net = NewId(Valid(n.nets), r.net)
    BY <1>3, <2>6, <2>7 DEF N
  <2> HIDE DEF fn, kn
  <2> QED BY <1>3, <2>7, <2>10, <2>11 DEF PackedPins, P
<1>10. m \in Netlists
  <2>1. bo \in [Name -> Nat] /\ no \in [Name -> Nat] BY <1>3, <1>8 DEF Looks
  <2>2. FALSE \in BOOLEAN OBVIOUS
  <2> HIDE DEF fn, fb, fq, fp, kn, kq, kb, B, Q, P, N
  <2> QED BY <1>3, <1>5, <1>6, <1>7, <1>9, <2>1 DEF Netlists
<1> QED BY <1>3, <1>5, <1>6, <1>7, <1>8, <1>9, <1>10 DEF Packed, Looks

\* Old places and new ones correspond.
Places(t, u) ==
  /\ \A k \in DOMAIN u : Old(t, k) \in DOMAIN t /\ t[Old(t, k)].valid /\ At(t, Old(t, k)) = k
  /\ \A i \in DOMAIN t : t[i].valid => At(t, i) \in DOMAIN u /\ Old(t, At(t, i)) = i

\* A packed table has the valid entries, in their places.
LEMMA PackedPlaces ==
  ASSUME NEW n, Typed(n), NEW m, Packed(n, m)
  PROVE  /\ Places(n.blocks, m.blocks) /\ Places(n.ports, m.ports)
         /\ Places(n.pins, m.pins) /\ Places(n.nets, m.nets)
<1>0. /\ n.blocks \in Seq(BlockRecs) /\ n.ports \in Seq(PortRecs)
      /\ n.pins \in Seq(PinRecs) /\ n.nets \in Seq(NetRecs)
  BY DEF Typed, Netlists
<1>1. ASSUME NEW S, NEW t \in Seq(S), NEW u, DOMAIN u = 1..Cardinality(Valid(t)) PROVE Places(t, u)
  BY <1>1, TablePlaces DEF Places
<1> QED BY <1>0, <1>1 DEF Packed, PackedBlocks, PackedPorts, PackedPins, PackedNets

\* A pin's port, block and class, renumbered
LEMMA PackedPin ==
  ASSUME NEW n, Typed(n), Refs(n), ~Unrepresentable(n), NEW m, Packed(n, m), NEW p \in DOMAIN m.pins,
         NEW o, o = Old(n.pins, p)
  PROVE  /\ o \in DOMAIN n.pins /\ n.pins[o].valid /\ At(n.pins, o) = p
         /\ m.pins[p].valid /\ m.pins[p].bit = n.pins[o].bit
         /\ n.pins[o].port \in DOMAIN n.ports /\ n.ports[n.pins[o].port].valid
         /\ m.pins[p].port = At(n.ports, n.pins[o].port) /\ m.pins[p].port \in DOMAIN m.ports
         /\ Old(n.ports, m.pins[p].port) = n.pins[o].port
         /\ m.ports[m.pins[p].port].name = n.ports[n.pins[o].port].name
         /\ IsSink(m, p) = IsSink(n, o)
         /\ PinBlock(n, o) \in DOMAIN n.blocks /\ n.blocks[PinBlock(n, o)].valid
         /\ PinBlock(m, p) = At(n.blocks, PinBlock(n, o)) /\ PinBlock(m, p) \in DOMAIN m.blocks
         /\ m.blocks[PinBlock(m, p)].name = n.blocks[PinBlock(n, o)].name
         /\ m.blocks[PinBlock(m, p)].model = n.blocks[PinBlock(n, o)].model
         /\ m.pins[p].net # 0 =>
               /\ n.pins[o].net \in DOMAIN n.nets /\ n.nets[n.pins[o].net].valid
               /\ m.pins[p].net = At(n.nets, n.pins[o].net) /\ m.pins[p].net \in DOMAIN m.nets
               /\ m.nets[m.pins[p].net].name = n.nets[n.pins[o].net].name
         /\ m.pins[p].net = 0 => ~n.nets[n.pins[o].net].valid
<1>0. /\ Places(n.blocks, m.blocks) /\ Places(n.ports, m.ports)
      /\ Places(n.pins, m.pins) /\ Places(n.nets, m.nets) /\ InRange(n) /\ n \in Netlists
  BY PackedPlaces DEF Typed
<1>1. o \in DOMAIN n.pins /\ n.pins[o].valid /\ At(n.pins, o) = p BY <1>0 DEF Places
<1>2. /\ m.pins[p].valid /\ m.pins[p].bit = n.pins[o].bit
      /\ m.pins[p].port = At(n.ports, n.pins[o].port)
      /\ m.pins[p].net = NewId(Valid(n.nets), n.pins[o].net)
  BY DEF Packed, PackedPins
<1>3. n.pins[o].port \in Valid(n.ports) /\ n.pins[o].net # 0 BY <1>1, ValidNames
<1>4. n.pins[o].port \in DOMAIN n.ports /\ n.ports[n.pins[o].port].valid BY <1>3 DEF Valid
<1>5. m.pins[p].port \in DOMAIN m.ports /\ Old(n.ports, m.pins[p].port) = n.pins[o].port
  BY <1>0, <1>2, <1>4 DEF Places
<1>6. /\ m.ports[m.pins[p].port].name = n.ports[n.pins[o].port].name
      /\ m.ports[m.pins[p].port].block = At(n.blocks, n.ports[n.pins[o].port].block)
  BY <1>5 DEF Packed, PackedPorts
<1>7. IsSink(m, p) = IsSink(n, o) BY <1>6 DEF IsSink
<1>8. PinBlock(n, o) \in Valid(n.blocks) BY <1>4, ValidNames DEF PinBlock
<1>9. PinBlock(n, o) \in DOMAIN n.blocks /\ n.blocks[PinBlock(n, o)].valid BY <1>8 DEF Valid
<1>10. PinBlock(m, p) = At(n.blocks, PinBlock(n, o)) BY <1>6 DEF PinBlock
<1>11. PinBlock(m, p) \in DOMAIN m.blocks /\ Old(n.blocks, PinBlock(m, p)) = PinBlock(n, o)
  BY <1>0, <1>9, <1>10 DEF Places
<1>12. /\ m.blocks[PinBlock(m, p)].name = n.blocks[PinBlock(n, o)].name
       /\ m.blocks[PinBlock(m, p)].model = n.blocks[PinBlock(n, o)].model
  BY <1>11 DEF Packed, PackedBlocks
<1>13. n.pins[o].net \in DOMAIN n.nets BY <1>0, <1>1, <1>3 DEF InRange
<1>14. CASE n.nets[n.pins[o].net].valid
  <2>1. n.pins[o].net \in Valid(n.nets) BY <1>13, <1>14 DEF Valid
  <2>2. m.pins[p].net = At(n.nets, n.pins[o].net) BY <1>2, <2>1 DEF NewId, At
  <2>3. m.pins[p].net \in DOMAIN m.nets /\ Old(n.nets, m.pins[p].net) = n.pins[o].net
    BY <1>0, <1>13, <1>14, <2>2 DEF Places
  <2>4. m.nets[m.pins[p].net].name = n.nets[n.pins[o].net].name BY <2>3 DEF Packed, PackedNets
  <2>5. m.pins[p].net # 0
    <3>1. m \in Netlists BY DEF Packed
    <3> QED BY <2>3, <3>1, ZeroIsNoId
  <2> QED BY <1>1, <1>2, <1>4, <1>5, <1>6, <1>7, <1>9, <1>10, <1>11, <1>12, <1>13, <1>14, <2>2, <2>3, <2>4, <2>5
<1>15. CASE ~n.nets[n.pins[o].net].valid
  <2>1. n.pins[o].net \notin Valid(n.nets) BY <1>15 DEF Valid
  <2>2. m.pins[p].net = 0 BY Zenon, <1>2, <2>1 DEF NewId
  <2> QED BY <1>1, <1>2, <1>4, <1>5, <1>6, <1>7, <1>9, <1>10, <1>11, <1>12, <1>15, <2>2
<1> QED BY <1>14, <1>15

\* A net's pins, renumbered
LEMMA PackedNet ==
  ASSUME NEW n, Typed(n), Refs(n), ~Unrepresentable(n), NEW m, Packed(n, m), NEW k \in DOMAIN m.nets,
         NEW o, o = Old(n.nets, k)
  PROVE  /\ o \in DOMAIN n.nets /\ n.nets[o].valid /\ At(n.nets, o) = k
         /\ m.nets[k].valid /\ m.nets[k].name = n.nets[o].name
         /\ DOMAIN m.nets[k].pins = DOMAIN n.nets[o].pins /\ Len(n.nets[o].pins) >= 1
         /\ n.nets[o].pins \in Seq(Nat) /\ m.nets[k].pins \in Seq(Nat)
         /\ \A i \in DOMAIN n.nets[o].pins :
               /\ m.nets[k].pins[i] = At(n.pins, n.nets[o].pins[i])
               /\ m.nets[k].pins[i] \in DOMAIN m.pins
               /\ Old(n.pins, m.nets[k].pins[i]) = n.nets[o].pins[i]
               /\ n.nets[o].pins[i] \in DOMAIN n.pins
               /\ n.pins[n.nets[o].pins[i]].net = o
               /\ IsSink(n, n.nets[o].pins[i]) <=> i > 1
<1>0. Places(n.pins, m.pins) /\ Places(n.nets, m.nets) BY PackedPlaces
<1>1. o \in DOMAIN n.nets /\ n.nets[o].valid /\ At(n.nets, o) = k BY <1>0 DEF Places
<1>2. /\ m.nets[k].valid /\ m.nets[k].name = n.nets[o].name
      /\ DOMAIN m.nets[k].pins = DOMAIN n.nets[o].pins
      /\ \A i \in DOMAIN n.nets[o].pins : m.nets[k].pins[i] = At(n.pins, n.nets[o].pins[i])
  BY DEF Packed, PackedNets
<1>3. /\ n.nets[o].pins \in Seq(Nat) /\ Len(n.nets[o].pins) >= 1
      /\ \A i \in DOMAIN n.nets[o].pins :
                     /\ n.nets[o].pins[i] \in Valid(n.pins) /\ n.pins[n.nets[o].pins[i]].net = o
                     /\ IsSink(n, n.nets[o].pins[i]) <=> i > 1
  BY <1>1, ValidNames
<1>4. \A i \in DOMAIN n.nets[o].pins : n.nets[o].pins[i] \in DOMAIN n.pins /\ n.pins[n.nets[o].pins[i]].valid
  BY <1>3 DEF Valid
<1>5. \A i \in DOMAIN n.nets[o].pins :
         m.nets[k].pins[i] \in DOMAIN m.pins /\ Old(n.pins, m.nets[k].pins[i]) = n.nets[o].pins[i]
  BY <1>0, <1>2, <1>4 DEF Places
<1>6. m.nets[k].pins \in Seq(Nat)
  <2>1. m \in Netlists BY DEF Packed
  <2> QED BY <2>1, FieldTypes
<1> QED BY <1>1, <1>2, <1>3, <1>4, <1>5, <1>6

\* The members of a renumbered set
LEMMA RenamedFacts ==
  ASSUME NEW t, NEW u, Places(t, u), NEW x
  PROVE  /\ Renamed(x, t) \subseteq DOMAIN u
         /\ \A k \in DOMAIN u : k \in Renamed(x, t) <=> Old(t, k) \in x
<1>1. \A i \in Valid(t) : i \in DOMAIN t /\ t[i].valid BY DEF Valid
<1>2. \A e : e \in Renamed(x, t) <=> \E i \in Valid(t) : i \in x /\ e = At(t, i) BY DEF Renamed
<1>3. Renamed(x, t) \subseteq DOMAIN u BY <1>1, <1>2 DEF Places
<1>4. ASSUME NEW k \in DOMAIN u PROVE k \in Renamed(x, t) <=> Old(t, k) \in x
  <2>1. Old(t, k) \in Valid(t) /\ At(t, Old(t, k)) = k BY DEF Places, Valid
  <2>2. \A i \in Valid(t) : k = At(t, i) => i = Old(t, k) BY <1>1 DEF Places
  <2> QED BY <1>2, <2>1, <2>2
<1> QED BY <1>3, <1>4

\* compress() leaves a good netlist, without removed entries.
LEMMA PackedTyped ==
  ASSUME NEW n, Typed(n), Refs(n), ~Unrepresentable(n), NEW m, Packed(n, m)
  PROVE  Typed(m)
<1>0. /\ Places(n.blocks, m.blocks) /\ Places(n.ports, m.ports)
      /\ Places(n.pins, m.pins) /\ Places(n.nets, m.nets) /\ InRange(n) /\ n \in Netlists /\ m \in Netlists
  BY PackedPlaces DEF Typed, Packed
<1>1. ASSUME NEW b \in DOMAIN m.blocks
      PROVE  m.blocks[b].ports \subseteq DOMAIN m.ports /\ m.blocks[b].pins \subseteq DOMAIN m.pins
  <2>1. /\ m.blocks[b].ports = Renamed(n.blocks[Old(n.blocks, b)].ports, n.ports)
        /\ m.blocks[b].pins = Renamed(n.blocks[Old(n.blocks, b)].pins, n.pins)
    BY DEF Packed, PackedBlocks
  <2> QED BY <1>0, <2>1, RenamedFacts
<1>2. ASSUME NEW q \in DOMAIN m.ports
      PROVE  /\ m.ports[q].block \in DOMAIN m.blocks
             /\ \A i \in DOMAIN m.ports[q].pins : m.ports[q].pins[i] \in DOMAIN m.pins
  <2> DEFINE o == Old(n.ports, q)
  <2>1. o \in DOMAIN n.ports /\ n.ports[o].valid BY <1>0 DEF Places
  <2>2. m.ports[q].block = At(n.blocks, n.ports[o].block) /\ Relisted(n.ports[o].pins, m.ports[q].pins, n.pins)
    BY DEF Packed, PackedPorts
  <2>3. n.ports[o].block \in DOMAIN n.blocks /\ n.blocks[n.ports[o].block].valid
    BY <2>1, ValidNames DEF Valid
  <2>4. m.ports[q].block \in DOMAIN m.blocks BY <2>2, <2>3, <1>0 DEF Places
  <2>5. ASSUME NEW i \in DOMAIN m.ports[q].pins PROVE m.ports[q].pins[i] \in DOMAIN m.pins
    <3>1. PICK j \in DOMAIN n.ports[o].pins : /\ n.ports[o].pins[j] \in Valid(n.pins)
                                              /\ m.ports[q].pins[i] = At(n.pins, n.ports[o].pins[j])
      BY <2>2 DEF Relisted
    <3>2. n.ports[o].pins[j] \in DOMAIN n.pins /\ n.pins[n.ports[o].pins[j]].valid BY <3>1 DEF Valid
    <3> QED BY <3>1, <3>2, <1>0 DEF Places
  <2> QED BY <2>4, <2>5
<1>3. \A p \in DOMAIN m.pins : /\ m.pins[p].port \in DOMAIN m.ports
                               /\ m.pins[p].net # 0 => m.pins[p].net \in DOMAIN m.nets
  BY PackedPin
<1>4. ASSUME NEW k \in DOMAIN m.nets, NEW i \in DOMAIN m.nets[k].pins
      PROVE  m.nets[k].pins[i] \in DOMAIN m.pins
  BY PackedNet
<1>5. \A x \in Name : /\ m.blockOf[x] # 0 => m.blockOf[x] \in DOMAIN m.blocks
                      /\ m.netOf[x] # 0 => m.netOf[x] \in DOMAIN m.nets
  BY DEF Packed, Looks
<1> QED BY <1>0, <1>1, <1>2, <1>3, <1>4, <1>5 DEF Typed, InRange

\* Its blocks, ports and pins
LEMMA PackedStructure ==
  ASSUME NEW n, Typed(n), Refs(n), ~Unrepresentable(n), NEW m, Packed(n, m)
  PROVE  Structure(m)
<1>0. /\ Places(n.blocks, m.blocks) /\ Places(n.ports, m.ports)
      /\ Places(n.pins, m.pins) /\ Places(n.nets, m.nets) /\ InRange(n) /\ n \in Netlists /\ Structure(n)
  BY PackedPlaces DEF Typed, Refs
<1>1. ASSUME NEW q \in DOMAIN m.ports, NEW o, o = Old(n.ports, q)
      PROVE  /\ o \in DOMAIN n.ports /\ n.ports[o].valid /\ At(n.ports, o) = q
             /\ n.ports[o].block \in DOMAIN n.blocks /\ n.blocks[n.ports[o].block].valid
             /\ m.ports[q].block = At(n.blocks, n.ports[o].block) /\ m.ports[q].block \in DOMAIN m.blocks
             /\ Old(n.blocks, m.ports[q].block) = n.ports[o].block
             /\ m.ports[q].name = n.ports[o].name
             /\ Relisted(n.ports[o].pins, m.ports[q].pins, n.pins)
  <2>1. o \in DOMAIN n.ports /\ n.ports[o].valid /\ At(n.ports, o) = q BY <1>0, <1>1 DEF Places
  <2>2. m.ports[q].block = At(n.blocks, n.ports[o].block) /\ m.ports[q].name = n.ports[o].name
        /\ Relisted(n.ports[o].pins, m.ports[q].pins, n.pins)
    BY <1>1 DEF Packed, PackedPorts
  <2>3. n.ports[o].block \in DOMAIN n.blocks /\ n.blocks[n.ports[o].block].valid
    BY <2>1, ValidNames DEF Valid
  <2>4. m.ports[q].block \in DOMAIN m.blocks /\ Old(n.blocks, m.ports[q].block) = n.ports[o].block
    BY <2>2, <2>3, <1>0 DEF Places
  <2> QED BY <2>1, <2>2, <2>3, <2>4
<1>2. ASSUME NEW b \in DOMAIN m.blocks
      PROVE  /\ Old(n.blocks, b) \in DOMAIN n.blocks /\ At(n.blocks, Old(n.blocks, b)) = b
             /\ \A q \in DOMAIN m.ports : q \in m.blocks[b].ports <=> Old(n.ports, q) \in n.blocks[Old(n.blocks, b)].ports
             /\ \A p \in DOMAIN m.pins : p \in m.blocks[b].pins <=> Old(n.pins, p) \in n.blocks[Old(n.blocks, b)].pins
  <2>1. /\ m.blocks[b].ports = Renamed(n.blocks[Old(n.blocks, b)].ports, n.ports)
        /\ m.blocks[b].pins = Renamed(n.blocks[Old(n.blocks, b)].pins, n.pins)
    BY DEF Packed, PackedBlocks
  <2>2. Old(n.blocks, b) \in DOMAIN n.blocks /\ At(n.blocks, Old(n.blocks, b)) = b BY <1>0 DEF Places
  <2>3. \A q \in DOMAIN m.ports : q \in m.blocks[b].ports <=> Old(n.ports, q) \in n.blocks[Old(n.blocks, b)].ports
    BY <1>0, <2>1, RenamedFacts
  <2>4. \A p \in DOMAIN m.pins : p \in m.blocks[b].pins <=> Old(n.pins, p) \in n.blocks[Old(n.blocks, b)].pins
    BY <1>0, <2>1, RenamedFacts
  <2> QED BY <2>2, <2>3, <2>4
<1>3. ASSUME NEW p \in DOMAIN m.pins, NEW o, o = Old(n.pins, p)
      PROVE  /\ o \in DOMAIN n.pins /\ n.pins[o].valid /\ At(n.pins, o) = p
             /\ m.pins[p].bit = n.pins[o].bit
             /\ m.pins[p].port = At(n.ports, n.pins[o].port) /\ m.pins[p].port \in DOMAIN m.ports
             /\ Old(n.ports, m.pins[p].port) = n.pins[o].port
             /\ PinBlock(n, o) \in DOMAIN n.blocks /\ n.blocks[PinBlock(n, o)].valid
             /\ PinBlock(m, p) = At(n.blocks, PinBlock(n, o))
  BY <1>3, PackedPin
<1>4. ASSUME NEW b \in DOMAIN m.blocks, NEW q \in DOMAIN m.ports
      PROVE  q \in m.blocks[b].ports <=> m.ports[q].block = b
  <2> DEFINE o == Old(n.ports, q)
             a == Old(n.blocks, b)
  <2>1. q \in m.blocks[b].ports <=> o \in n.blocks[a].ports BY <1>2
  <2>2. a \in DOMAIN n.blocks /\ At(n.blocks, a) = b BY <1>2
  <2>3. o \in DOMAIN n.ports /\ m.ports[q].block = At(n.blocks, n.ports[o].block)
        /\ Old(n.blocks, m.ports[q].block) = n.ports[o].block
    BY Zenon, <1>1
  <2>4. o \in n.blocks[a].ports <=> n.ports[o].block = a BY <2>2, <2>3, <1>0 DEF Structure
  <2> QED BY <2>1, <2>2, <2>3, <2>4
<1>5. ASSUME NEW b \in DOMAIN m.blocks, NEW p \in DOMAIN m.pins
      PROVE  p \in m.blocks[b].pins <=> PinBlock(m, p) = b
  <2> DEFINE o == Old(n.pins, p)
             a == Old(n.blocks, b)
  <2>1. p \in m.blocks[b].pins <=> o \in n.blocks[a].pins BY <1>2
  <2>2. a \in DOMAIN n.blocks /\ At(n.blocks, a) = b BY <1>2
  <2>3. o \in DOMAIN n.pins /\ PinBlock(m, p) = At(n.blocks, PinBlock(n, o))
        /\ PinBlock(n, o) \in DOMAIN n.blocks /\ n.blocks[PinBlock(n, o)].valid
    BY <1>3
  <2>4. o \in n.blocks[a].pins <=> PinBlock(n, o) = a BY <2>2, <2>3, <1>0 DEF Structure
  <2>5. Old(n.blocks, PinBlock(m, p)) = PinBlock(n, o) BY <2>3, <1>0 DEF Places
  <2>6. PinBlock(m, p) = b <=> PinBlock(n, o) = a
    <3>1. PinBlock(n, o) = a => PinBlock(m, p) = b BY <2>2, <2>3
    <3>2. PinBlock(m, p) = b => PinBlock(n, o) = a BY <2>5
    <3> QED BY <3>1, <3>2
  <2> QED BY <2>1, <2>4, <2>6
<1>6. ASSUME NEW q \in DOMAIN m.ports, NEW p \in DOMAIN m.pins
      PROVE  (\E i \in DOMAIN m.ports[q].pins : m.ports[q].pins[i] = p) <=> m.pins[p].port = q
  <2> DEFINE o == Old(n.ports, q)
             u == Old(n.pins, p)
  <2>1. o \in DOMAIN n.ports /\ n.ports[o].valid /\ At(n.ports, o) = q
        /\ Relisted(n.ports[o].pins, m.ports[q].pins, n.pins)
    BY <1>1
  <2>2. u \in DOMAIN n.pins /\ n.pins[u].valid /\ At(n.pins, u) = p
        /\ m.pins[p].port = At(n.ports, n.pins[u].port) /\ Old(n.ports, m.pins[p].port) = n.pins[u].port
    BY Zenon, <1>3
  <2>3. (\E j \in DOMAIN n.ports[o].pins : n.ports[o].pins[j] = u) <=> n.pins[u].port = o
    BY <2>1, <2>2, <1>0 DEF Structure
  <2>4. m.pins[p].port = q <=> n.pins[u].port = o
    <3>1. n.pins[u].port = o => m.pins[p].port = q BY <2>1, <2>2
    <3>2. m.pins[p].port = q => n.pins[u].port = o BY <2>2
    <3> QED BY <3>1, <3>2
  <2>5. ASSUME NEW i \in DOMAIN m.ports[q].pins, m.ports[q].pins[i] = p
        PROVE  \E j \in DOMAIN n.ports[o].pins : n.ports[o].pins[j] = u
    <3>1. PICK j \in DOMAIN n.ports[o].pins : /\ n.ports[o].pins[j] \in Valid(n.pins)
                                              /\ m.ports[q].pins[i] = At(n.pins, n.ports[o].pins[j])
      BY <2>1 DEF Relisted
    <3>2. n.ports[o].pins[j] \in DOMAIN n.pins /\ n.pins[n.ports[o].pins[j]].valid BY <3>1 DEF Valid
    <3>3. Old(n.pins, p) = n.ports[o].pins[j] BY <3>1, <3>2, <2>5, <1>0 DEF Places
    <3> QED BY <3>3
  <2>6. ASSUME NEW j \in DOMAIN n.ports[o].pins, n.ports[o].pins[j] = u
        PROVE  \E i \in DOMAIN m.ports[q].pins : m.ports[q].pins[i] = p
    <3>1. n.ports[o].pins[j] \in Valid(n.pins) BY <2>2, <2>6 DEF Valid
    <3>2. \E i \in DOMAIN m.ports[q].pins : m.ports[q].pins[i] = At(n.pins, n.ports[o].pins[j])
      BY <2>1, <3>1 DEF Relisted
    <3> QED BY <3>2, <2>2, <2>6
  <2> QED BY <2>3, <2>4, <2>5, <2>6
<1>7. ASSUME NEW q \in DOMAIN m.ports, NEW i \in DOMAIN m.ports[q].pins, NEW j \in DOMAIN m.ports[q].pins, i < j
      PROVE  m.pins[m.ports[q].pins[i]].bit < m.pins[m.ports[q].pins[j]].bit
  <2> DEFINE o == Old(n.ports, q)
             s == n.ports[o].pins
  <2>1. o \in DOMAIN n.ports /\ Relisted(s, m.ports[q].pins, n.pins) BY <1>1
  <2>2. PICK a, c \in DOMAIN s : /\ a < c /\ s[a] \in Valid(n.pins) /\ s[c] \in Valid(n.pins)
                                 /\ m.ports[q].pins[i] = At(n.pins, s[a]) /\ m.ports[q].pins[j] = At(n.pins, s[c])
    BY <2>1, <1>7 DEF Relisted
  <2>3. n.pins[s[a]].bit < n.pins[s[c]].bit BY <2>1, <2>2, <1>0 DEF Structure
  <2>4. ASSUME NEW u \in Valid(n.pins) PROVE m.pins[At(n.pins, u)].bit = n.pins[u].bit
    <3>1. u \in DOMAIN n.pins /\ n.pins[u].valid BY DEF Valid
    <3>2. At(n.pins, u) \in DOMAIN m.pins /\ Old(n.pins, At(n.pins, u)) = u BY <3>1, <1>0 DEF Places
    <3> QED BY <3>2, <1>3
  <2> QED BY <2>2, <2>3, <2>4
<1>8. ASSUME NEW q \in DOMAIN m.ports, NEW r \in DOMAIN m.ports,
             m.ports[q].block = m.ports[r].block, m.ports[q].name = m.ports[r].name
      PROVE  q = r
  <2> DEFINE o == Old(n.ports, q)
             u == Old(n.ports, r)
  <2>1. o \in DOMAIN n.ports /\ At(n.ports, o) = q /\ Old(n.blocks, m.ports[q].block) = n.ports[o].block
        /\ m.ports[q].name = n.ports[o].name
    BY <1>1
  <2>2. u \in DOMAIN n.ports /\ At(n.ports, u) = r /\ Old(n.blocks, m.ports[r].block) = n.ports[u].block
        /\ m.ports[r].name = n.ports[u].name
    BY <1>1
  <2>3. \A x, y \in DOMAIN n.ports :
          n.ports[x].block = n.ports[y].block /\ n.ports[x].name = n.ports[y].name => x = y
    BY <1>0 DEF Structure
  <2>4. n.ports[o].block = n.ports[u].block BY <2>1, <2>2, <1>8
  <2>5. n.ports[o].name = n.ports[u].name BY <2>1, <2>2, <1>8
  <2> HIDE DEF o, u
  <2>6. o = u BY <2>1, <2>2, <2>3, <2>4, <2>5
  <2> QED BY <2>1, <2>2, <2>6
<1> QED BY <1>4, <1>5, <1>6, <1>7, <1>8 DEF Structure

\* A packed netlist's connections
LEMMA PackedNetted ==
  ASSUME NEW n, Typed(n), Refs(n), ~Unrepresentable(n), NEW m, Packed(n, m)
  PROVE  Netted(m) /\ Whole(m)
<1>0. /\ Places(n.blocks, m.blocks) /\ Places(n.ports, m.ports)
      /\ Places(n.pins, m.pins) /\ Places(n.nets, m.nets) /\ Netted(n) /\ n \in Netlists
  BY PackedPlaces DEF Typed, Refs
<1>1. ASSUME NEW k \in DOMAIN m.nets, m.nets[k].valid
      PROVE  /\ Len(m.nets[k].pins) >= 1 /\ Single(m.nets[k].pins)
             /\ \A i \in DOMAIN m.nets[k].pins : PlaceOK(m, k, i)
  <2> DEFINE o == Old(n.nets, k)
             s == n.nets[o].pins
             t == m.nets[k].pins
  <2>1. /\ o \in DOMAIN n.nets /\ n.nets[o].valid /\ At(n.nets, o) = k
        /\ DOMAIN t = DOMAIN s /\ Len(s) >= 1 /\ s \in Seq(Nat) /\ t \in Seq(Nat)
        /\ \A i \in DOMAIN s :
              /\ t[i] \in DOMAIN m.pins /\ Old(n.pins, t[i]) = s[i]
              /\ s[i] \in DOMAIN n.pins /\ n.pins[s[i]].net = o
              /\ IsSink(n, s[i]) <=> i > 1
    BY PackedNet
  <2>2. Single(s) BY <2>1, <1>0 DEF Netted
  <2> HIDE DEF o, s
  <2>3. Single(t)
    <3> SUFFICES ASSUME NEW i \in DOMAIN t, NEW j \in DOMAIN t, t[i] = t[j] PROVE i = j BY DEF Single
    <3>1. s[i] = s[j] BY <2>1
    <3>2. s[i] \in DOMAIN n.pins /\ 0 \notin DOMAIN n.pins BY <2>1, <1>0, ZeroIsNoId
    <3> QED BY <3>1, <3>2, <2>1, <2>2 DEF Single
  <2>4. ASSUME NEW i \in DOMAIN t PROVE PlaceOK(m, k, i)
    <3>1. /\ t[i] \in DOMAIN m.pins /\ Old(n.pins, t[i]) = s[i] /\ n.pins[s[i]].net = o
          /\ (IsSink(n, s[i]) <=> i > 1)
      BY Zenon, <2>1
    <3>2. m.pins[t[i]].valid /\ IsSink(m, t[i]) = IsSink(n, s[i]) BY <3>1, PackedPin
    <3>3. m.pins[t[i]].net = NewId(Valid(n.nets), o) BY <3>1 DEF Packed, PackedPins
    <3>4. NewId(Valid(n.nets), o) = k BY <2>1 DEF NewId, At, Valid
    <3> QED BY <3>1, <3>2, <3>3, <3>4 DEF PlaceOK
  <2>5. Len(t) >= 1 BY SMTT(30), <2>1
  <2> QED BY <2>3, <2>4, <2>5
<1>2. ASSUME NEW p \in DOMAIN m.pins, m.pins[p].net # 0
      PROVE  PinOK(m, p) /\ m.nets[m.pins[p].net].valid
  <2> DEFINE o == Old(n.pins, p)
             k == m.pins[p].net
             l == n.pins[o].net
  <2>1. /\ o \in DOMAIN n.pins /\ n.pins[o].valid /\ At(n.pins, o) = p
        /\ l \in DOMAIN n.nets /\ n.nets[l].valid /\ k = At(n.nets, l) /\ k \in DOMAIN m.nets
    BY <1>2, PackedPin
  <2>2. PinOK(n, o) BY <2>1, <1>0 DEF Netted
  <2>3. l # 0 BY Zenon, <2>1, <1>0, ZeroIsNoId
  <2>4. PICK i \in DOMAIN n.nets[l].pins : n.nets[l].pins[i] = o BY Zenon, <2>1, <2>2, <2>3 DEF PinOK
  <2>5. Old(n.nets, k) = l BY <2>1, <1>0 DEF Places
  <2>6. /\ m.nets[k].valid /\ DOMAIN m.nets[k].pins = DOMAIN n.nets[l].pins
        /\ m.nets[k].pins[i] = At(n.pins, n.nets[l].pins[i])
    <3>1. PackedNets(n, m) BY Zenon DEF Packed
    <3>2. /\ m.nets[k].valid /\ DOMAIN m.nets[k].pins = DOMAIN n.nets[Old(n.nets, k)].pins
          /\ \A j \in DOMAIN n.nets[Old(n.nets, k)].pins :
                m.nets[k].pins[j] = At(n.pins, n.nets[Old(n.nets, k)].pins[j])
      BY <2>1, <3>1 DEF PackedNets
    <3> HIDE DEF k, l
    <3> QED BY <2>4, <2>5, <3>2
  <2>7. m.nets[k].pins[i] = p /\ i \in DOMAIN m.nets[k].pins BY <2>1, <2>4, <2>6
  <2> QED BY Zenon, <2>6, <2>7 DEF PinOK
<1>3. \A p \in DOMAIN m.pins : PinOK(m, p) BY <1>2 DEF PinOK
<1>4. Netted(m) BY <1>1, <1>3 DEF Netted
<1>5. Whole(m) BY <1>2 DEF Whole
<1> QED BY <1>4, <1>5

\* Its names
LEMMA PackedNamed ==
  ASSUME NEW n, Typed(n), Refs(n), ~Unrepresentable(n), NEW m, Packed(n, m)
  PROVE  BlocksNamed(m) /\ NetsNamed(m)
<1>0. /\ Places(n.blocks, m.blocks) /\ Places(n.nets, m.nets) /\ BlocksNamed(n) /\ NetsNamed(n)
      /\ Looks(m.blockOf, m.blocks) /\ Looks(m.netOf, m.nets)
      /\ PackedBlocks(n, m) /\ PackedNets(n, m)
  BY PackedPlaces DEF Refs, Packed
<1>1. ASSUME NEW b \in DOMAIN m.blocks, NEW c \in DOMAIN m.blocks, m.blocks[b].name = m.blocks[c].name
      PROVE  b = c
  <2> DEFINE o == Old(n.blocks, b)
             u == Old(n.blocks, c)
  <2>1. o \in DOMAIN n.blocks /\ n.blocks[o].valid /\ At(n.blocks, o) = b /\ m.blocks[b].name = n.blocks[o].name
    BY <1>0 DEF Places, PackedBlocks
  <2>2. u \in DOMAIN n.blocks /\ n.blocks[u].valid /\ At(n.blocks, u) = c /\ m.blocks[c].name = n.blocks[u].name
    BY <1>0 DEF Places, PackedBlocks
  <2> HIDE DEF o, u
  <2>3. n.blockOf[n.blocks[o].name] = o BY <2>1, <1>0 DEF BlocksNamed
  <2>4. n.blockOf[n.blocks[u].name] = u BY <2>2, <1>0 DEF BlocksNamed
  <2> QED BY <1>1, <2>1, <2>2, <2>3, <2>4
<1>2. ASSUME NEW b \in DOMAIN m.nets, NEW c \in DOMAIN m.nets, m.nets[b].name = m.nets[c].name
      PROVE  b = c
  <2> DEFINE o == Old(n.nets, b)
             u == Old(n.nets, c)
  <2>1. o \in DOMAIN n.nets /\ n.nets[o].valid /\ At(n.nets, o) = b /\ m.nets[b].name = n.nets[o].name
    BY <1>0 DEF Places, PackedNets
  <2>2. u \in DOMAIN n.nets /\ n.nets[u].valid /\ At(n.nets, u) = c /\ m.nets[c].name = n.nets[u].name
    BY <1>0 DEF Places, PackedNets
  <2> HIDE DEF o, u
  <2>3. n.netOf[n.nets[o].name] = o BY <2>1, <1>0 DEF NetsNamed
  <2>4. n.netOf[n.nets[u].name] = u BY <2>2, <1>0 DEF NetsNamed
  <2> QED BY <1>2, <2>1, <2>2, <2>3, <2>4
<1>3. \A b \in DOMAIN m.blocks : m.blocks[b].valid BY <1>0 DEF PackedBlocks
<1>4. \A k \in DOMAIN m.nets : m.nets[k].valid BY <1>0 DEF PackedNets
<1>5. \A b \in DOMAIN m.blocks : m.blockOf[m.blocks[b].name] = b
  <2> TAKE b \in DOMAIN m.blocks
  <2>1. m.blockOf[m.blocks[b].name] \in DOMAIN m.blocks
        /\ m.blocks[m.blockOf[m.blocks[b].name]].name = m.blocks[b].name
    BY <1>0 DEF Looks
  <2> QED BY <2>1, <1>1
<1>6. \A k \in DOMAIN m.nets : m.netOf[m.nets[k].name] = k
  <2> TAKE k \in DOMAIN m.nets
  <2>1. m.netOf[m.nets[k].name] \in DOMAIN m.nets
        /\ m.nets[m.netOf[m.nets[k].name]].name = m.nets[k].name
    BY <1>0 DEF Looks
  <2> QED BY <2>1, <1>2
<1>7. BlocksNamed(m) BY <1>0, <1>3, <1>5 DEF Looks, BlocksNamed
<1>8. NetsNamed(m) BY <1>0, <1>4, <1>6 DEF Looks, NetsNamed
<1> QED BY <1>7, <1>8

\* Every entry of a packed netlist is valid.
Full(n) == /\ \A b \in DOMAIN n.blocks : n.blocks[b].valid
           /\ \A q \in DOMAIN n.ports : n.ports[q].valid
           /\ \A p \in DOMAIN n.pins : n.pins[p].valid
           /\ \A k \in DOMAIN n.nets : n.nets[k].valid

\* A packed netlist is good, and none of its entries is removed.
LEMMA PackedIsGood ==
  ASSUME NEW n, Typed(n), Refs(n), ~Unrepresentable(n), NEW m, Packed(n, m)
  PROVE  Good(m) /\ m.error = "none" /\ Full(m) /\ Whole(m)
<1>1. Typed(m) /\ Structure(m) /\ Netted(m) /\ Whole(m) /\ BlocksNamed(m) /\ NetsNamed(m)
  BY PackedTyped, PackedStructure, PackedNetted, PackedNamed
<1>2. Full(m) BY DEF Packed, PackedBlocks, PackedPorts, PackedPins, PackedNets, Full
<1>3. Owned(m) BY <1>1, <1>2 DEF Typed, InRange, Full, Owned
<1>4. Indexed(m)
  <2>1. \A k \in DOMAIN m.nets : \A i \in DOMAIN m.nets[k].pins : m.pins[m.nets[k].pins[i]].idx = i - 1
    BY DEF Packed, PackedPins
  <2> QED BY <2>1 DEF Indexed, IndicesAgree, Valid
<1>5. m.error = "none" BY DEF Packed
<1> QED BY <1>1, <1>2, <1>3, <1>4, <1>5 DEF Good, Refs
=============================================================================
