----------------------- MODULE StagedSimulationProofs -----------------------
(***************************************************************************)
(* Safety of the simulator for every circuit, every number of vectors and  *)
(* every wave length.                                                      *)
(***************************************************************************)
EXTENDS StagedSimulation, Induction, FiniteSetTheorems, SequenceTheorems, TLAPS

-----------------------------------------------------------------------------
(* Lemmas on data.                                                         *)

\* Sequences without repetitions, as the queue and the order are.
LEMMA AppendDistinct ==
  ASSUME NEW S, NEW s \in Seq(S), NEW e \in S
  PROVE  /\ Append(s, e) \in Seq(S)
         /\ ToSet(Append(s, e)) = ToSet(s) \cup {e}
         /\ IsInjective(s) /\ e \notin ToSet(s) => IsInjective(Append(s, e))
<1>1. /\ Append(s, e) \in Seq(S) /\ Len(Append(s, e)) = Len(s) + 1
      /\ \A i \in 1..Len(s) : Append(s, e)[i] = s[i]
      /\ Append(s, e)[Len(s) + 1] = e
  BY AppendProperties
<1>2. DOMAIN Append(s, e) = 1..(Len(s) + 1) /\ DOMAIN s = 1..Len(s) /\ Len(s) \in Nat
  BY <1>1, LenProperties
<1>3. ToSet(Append(s, e)) = ToSet(s) \cup {e}
  BY <1>1, <1>2 DEF ToSet
<1>4. IsInjective(s) /\ e \notin ToSet(s) => IsInjective(Append(s, e))
  BY <1>1, <1>2 DEF ToSet, IsInjective
<1> QED BY <1>1, <1>3, <1>4

LEMMA TailDistinct ==
  ASSUME NEW S, NEW s \in Seq(S), s # <<>>
  PROVE  /\ Head(s) \in S /\ Tail(s) \in Seq(S)
         /\ ToSet(s) = {Head(s)} \cup ToSet(Tail(s))
         /\ IsInjective(s) => IsInjective(Tail(s)) /\ Head(s) \notin ToSet(Tail(s))
<1>1. Len(s) \in Nat \ {0} /\ DOMAIN s = 1..Len(s)
  BY EmptySeq, LenProperties
<1>2. /\ Head(s) \in S /\ Tail(s) \in Seq(S)
      /\ Len(Tail(s)) = Len(s) - 1
      /\ \A i \in 1..(Len(s) - 1) : Tail(s)[i] = s[i + 1]
  BY HeadTailProperties
<1>3. DOMAIN Tail(s) = 1..(Len(s) - 1) /\ Head(s) = s[1]
  BY <1>2, LenProperties
<1>4. \A i \in 1..Len(s) : i = 1 \/ (i - 1 \in 1..(Len(s) - 1) /\ (i - 1) + 1 = i)
  BY <1>1
<1>5. ToSet(s) = {Head(s)} \cup ToSet(Tail(s))
  <2>1. \A i \in 1..Len(s) : s[i] = Head(s) \/ s[i] \in ToSet(Tail(s))
    <3> TAKE i \in 1..Len(s)
    <3>1. CASE i = 1
      BY <3>1, <1>3
    <3>2. CASE i - 1 \in 1..(Len(s) - 1) /\ (i - 1) + 1 = i
      <4>1. Tail(s)[i - 1] = s[i]
        BY <3>2, <1>2
      <4>2. i - 1 \in DOMAIN Tail(s)
        BY <3>2, <1>3
      <4> QED BY <4>1, <4>2 DEF ToSet
    <3> QED BY <3>1, <3>2, <1>4
  <2>2. \A i \in 1..(Len(s) - 1) : Tail(s)[i] \in ToSet(s)
    BY <1>1, <1>2 DEF ToSet
  <2>3. Head(s) \in ToSet(s)
    BY <1>1, <1>3 DEF ToSet
  <2> QED BY <2>1, <2>2, <2>3, <1>1, <1>3 DEF ToSet
<1>6. IsInjective(s) => IsInjective(Tail(s)) /\ Head(s) \notin ToSet(Tail(s))
  BY <1>1, <1>2, <1>3 DEF ToSet, IsInjective
<1> QED BY <1>2, <1>5, <1>6

LEMMA ConcatDistinct ==
  ASSUME NEW S, NEW s \in Seq(S), NEW t \in Seq(S)
  PROVE  /\ s \o t \in Seq(S)
         /\ ToSet(s \o t) = ToSet(s) \cup ToSet(t)
         /\ IsInjective(s) /\ IsInjective(t) /\ ToSet(s) \cap ToSet(t) = {}
              => IsInjective(s \o t)
<1> DEFINE u == s \o t
<1>1. /\ u \in Seq(S) /\ Len(u) = Len(s) + Len(t)
      /\ \A i \in 1..(Len(s) + Len(t)) : u[i] = IF i <= Len(s) THEN s[i] ELSE t[i - Len(s)]
  BY ConcatProperties
<1>2. /\ DOMAIN u = 1..(Len(s) + Len(t)) /\ Len(s) \in Nat /\ Len(t) \in Nat
      /\ DOMAIN s = 1..Len(s) /\ DOMAIN t = 1..Len(t)
  BY <1>1, LenProperties
<1> HIDE DEF u
<1>3. \A i \in 1..Len(s) : i \in DOMAIN u /\ u[i] = s[i]
  BY <1>1, <1>2
<1>4. \A i \in 1..Len(t) : Len(s) + i \in DOMAIN u /\ u[Len(s) + i] = t[i]
  BY SMTT(20), <1>1, <1>2
<1>5. \A i \in DOMAIN u : IF i <= Len(s) THEN i \in 1..Len(s) /\ u[i] = s[i]
                          ELSE i - Len(s) \in 1..Len(t) /\ u[i] = t[i - Len(s)]
  BY <1>1, <1>2
<1>6. ToSet(u) = ToSet(s) \cup ToSet(t)
  BY <1>2, <1>3, <1>4, <1>5 DEF ToSet
<1>7. ASSUME IsInjective(s), IsInjective(t), ToSet(s) \cap ToSet(t) = {}
      PROVE  IsInjective(u)
  <2> SUFFICES ASSUME NEW i \in DOMAIN u, NEW j \in DOMAIN u, u[i] = u[j] PROVE i = j
    BY DEF IsInjective
  <2>1. \A k \in 1..Len(s), l \in 1..Len(t) : s[k] # t[l]
    BY <1>2, <1>7 DEF ToSet
  <2>2. CASE i <= Len(s) /\ j <= Len(s)
    BY <2>2, <1>2, <1>5, <1>7 DEF IsInjective
  <2>3. CASE ~(i <= Len(s)) /\ ~(j <= Len(s))
    <3>1. t[i - Len(s)] = t[j - Len(s)] BY <2>3, <1>5
    <3>2. i - Len(s) = j - Len(s) BY <3>1, <2>3, <1>2, <1>5, <1>7 DEF IsInjective
    <3> QED BY <3>2, <1>2
  <2>4. CASE ~((i <= Len(s)) <=> (j <= Len(s)))
    BY <2>1, <2>4, <1>5
  <2> QED BY <2>2, <2>3, <2>4
<1> QED BY <1>1, <1>6, <1>7 DEF u

LEMMA SetToSeqsFacts ==
  ASSUME NEW K, IsFiniteSet(K), NEW s \in SetToSeqs(K)
  PROVE  s \in Seq(K) /\ IsInjective(s) /\ ToSet(s) = K
<1>1. Cardinality(K) \in Nat
  BY FS_CardinalityType
<1> DEFINE D == 1..Cardinality(K)
<1>2. s \in [D -> K] /\ \A i, j \in D : i # j => s[i] # s[j]
  BY DEF SetToSeqs
<1>3. s \in Seq(K) /\ IsInjective(s)
  BY <1>1, <1>2 DEF IsInjective
<1>4. s \in Injection(D, K)
  BY <1>2 DEF Injection, IsInjective
<1>5. IsFiniteSet(D) /\ Cardinality(D) = Cardinality(K)
  BY <1>1, FS_Interval
<1>6. s \in Surjection(D, K)
  <2> HIDE DEF D
  <2> QED BY <1>4, <1>5, FS_Injection
<1>7. ToSet(s) = K
  BY <1>2, <1>6 DEF Surjection, ToSet
<1> QED BY <1>3, <1>7

\* The loop of stage_ordered_nodes, iteration by iteration.
NonEmptyStages == Seq(Seq(Node)) \ {<<>>}

LEMMA StagedType ==
  ASSUME NEW st \in NonEmptyStages, NEW n \in Node
  PROVE  /\ Staged(st, n) \in NonEmptyStages
         /\ \/ /\ Staged(st, n) = Append(st, <<n>>)
               /\ Len(Staged(st, n)) = Len(st) + 1
               /\ \A s \in 1..Len(st) : Staged(st, n)[s] = st[s]
               /\ ToSet(Staged(st, n)[Len(st) + 1]) = {n}
            \/ /\ Len(Staged(st, n)) = Len(st)
               /\ \A s \in 1..(Len(st) - 1) : Staged(st, n)[s] = st[s]
               /\ ToSet(Staged(st, n)[Len(st)]) = ToSet(st[Len(st)]) \cup {n}
               /\ \A m \in ToSet(st[Len(st)]) : m \notin Drivers(n) /\ n \notin Drivers(m)
<1>1. Len(st) \in Nat \ {0} /\ st[Len(st)] \in Seq(Node)
  BY EmptySeq, ElementOfSeq DEF NonEmptyStages
<1> DEFINE last == ToSet(st[Len(st)])
           together == [st EXCEPT ![Len(st)] = Append(@, n)]
<1>2. <<n>> \in Seq(Node) /\ ToSet(<<n>>) = {n}
  BY DEF ToSet
<1>3. Append(st[Len(st)], n) \in Seq(Node)
      /\ ToSet(Append(st[Len(st)], n)) = last \cup {n}
  <2> DEFINE l == st[Len(st)]
  <2>1. l \in Seq(Node) BY <1>1
  <2> HIDE DEF l
  <2>2. DOMAIN l = 1..Len(l) /\ DOMAIN Append(l, n) = 1..(Len(l) + 1) /\ Len(l) \in Nat
    BY <2>1, AppendProperties
  <2>3. \A i \in 1..Len(l) : Append(l, n)[i] = l[i]
    BY <2>1, AppendProperties
  <2>4. Append(l, n)[Len(l) + 1] = n
    BY <2>1, AppendProperties
  <2>5. ToSet(Append(l, n)) = ToSet(l) \cup {n}
    BY <2>2, <2>3, <2>4 DEF ToSet
  <2> QED BY <2>1, <2>5 DEF l
<1>4. /\ Append(st, <<n>>) \in Seq(Seq(Node))
      /\ Len(Append(st, <<n>>)) = Len(st) + 1
      /\ \A s \in 1..Len(st) : Append(st, <<n>>)[s] = st[s]
      /\ Append(st, <<n>>)[Len(st) + 1] = <<n>>
      /\ Append(st, <<n>>) # <<>>
  BY SMTT(20), <1>2, AppendProperties DEF NonEmptyStages
<1>5. /\ together \in Seq(Seq(Node)) /\ together # <<>>
      /\ Len(together) = Len(st)
      /\ \A s \in 1..(Len(st) - 1) : together[s] = st[s]
      /\ together[Len(st)] = Append(st[Len(st)], n)
  <2>1. st \in Seq(Seq(Node)) /\ Len(st) \in 1..Len(st)
    BY <1>1 DEF NonEmptyStages
  <2> QED BY <1>1, <1>3, <2>1, ExceptSeq, EmptySeq
<1>6. CASE (\E m \in last : n \in Children(m)) \/ Children(n) \cap last # {}
  <2>1. Staged(st, n) = Append(st, <<n>>)
    BY <1>6 DEF Staged
  <2> QED BY <2>1, <1>2, <1>4 DEF NonEmptyStages
<1>7. CASE ~((\E m \in last : n \in Children(m)) \/ Children(n) \cap last # {})
  <2>1. Staged(st, n) = together
    BY <1>7 DEF Staged
  <2>2. last \subseteq Node
    BY <1>1 DEF ToSet
  <2>3. \A m \in last : m \notin Drivers(n) /\ n \notin Drivers(m)
    BY <1>7, <2>2 DEF Children
  <2> QED BY <2>1, <2>3, <1>3, <1>5 DEF NonEmptyStages
<1> QED BY <1>6, <1>7

LEMMA StageOrderedSteps ==
  ASSUME NEW order \in Seq(Node)
  PROVE  \E soFar \in [0..Len(order) -> NonEmptyStages] :
           /\ soFar[0] = << <<>> >>
           /\ \A i \in 1..Len(order) : soFar[i] = Staged(soFar[i - 1], order[i])
           /\ StageOrdered(order) = soFar[Len(order)]
<1> DEFINE Rec(f) == [i \in 0..Len(order) |->
                        IF i = 0 THEN << <<>> >> ELSE Staged(f[i - 1], order[i])]
           F == [p \in (1..Len(order)) \X NonEmptyStages |-> Staged(p[2], order[p[1]])]
<1>1. Len(order) \in Nat /\ << <<>> >> \in NonEmptyStages
  BY DEF NonEmptyStages
<1>2. \A i \in 1..Len(order), x \in NonEmptyStages :
        F[<<i, x>>] = Staged(x, order[i]) /\ F[<<i, x>>] \in NonEmptyStages
  BY StagedType, ElementOfSeq
<1>3. PICK f \in [0..Len(order) -> NonEmptyStages] :
        f[0] = << <<>> >> /\ \A i \in 1..Len(order) : f[i] = F[<<i, f[i - 1]>>]
  <2>1. StaysIn(NonEmptyStages, F, Len(order))
    BY <1>2 DEF StaysIn
  <2> HIDE DEF F
  <2>2. \E f \in [0..Len(order) -> NonEmptyStages] :
          Follows(f, << <<>> >>, F, Len(order))
    BY <1>1, <2>1, RecursiveFunction
  <2> QED BY <2>2 DEF Follows
<1>4. f = Rec(f)
  <2>1. \A i \in 1..Len(order) : f[i] = Staged(f[i - 1], order[i])
    <3> TAKE i \in 1..Len(order)
    <3>1. i - 1 \in 0..Len(order) BY <1>1
    <3>2. f[i - 1] \in NonEmptyStages BY <3>1
    <3> HIDE DEF F
    <3> QED BY <3>2, <1>2, <1>3
  <2>2. \A i \in 0..Len(order) : f[i] = Rec(f)[i]
    <3> TAKE i \in 0..Len(order)
    <3>1. CASE i = 0
      BY <3>1, <1>3
    <3>2. CASE i # 0
      <4>1. i \in 1..Len(order) BY <3>2, <1>1
      <4> QED BY <4>1, <2>1, <3>2
    <3> QED BY <3>1, <3>2
  <2> QED BY <2>2
<1> DEFINE st == CHOOSE g : g = Rec(g)
<1>5. st = Rec(st)
  <2> HIDE DEF Rec
  <2> QED BY <1>4
<1>6. StageOrdered(order) = st[Len(order)]
  BY DEF StageOrdered
<1> DEFINE Good == {i \in Nat : i <= Len(order) => st[i] \in NonEmptyStages}
<1> HIDE DEF st
<1>7. st[0] = << <<>> >> /\ \A i \in 1..Len(order) : st[i] = Staged(st[i - 1], order[i])
  BY SMTT(20), <1>5, <1>1
<1>8. \A i \in Nat : i \in Good
  <2>1. 0 \in Good
    BY <1>7, <1>1
  <2>2. \A i \in Nat : i \in Good => i + 1 \in Good
    <3> SUFFICES ASSUME NEW i \in Nat, i \in Good, i + 1 <= Len(order)
                 PROVE  st[i + 1] \in NonEmptyStages
      OBVIOUS
    <3>1. st[i] \in NonEmptyStages /\ i + 1 \in 1..Len(order) /\ (i + 1) - 1 = i
      BY <1>1
    <3>2. st[i + 1] = Staged(st[i], order[i + 1])
      BY <3>1, <1>7
    <3> QED BY <3>1, <3>2, StagedType, ElementOfSeq
  <2> HIDE DEF Good
  <2> QED BY <2>1, <2>2, NatSetInduction
<1>9. st \in [0..Len(order) -> NonEmptyStages]
  BY <1>5, <1>8, <1>1
<1> QED BY <1>6, <1>7, <1>9

\* The nodes that must have been computed before n is, in every cycle: the
\* inputs have their values before the wave begins.
Awaited(n) ==
  {Pins(n)[i] : i \in DOMAIN Pins(n) \ Abstract!EarlyPins(Circuit, n)}
    \ (Inputs \cup {Undriven})

\* Stages made of the nodes in done: a node is in one stage, the nodes of a
\* stage do not read one another, and what a node awaits is in stages before.
Cover(st, done) == done = UNION {ToSet(st[s]) : s \in DOMAIN st}
Once(st, done) ==
  \A s, t \in DOMAIN st, n \in done : n \in ToSet(st[s]) /\ n \in ToSet(st[t]) => s = t
Apart(st, done) ==
  \A s \in DOMAIN st, n, m \in done :
    n \in ToSet(st[s]) /\ m \in ToSet(st[s]) /\ n # m => n \notin Drivers(m)
Behind(st, done) ==
  \A s \in DOMAIN st, n \in done : \A d \in Awaited(n) :
    n \in ToSet(st[s]) => \E t \in 1..(s - 1) : d \in ToSet(st[t])
StagesOf(st, done) ==
  Cover(st, done) /\ Once(st, done) /\ Apart(st, done) /\ Behind(st, done)

LEMMA StagedGood ==
  ASSUME NEW st \in NonEmptyStages, NEW done \in SUBSET Node, StagesOf(st, done),
         NEW n \in Node \ done, Awaited(n) \subseteq done
  PROVE  StagesOf(Staged(st, n), done \cup {n})
<1> DEFINE new == Staged(st, n)
           l   == Len(st)
<1>1. l \in Nat \ {0} /\ DOMAIN st = 1..l
  BY EmptySeq, LenProperties DEF NonEmptyStages
<1>2. new \in NonEmptyStages /\ DOMAIN new = 1..Len(new)
  BY StagedType, LenProperties DEF NonEmptyStages
<1>3. Awaited(n) \subseteq Drivers(n)
  BY DEF Awaited, Drivers, ToSet
<1>4. CASE /\ Len(new) = l + 1
           /\ \A s \in 1..l : new[s] = st[s]
           /\ ToSet(new[l + 1]) = {n}
  <2>1. \A m : m \in done \cup {n} <=> \E s \in DOMAIN new : m \in ToSet(new[s])
    <3>1. \A m : (\E s \in DOMAIN new : m \in ToSet(new[s])) <=>
                 (\E s \in 1..l : m \in ToSet(st[s])) \/ m = n
      BY <1>1, <1>2, <1>4
    <3> QED BY <3>1, <1>1 DEF StagesOf, Cover, Once, Apart, Behind
  <2>2. \A s \in DOMAIN new, m \in done \cup {n} :
          m \in ToSet(new[s]) <=> IF m = n THEN s = l + 1 ELSE s \in 1..l /\ m \in ToSet(st[s])
    BY <1>1, <1>2, <1>4 DEF StagesOf, Cover, Once, Apart, Behind
  <2>3. \A s, t \in DOMAIN new, m \in done \cup {n} :
          m \in ToSet(new[s]) /\ m \in ToSet(new[t]) => s = t
    BY <2>2, <1>1 DEF StagesOf, Cover, Once, Apart, Behind
  <2>4. \A s \in DOMAIN new, m, k \in done \cup {n} :
          m \in ToSet(new[s]) /\ k \in ToSet(new[s]) /\ m # k => m \notin Drivers(k)
    BY <2>2, <1>1 DEF StagesOf, Cover, Once, Apart, Behind
  <2>5. ASSUME NEW s \in DOMAIN new, NEW m \in done \cup {n}, m \in ToSet(new[s]),
               NEW d \in Awaited(m)
        PROVE  \E t \in 1..(s - 1) : d \in ToSet(new[t])
    <3>1. CASE m = n
      <4>1. PICK t \in 1..l : d \in ToSet(st[t])
        BY <3>1, <1>1 DEF StagesOf, Cover, Once, Apart, Behind
      <4> QED BY <3>1, <4>1, <1>4, <2>2, <2>5
    <3>2. CASE m # n
      <4>1. s \in 1..l /\ m \in ToSet(st[s])
        BY <3>2, <2>2, <2>5
      <4>2. PICK t \in 1..(s - 1) : d \in ToSet(st[t])
        BY <3>2, <4>1, <1>1 DEF StagesOf, Cover, Once, Apart, Behind
      <4> QED BY <4>1, <4>2, <1>4, <1>1
    <3> QED BY <3>1, <3>2
  <2>6. Cover(new, done \cup {n}) BY <2>1 DEF Cover
  <2>7. Once(new, done \cup {n}) BY <2>3 DEF Once
  <2>8. Apart(new, done \cup {n}) BY <2>4 DEF Apart
  <2>9. Behind(new, done \cup {n}) BY <2>5 DEF Behind
  <2> QED BY <2>6, <2>7, <2>8, <2>9 DEF StagesOf
<1>5. CASE /\ Len(new) = l
           /\ \A s \in 1..(l - 1) : new[s] = st[s]
           /\ ToSet(new[l]) = ToSet(st[l]) \cup {n}
           /\ \A m \in ToSet(st[l]) : m \notin Drivers(n) /\ n \notin Drivers(m)
  <2>0. \A s \in DOMAIN new, m \in done \cup {n} :
          m \in ToSet(new[s]) <=> IF m = n THEN s = l ELSE m \in ToSet(st[s])
    <3> SUFFICES ASSUME NEW s \in DOMAIN new, NEW m \in done \cup {n}
                 PROVE  m \in ToSet(new[s]) <=> IF m = n THEN s = l ELSE m \in ToSet(st[s])
      OBVIOUS
    <3>1. CASE s = l
      BY <3>1, <1>5
    <3>2. CASE s # l
      <4>1. s \in 1..(l - 1) /\ s \in DOMAIN st BY <3>2, <1>1, <1>2, <1>5
      <4>2. n \notin ToSet(st[s]) BY <4>1 DEF StagesOf, Cover, Once, Apart, Behind
      <4> QED BY <3>2, <4>1, <4>2, <1>5
    <3> QED BY <3>1, <3>2
  <2>1. \A m : m \in done \cup {n} <=> \E s \in DOMAIN new : m \in ToSet(new[s])
    <3>1. \A m \in done \cup {n} : \E s \in DOMAIN new : m \in ToSet(new[s])
      BY <2>0, <1>1, <1>2, <1>5 DEF StagesOf, Cover, Once, Apart, Behind
    <3>2. ASSUME NEW m, NEW s \in DOMAIN new, m \in ToSet(new[s])
          PROVE  m \in done \cup {n}
      <4>1. CASE s = l
        BY <4>1, <1>5, <3>2, <1>1 DEF StagesOf, Cover, Once, Apart, Behind
      <4>2. CASE s # l
        <5>1. s \in 1..(l - 1) /\ s \in DOMAIN st BY <4>2, <1>1, <1>2, <1>5
        <5> QED BY <5>1, <1>5, <3>2 DEF StagesOf, Cover, Once, Apart, Behind
      <4> QED BY <4>1, <4>2
    <3> HIDE DEF new
    <3> QED BY <3>1, <3>2
  <2>3. \A s, t \in DOMAIN new, m \in done \cup {n} :
          m \in ToSet(new[s]) /\ m \in ToSet(new[t]) => s = t
    BY <2>0, <1>1, <1>2, <1>5 DEF StagesOf, Cover, Once, Apart, Behind
  <2>4. \A s \in DOMAIN new, m, k \in done \cup {n} :
          m \in ToSet(new[s]) /\ k \in ToSet(new[s]) /\ m # k => m \notin Drivers(k)
    <3> SUFFICES ASSUME NEW s \in DOMAIN new, NEW m \in done \cup {n}, NEW k \in done \cup {n},
                        m \in ToSet(new[s]), k \in ToSet(new[s]), m # k
                 PROVE  m \notin Drivers(k)
      OBVIOUS
    <3> HIDE DEF new
    <3>1. CASE m = n
      BY <3>1, <2>0, <1>5
    <3>2. CASE k = n
      BY <3>2, <2>0, <1>5
    <3>3. CASE m # n /\ k # n
      <4>1. m \in ToSet(st[s]) /\ k \in ToSet(st[s]) /\ s \in DOMAIN st
        BY <3>3, <2>0, <1>1, <1>2, <1>5
      <4> QED BY <4>1, <3>3 DEF StagesOf, Cover, Once, Apart, Behind
    <3> QED BY <3>1, <3>2, <3>3
  <2>5. ASSUME NEW s \in DOMAIN new, NEW m \in done \cup {n}, m \in ToSet(new[s]),
               NEW d \in Awaited(m)
        PROVE  \E t \in 1..(s - 1) : d \in ToSet(new[t])
    <3> HIDE DEF new
    <3>1. CASE m = n
      <4>1. PICK t \in 1..l : d \in ToSet(st[t])
        BY <3>1, <1>1 DEF StagesOf, Cover, Once, Apart, Behind
      <4>2. t # l
        BY <4>1, <3>1, <1>3, <1>5
      <4>3. s = l
        BY <3>1, <2>0, <2>5
      <4> QED BY <4>1, <4>2, <4>3, <1>1, <1>5
    <3>2. CASE m # n
      <4>1. s \in 1..l /\ m \in ToSet(st[s])
        BY <3>2, <2>0, <2>5, <1>2, <1>5
      <4>2. PICK t \in 1..(s - 1) : d \in ToSet(st[t])
        BY <3>2, <4>1, <1>1 DEF StagesOf, Cover, Once, Apart, Behind
      <4>3. t \in 1..(l - 1)
        BY <4>1, <4>2, <1>1
      <4> QED BY <4>2, <4>3, <1>5
    <3> QED BY <3>1, <3>2
  <2>6. Cover(new, done \cup {n}) BY <2>1 DEF Cover
  <2>7. Once(new, done \cup {n}) BY <2>3 DEF Once
  <2>8. Apart(new, done \cup {n}) BY <2>4 DEF Apart
  <2>9. Behind(new, done \cup {n}) BY <2>5 DEF Behind
  <2> QED BY <2>6, <2>7, <2>8, <2>9 DEF StagesOf
<1>6. \/ /\ Len(new) = l + 1
         /\ \A s \in 1..l : new[s] = st[s]
         /\ ToSet(new[l + 1]) = {n}
      \/ /\ Len(new) = l
         /\ \A s \in 1..(l - 1) : new[s] = st[s]
         /\ ToSet(new[l]) = ToSet(st[l]) \cup {n}
         /\ \A m \in ToSet(st[l]) : m \notin Drivers(n) /\ n \notin Drivers(m)
  BY StagedType
<1> QED BY <1>4, <1>5, <1>6

\* Every node of the order comes after those it awaits.
InOrder(order) ==
  \A i \in 1..Len(order), n \in Node : order[i] = n =>
    \A d \in Awaited(n) : \E j \in 1..(i - 1) : order[j] = d

LEMMA StageOrderedGood ==
  ASSUME NEW order \in Seq(Node), IsInjective(order), InOrder(order)
  PROVE  StageOrdered(order) \in NonEmptyStages /\ StagesOf(StageOrdered(order), ToSet(order))
<1>1. PICK soFar \in [0..Len(order) -> NonEmptyStages] :
        /\ soFar[0] = << <<>> >>
        /\ \A i \in 1..Len(order) : soFar[i] = Staged(soFar[i - 1], order[i])
        /\ StageOrdered(order) = soFar[Len(order)]
  BY StageOrderedSteps
<1> DEFINE First(i) == {order[j] : j \in 1..i}
           Good == {i \in Nat : i <= Len(order) => StagesOf(soFar[i], First(i))}
<1>2. Len(order) \in Nat /\ DOMAIN order = 1..Len(order)
  BY LenProperties
<1>3. 0 \in Good
  <2>1. DOMAIN << <<>> >> = 1..1 /\ ToSet(<< <<>> >>[1]) = {} /\ First(0) = {}
    BY DEF ToSet
  <2>2. StagesOf(<< <<>> >>, First(0))
    BY <2>1 DEF StagesOf, Cover, Once, Apart, Behind
  <2> QED BY <2>2, <1>1
<1>4. \A i \in Nat : i \in Good => i + 1 \in Good
  <2> SUFFICES ASSUME NEW i \in Nat, i \in Good, i + 1 <= Len(order)
               PROVE  StagesOf(soFar[i + 1], First(i + 1))
    OBVIOUS
  <2>1. i \in 0..Len(order) /\ i + 1 \in 1..Len(order) /\ (i + 1) - 1 = i
    BY <1>2
  <2>2. soFar[i] \in NonEmptyStages /\ StagesOf(soFar[i], First(i))
    BY <2>1
  <2>3. First(i) \in SUBSET Node /\ First(i + 1) = First(i) \cup {order[i + 1]}
    BY <2>1, <1>2, ElementOfSeq
  <2>4. order[i + 1] \in Node \ First(i)
    BY <2>1, <1>2, ElementOfSeq DEF IsInjective
  <2>5. Awaited(order[i + 1]) \subseteq First(i)
    <3>1. \A d \in Awaited(order[i + 1]) : \E j \in 1..((i + 1) - 1) : order[j] = d
      BY <2>1, <2>4 DEF InOrder
    <3> QED BY <2>1, <3>1
  <2>6. soFar[i + 1] = Staged(soFar[i], order[i + 1])
    BY <2>1, <1>1
  <2> HIDE DEF First
  <2> QED BY <2>2, <2>3, <2>4, <2>5, <2>6, StagedGood
<1>5. Len(order) \in Good
  <2> HIDE DEF Good
  <2> QED BY <1>2, <1>3, <1>4, NatSetInduction
<1>6. First(Len(order)) = ToSet(order)
  BY <1>2 DEF ToSet
<1>7. StageOrdered(order) \in NonEmptyStages
  BY <1>1, <1>2
<1>8. StagesOf(StageOrdered(order), First(Len(order)))
  BY <1>1, <1>2, <1>5
<1> HIDE DEF First
<1> QED BY <1>6, <1>7, <1>8

-----------------------------------------------------------------------------
(* The ring and the values in it.                                          *)

\* SIM_WAVE_LENGTH is an even number, of which no more is used; the provers
\* reason about a remainder only when they know the divisor.
LEMMA WaveLengths == WaveLength \in {4, 6, 8, 10, 12, 14, 16}
<1>1. PICK k \in 2..8 : WaveLength = 2 * k
  BY SizeAssumption
<1> QED BY <1>1

\* A value lands in the ring, the next cycle's in another place.
LEMMA OffsetType ==
  ASSUME NEW c \in Nat \cup {0 - 1}
  PROVE  /\ Offset(c) \in 0..(WaveLength - 1)
         /\ Offset(c + 1) \in 0..(WaveLength - 1)
         /\ Offset(c) # Offset(c + 1)
<1>1. CASE WaveLength = 4 BY <1>1 DEF Offset
<1>2. CASE WaveLength = 6 BY <1>2 DEF Offset
<1>3. CASE WaveLength = 8 BY <1>3 DEF Offset
<1>4. CASE WaveLength = 10 BY <1>4 DEF Offset
<1>5. CASE WaveLength = 12 BY <1>5 DEF Offset
<1>6. CASE WaveLength = 14 BY <1>6 DEF Offset
<1>7. CASE WaveLength = 16 BY <1>7 DEF Offset
<1> QED BY <1>1, <1>2, <1>3, <1>4, <1>5, <1>6, <1>7, WaveLengths

\* A wave begins with an even cycle and at place 0 of the ring, its cycles
\* have places of their own, and the cycle after its last one begins another.
LEMMA OffsetInWave ==
  ASSUME NEW w \in Nat, w % WaveLength = 0
  PROVE  /\ w % 2 = 0
         /\ \A i \in 0..(WaveLength - 1) : Offset(w + i) = i
         /\ \A i \in 1..WaveLength : (w + i) % WaveLength = 0 <=> i = WaveLength
<1>1. CASE WaveLength = 4 BY <1>1 DEF Offset
<1>2. CASE WaveLength = 6 BY <1>2 DEF Offset
<1>3. CASE WaveLength = 8 BY <1>3 DEF Offset
<1>4. CASE WaveLength = 10 BY <1>4 DEF Offset
<1>5. CASE WaveLength = 12 BY <1>5 DEF Offset
<1>6. CASE WaveLength = 14 BY <1>6 DEF Offset
<1>7. CASE WaveLength = 16 BY <1>7 DEF Offset
<1> QED BY <1>1, <1>2, <1>3, <1>4, <1>5, <1>6, <1>7, WaveLengths

\* A set of natural numbers has a least element.
LEMMA Least ==
  ASSUME NEW S \in SUBSET Nat, S # {}
  PROVE  \E i \in S : \A j \in S : i <= j
<1> SUFFICES ASSUME \A i \in S : \E j \in S : j < i PROVE FALSE
  OBVIOUS
<1> DEFINE Above == {n \in Nat : \A j \in S : n < j}
<1>1. 0 \in Above
  <2> SUFFICES ASSUME NEW j \in S PROVE 0 < j
    OBVIOUS
  <2> QED OBVIOUS
<1>2. \A n \in Nat : n \in Above => n + 1 \in Above
  <2> SUFFICES ASSUME NEW n \in Nat, \A j \in S : n < j, NEW j \in S PROVE n + 1 < j
    OBVIOUS
  <2>1. PICK k \in S : k < j OBVIOUS
  <2>2. n < k /\ k \in Nat /\ j \in Nat BY <2>1
  <2> QED BY <2>1, <2>2
<1>3. Nat \subseteq Above
  <2> HIDE DEF Above
  <2> QED BY <1>1, <1>2, NatSetInduction
<1>4. PICK j : j \in S OBVIOUS
<1> QED BY <1>3, <1>4

\* A gate has a value of three-valued logic.
LEMMA GateType ==
  ASSUME NEW kind \in GateKind, NEW s \in Seq(Value), NEW held \in Value,
         kind = "OUTPUT" => Len(s) = 1
  PROVE  Gate(kind, s, held) \in Value
<1>1. Len(s) \in Nat /\ DOMAIN s = 1..Len(s) /\ \A i \in 1..Len(s) : s[i] \in Value
  BY LenProperties, ElementOfSeq
<1>2. Ones(s) \in Nat
  <2>1. IsFiniteSet(1..Len(s)) BY <1>1, FS_Interval
  <2>2. IsFiniteSet({i \in DOMAIN s : s[i] = 1}) BY <1>1, <2>1, FS_Subset
  <2> QED BY <2>2, FS_CardinalityType DEF Ones
<1>3. Mux2(s, held) \in Value
  <2> DEFINE half   == Len(s) \div 2
             chosen == {i \in 1..half : s[i] = 1}
  <2>1. half \in Nat /\ half + half <= Len(s)
    BY <1>1
  <2>2. CASE chosen = {}
    BY <2>2 DEF Mux2, Value, Unknown
  <2>3. CASE chosen # {}
    <3> DEFINE first == CHOOSE i \in chosen : \A j \in chosen : i <= j
    <3>1. \E i \in chosen : \A j \in chosen : i <= j
      <4> HIDE DEF half
      <4>1. chosen \in SUBSET Nat OBVIOUS
      <4> HIDE DEF chosen
      <4> QED BY <2>3, <4>1, Least
    <3>2. first \in chosen
      <4> HIDE DEF chosen
      <4> QED BY <3>1
    <3>3. half + first \in 1..Len(s)
      <4> HIDE DEF half, first
      <4> QED BY <2>1, <3>2, <1>1
    <3>4. s[half + first] \in Value
      <4> HIDE DEF half, first, chosen
      <4> QED BY <3>3, <1>1
    <3>5. Mux2(s, held) = held \/ Mux2(s, held) = s[half + first]
      BY <2>3 DEF Mux2
    <3> HIDE DEF half, first, chosen
    <3> QED BY <3>4, <3>5
  <2> QED BY <2>2, <2>3
<1>4. /\ And(s) \in Value /\ Or(s) \in Value /\ Nand(s) \in Value /\ Nor(s) \in Value
  BY DEF And, Or, Nand, Nor, Dominated, Value, Unknown
<1>5. Xor(s) \in Value /\ Xnor(s) \in Value
  <2>1. Ones(s) % 2 \in {0, 1}
    <3> DEFINE k == Ones(s)
    <3>1. k \in Nat BY <1>2
    <3> HIDE DEF k
    <3>2. k % 2 \in {0, 1} BY <3>1
    <3> QED BY <3>2 DEF k
  <2> QED BY <2>1 DEF Xor, Xnor, Known, Value, Unknown
<1>6. Lt(s) \in Value /\ Gt(s) \in Value /\ Carry(s) \in Value
  BY DEF Lt, Gt, Carry, Known, Value, Unknown
<1>7. kind = "OUTPUT" => s[1] \in Value
  BY <1>1
<1> QED BY <1>3, <1>4, <1>5, <1>6, <1>7 DEF Gate, GateKind, Value

\* What the assumption says of the circuit simulated.
LEMMA CircuitFacts ==
  ASSUME name \in DOMAIN Circuits
  PROVE  /\ IsFiniteSet(Node) /\ Undriven \notin Node
         /\ \A n \in Node :
              /\ Circuit.kind[n] \in GateKind \cup {"INPUT", "CLOCK", "FF", "MEMORY"}
              /\ Circuit.initial[n] \in Value
              /\ Pins(n) \in Seq(Node \cup {Undriven})
              /\ Circuit.kind[n] = "OUTPUT" => Len(Pins(n)) = 1
              /\ Circuit.kind[n] = "MEMORY" => Len(Pins(n)) = 4
              /\ Circuit.kind[n] = "FF" =>
                   /\ Len(Pins(n)) = 2
                   /\ Pins(n)[2] = Undriven \/ Circuit.kind[Pins(n)[2]] = "CLOCK"
         /\ Circuit.start \in Seq(Node) /\ IsInjective(Circuit.start)
         /\ Inputs \subseteq ToSet(Circuit.start)
         /\ \A n \in ToSet(Circuit.start) : n \in Node /\ Pins(n) = <<>>
<1>1. IsCircuit(Circuit)
  BY CircuitAssumption DEF Circuit
<1>2. Circuit.start \in Seq(Node)
  BY <1>1 DEF IsCircuit, Node
<1>3. \A n \in ToSet(Circuit.start) : n \in Node
  BY <1>2 DEF ToSet
<1> HIDE DEF Circuit
<1> QED BY <1>1, <1>2, <1>3 DEF IsCircuit, Node, Pins, Inputs, OfKind

\* A step leaves the circuit as it is, and all that is said of it alone.
LEMMA CircuitSteady ==
  ASSUME name' = name
  PROVE  /\ Circuit' = Circuit /\ Node' = Node /\ Inputs' = Inputs /\ Outputs' = Outputs
         /\ Memories' = Memories
         /\ \A n : /\ Pins(n)' = Pins(n) /\ Drivers(n)' = Drivers(n)
                   /\ Awaited(n)' = Awaited(n) /\ Children(n)' = Children(n)
BY DEF Circuit, Node, Inputs, Outputs, Memories, OfKind, Pins, Drivers, Children,
       Awaited, Abstract!EarlyPins

LEMMA OrderSteady ==
  ASSUME name' = name, ordered' = ordered, InOrder(ordered)
  PROVE  InOrder(ordered)'
<1>1. Node' = Node /\ \A n : Awaited(n)' = Awaited(n)
  BY CircuitSteady
<1> QED BY SMTT(20), <1>1 DEF InOrder

\* A pin reads a value.
LEMMA ReadType ==
  ASSUME name \in DOMAIN Circuits, ring \in [Node -> [0..(WaveLength - 1) -> Value]],
         NEW n \in Node, NEW d \in Node \cup {Undriven}, NEW c \in Nat \cup {0 - 1}
  PROVE  Read(n, d, c) \in Value
<1>1. Circuit.initial[n] \in Value /\ UndrivenValue \in Value
  BY CircuitFacts, SizeAssumption
<1>2. Offset(c) \in 0..(WaveLength - 1)
  BY OffsetType
<1> QED BY <1>1, <1>2 DEF Read

\* What a node is computed to be is a value, and the new contents of a memory.
LEMMA ComputedType ==
  ASSUME TypeOK, NEW n \in Node, NEW old, n \in Memories => old \in [0..1 -> Value]
  PROVE  /\ ComputedFrom(n, old) \in Written
         /\ ComputedFrom(n, old).value \in Value
         /\ n \in Memories => ComputedFrom(n, old).store \in [0..1 -> Value]
<1> DEFINE kind == Circuit.kind[n]
<1>1. /\ kind \in GateKind \cup {"INPUT", "CLOCK", "FF", "MEMORY"}
      /\ Pins(n) \in Seq(Node \cup {Undriven})
      /\ kind = "OUTPUT" => Len(Pins(n)) = 1
      /\ kind = "MEMORY" => Len(Pins(n)) = 4
      /\ kind = "FF" => Len(Pins(n)) = 2
  BY CircuitFacts DEF TypeOK
<1>2. \A c \in {cycle, cycle - 1} : c \in Nat \cup {0 - 1}
  BY SizeAssumption DEF TypeOK, NumCycles
<1>3. \A d \in Node \cup {Undriven}, c \in {cycle, cycle - 1} : Read(n, d, c) \in Value
  BY <1>2, ReadType DEF TypeOK
<1>4. \A i \in 1..Len(Pins(n)) : Pins(n)[i] \in Node \cup {Undriven}
  BY <1>1, ElementOfSeq
<1>5. CASE kind = "INPUT"
  <2>1. ComputedFrom(n, old) = [value |-> Read(n, n, cycle), store |-> <<>>] /\ n \notin Memories
    BY <1>5 DEF ComputedFrom, Memories, OfKind
  <2> QED BY <2>1, <1>3 DEF Written
<1>6. CASE kind = "CLOCK"
  <2>1. ComputedFrom(n, old) = [value |-> cycle % 2, store |-> <<>>] /\ n \notin Memories
    BY <1>6 DEF ComputedFrom, Memories, OfKind
  <2>2. cycle % 2 \in Value
    BY SizeAssumption DEF TypeOK, NumCycles, Value
  <2> QED BY <2>1, <2>2 DEF Written
<1>7. CASE kind = "FF"
  <2>1. ComputedFrom(n, old) = [value |-> FlipFlop(n), store |-> <<>>] /\ n \notin Memories
    BY <1>7 DEF ComputedFrom, Memories, OfKind
  <2>2. FlipFlop(n) \in Value
    BY SMTT(20), <1>1, <1>3, <1>4, <1>7 DEF FlipFlop
  <2> QED BY <2>1, <2>2 DEF Written
<1>8. CASE kind = "MEMORY"
  <2>1. ComputedFrom(n, old) = [value |-> MemoryRead(n, MemoryWrite(n, old)), store |-> MemoryWrite(n, old)]
        /\ n \in Memories
    BY <1>8 DEF ComputedFrom, Memories, OfKind
  <2>2. old \in [0..1 -> Value]
    BY <2>1
  <2>3. /\ Read(n, Pins(n)[4], cycle) \in Value /\ Read(n, Pins(n)[4], cycle - 1) \in Value
        /\ Read(n, Pins(n)[3], cycle - 1) \in Value
    <3>1. Pins(n)[3] \in Node \cup {Undriven} /\ Pins(n)[4] \in Node \cup {Undriven}
      <4>1. Len(Pins(n)) = 4 BY <1>1, <1>8
      <4>2. 3 \in 1..Len(Pins(n)) /\ 4 \in 1..Len(Pins(n)) BY <4>1
      <4> QED BY <4>2, <1>4
    <3> QED BY <3>1, <1>3
  <2>4. MemoryWrite(n, old) \in [0..1 -> Value]
    BY <2>2, <2>3 DEF MemoryWrite, Value
  <2>5. MemoryRead(n, MemoryWrite(n, old)) \in Value
    <3> DEFINE contents == MemoryWrite(n, old)
    <3>1. contents \in [0..1 -> Value] BY <2>4
    <3> HIDE DEF contents
    <3>2. MemoryRead(n, contents) \in Value
      BY <3>1, <2>3 DEF MemoryRead, Value, Unknown
    <3> QED BY <3>2 DEF contents
  <2> QED BY <2>1, <2>4, <2>5 DEF Written
<1>9. CASE kind \in GateKind
  <2> DEFINE s == [i \in DOMAIN Pins(n) |-> Read(n, Pins(n)[i], cycle)]
  <2>1. ComputedFrom(n, old) = [value |-> Gate(kind, s, Read(n, n, cycle - 1)), store |-> <<>>]
        /\ n \notin Memories
    BY <1>9 DEF ComputedFrom, Memories, OfKind, GateKind
  <2>2. s \in Seq(Value) /\ Len(s) = Len(Pins(n))
    <3>1. DOMAIN Pins(n) = 1..Len(Pins(n)) /\ Len(Pins(n)) \in Nat BY <1>1, LenProperties
    <3> QED BY <3>1, <1>3, <1>4
  <2> HIDE DEF s, kind
  <2>3. Gate(kind, s, Read(n, n, cycle - 1)) \in Value
    BY <2>2, <1>1, <1>3, <1>9, GateType
  <2> QED BY <2>1, <2>3 DEF Written
<1> QED BY <1>1, <1>5, <1>6, <1>7, <1>8, <1>9

-----------------------------------------------------------------------------
(* The inductive invariant of types and stages.                            *)

\* Which cycle and whose work goes with which phase.
Control ==
  /\ phase = "vectors" => cycle % WaveLength = 0 /\ cycle < NumCycles
  /\ phase = "first" => cycle = 0
  /\ phase = "stage" => cycle > 0 /\ cycle < NumCycles
  /\ phase \in {"done", "error"} => cycle > 0
  /\ phase \in {"vectors", "first", "done"} => pending = {} /\ DOMAIN inFlight = {}
  /\ \A n \in DOMAIN inFlight : n \in Memories => inFlight[n].store \in [0..1 -> Value]

\* The search of the first cycle: a node is ordered once, after those it
\* awaits, and has a cycle number from then on; the inputs have one before.
Searched ==
  /\ phase = "vectors" /\ cycle = 0 =>
       ordered = <<>> /\ queue = <<>> /\ \A n \in Node : stamp[n] < 0
  /\ ~(phase = "vectors" /\ cycle = 0) =>
       \A n \in Node : stamp[n] >= 0 <=> n \in ToSet(ordered) \cup Inputs
  /\ phase = "first" =>
       /\ IsInjective(queue)
       /\ \A n \in ToSet(queue) : n \notin ToSet(ordered) /\ Awaited(n) \subseteq ToSet(ordered)
  /\ InOrder(ordered)

\* The stages are made of the nodes ordered, and the threads work at one.
Staging ==
  /\ cycle > 0 => stages \in NonEmptyStages /\ StagesOf(stages, ToSet(ordered))
  /\ phase = "stage" => pending \cup DOMAIN inFlight \subseteq ToSet(stages[stage])

IInv == TypeOK /\ Control /\ Searched /\ Staging

LEMMA InitIInv == Init => IInv
<1> SUFFICES ASSUME Init PROVE IInv
  OBVIOUS
<1> USE DEF Init
<1>1. \A n \in Node : Circuit.initial[n] \in Value
  BY CircuitFacts
<1>2. WaveLength \in Nat /\ 0 % WaveLength = 0 /\ NumCycles \in Nat \ {0}
  <2>1. NumCycles \in Nat \ {0} BY SizeAssumption DEF NumCycles
  <2> QED BY <2>1, WaveLengths
<1>3. TypeOK
  <2>1. ring \in [Node -> [0..(WaveLength - 1) -> Value]]
    BY <1>1
  <2>2. stamp \in [Node -> -1..(NumCycles - 1)]
    BY <1>2
  <2>3. store \in [Memories -> [0..1 -> Value]] /\ stored \in [Memories -> [0..1 -> Value]]
    BY DEF Value, Unknown
  <2>4. IsInjective(ordered)
    BY DEF IsInjective
  <2>5. /\ DOMAIN inFlight = {} /\ faster = {} /\ pending = {}
        /\ phase = "vectors" /\ name \in DOMAIN Circuits /\ cycle = 0
    OBVIOUS
  <2>6. /\ queue \in Seq(Node) /\ ordered \in Seq(Node) /\ stages \in Seq(Seq(Node))
        /\ inFile \in Seq([Inputs -> InputValues]) /\ outFile \in Seq([Outputs -> Value])
    OBVIOUS
  <2> HIDE DEF Init
  <2> QED BY <1>2, <2>1, <2>2, <2>3, <2>4, <2>5, <2>6 DEF TypeOK
<1>4. Control
  BY <1>2 DEF Control
<1>5. Searched
  BY DEF Searched, InOrder
<1>6. Staging
  BY DEF Staging
<1> QED BY <1>3, <1>4, <1>5, <1>6 DEF IInv

\* What is said of stages and an order stays true while the circuit does.
LEMMA StagesSteady ==
  ASSUME UNCHANGED <<name, ordered>>,
         stages' \in NonEmptyStages, StagesOf(stages', ToSet(ordered))
  PROVE  (stages \in NonEmptyStages /\ StagesOf(stages, ToSet(ordered)))'
<1>1. (stages \in NonEmptyStages)'
  BY CircuitSteady DEF NonEmptyStages
<1>2. Cover(stages, ToSet(ordered))' /\ Once(stages, ToSet(ordered))'
  BY DEF StagesOf, Cover, Once
<1>3. Apart(stages, ToSet(ordered))'
  BY CircuitSteady DEF StagesOf, Apart
<1>4. Behind(stages, ToSet(ordered))'
  BY CircuitSteady DEF StagesOf, Behind
<1> QED BY <1>1, <1>2, <1>3, <1>4 DEF StagesOf

LEMMA StutterIInv == IInv /\ UNCHANGED vars => IInv'
<1> SUFFICES ASSUME IInv, UNCHANGED vars PROVE IInv'
  OBVIOUS
<1>1. name' = name
  BY DEF vars
<1> USE DEF vars
<1>2. TypeOK'
  BY <1>1, CircuitSteady DEF IInv, TypeOK
<1>3. Control'
  BY <1>1, CircuitSteady DEF IInv, Control
<1>4. Searched'
  <2>1. UNCHANGED <<phase, cycle, ordered, queue, stamp>> /\ Searched
    BY DEF IInv
  <2> HIDE DEF vars
  <2>2. InOrder(ordered)'
    BY <1>1, <2>1, OrderSteady DEF Searched
  <2> QED BY <1>1, <2>1, <2>2, CircuitSteady DEF Searched
<1>5. Staging'
  BY <1>1, StagesSteady DEF IInv, Staging
<1> QED BY <1>2, <1>3, <1>4, <1>5 DEF IInv

\* The vectors of a wave are for its cycles.
LEMMA WaveEndType ==
  ASSUME cycle \in Nat, cycle < NumCycles
  PROVE  /\ WaveEnd \in Nat /\ cycle <= WaveEnd /\ WaveEnd <= NumCycles - 1
         /\ WaveEnd <= cycle + WaveLength - 1
         /\ WaveEnd = cycle + WaveLength - 1 \/ WaveEnd = NumCycles - 1
<1>1. NumCycles \in Nat /\ WaveLength \in Nat /\ WaveLength > 0
  BY SizeAssumption, WaveLengths DEF NumCycles
<1> QED BY <1>1 DEF WaveEnd

LEMMA VectorOf ==
  ASSUME cycle \in Nat, cycle % 2 = 0, NEW last \in Nat, NEW c \in cycle..last
  PROVE  c - (c % 2) \in {k \in cycle..last : k % 2 = 0}
<1>1. CASE c % 2 = 0 BY <1>1
<1>2. CASE c % 2 = 1
  <2>1. c # cycle BY <1>2
  <2>2. c - 1 \in cycle..last /\ (c - 1) % 2 = 0 BY <2>1, <1>2
  <2> QED BY <1>2, <2>2
<1>3. c % 2 \in {0, 1} OBVIOUS
<1> QED BY <1>1, <1>2, <1>3

LEMMA ReadVectorsIInv == IInv /\ ReadVectors => IInv'
<1> SUFFICES ASSUME IInv, ReadVectors PROVE IInv'
  OBVIOUS
<1>1. TypeOK /\ Control /\ Searched /\ Staging /\ phase = "vectors"
  BY DEF IInv, ReadVectors
<1>2. name' = name
  BY DEF ReadVectors
<1>3. cycle \in Nat /\ cycle < NumCycles /\ cycle % 2 = 0
  <2>1. cycle \in Nat /\ cycle % WaveLength = 0 /\ cycle < NumCycles
    BY <1>1 DEF TypeOK, Control
  <2> QED BY <2>1, OffsetInWave
<1> DEFINE dom == {c \in cycle..WaveEnd : c % 2 = 0}
<1>4. PICK v \in [dom -> [Inputs -> InputValues]] :
        /\ ring' = [n \in Node |->
                      IF n \in Inputs
                      THEN [i \in 0..(WaveLength - 1) |->
                              IF cycle + i <= WaveEnd
                              THEN v[(cycle + i) - ((cycle + i) % 2)][n] ELSE ring[n][i]]
                      ELSE ring[n]]
        /\ inFile' = inFile \o [i \in 1..(WaveEnd - cycle + 1) |->
                                  v[(cycle + i - 1) - ((cycle + i - 1) % 2)]]
  BY DEF ReadVectors
<1>5. WaveEnd \in Nat /\ cycle <= WaveEnd /\ WaveEnd <= NumCycles - 1
  BY <1>3, WaveEndType
<1>6. \A c \in cycle..WaveEnd : v[c - (c % 2)] \in [Inputs -> InputValues]
  BY <1>3, <1>5, VectorOf
<1>7. TypeOK'
  <2>1. ring' \in [Node -> [0..(WaveLength - 1) -> Value]]
    <3>1. \A n \in Node, i \in 0..(WaveLength - 1) : ring[n][i] \in Value
      <4>1. ring \in [Node -> [0..(WaveLength - 1) -> Value]]
        BY <1>1 DEF TypeOK
      <4> QED BY <4>1
    <3>2. \A n \in Inputs, i \in 0..(WaveLength - 1) :
            cycle + i <= WaveEnd => v[(cycle + i) - ((cycle + i) % 2)][n] \in Value
      <4> TAKE n \in Inputs, i \in 0..(WaveLength - 1)
      <4> HAVE cycle + i <= WaveEnd
      <4>1. cycle + i \in cycle..WaveEnd
        BY <1>3, <1>5, WaveLengths
      <4>2. v[(cycle + i) - ((cycle + i) % 2)] \in [Inputs -> InputValues]
        BY <4>1, <1>6
      <4> QED BY <4>2, SizeAssumption
    <3>3. \A n \in Node : ring[n] \in [0..(WaveLength - 1) -> Value]
      BY <1>1 DEF TypeOK
    <3> QED BY <1>4, <3>1, <3>2, <3>3
  <2>2. stamp' \in [Node -> -1..(NumCycles - 1)]
    <3>1. NumCycles \in Nat BY SizeAssumption DEF NumCycles
    <3>2. stamp' = [n \in Node |-> IF n \in Inputs THEN WaveEnd ELSE stamp[n]]
      BY DEF ReadVectors
    <3>3. \A n \in Node : stamp[n] \in -1..(NumCycles - 1)
      BY <1>1 DEF TypeOK
    <3> QED BY <1>5, <3>1, <3>2, <3>3
  <2>3. inFile' \in Seq([Inputs -> InputValues])
    <3> DEFINE more == [i \in 1..(WaveEnd - cycle + 1) |->
                          v[(cycle + i - 1) - ((cycle + i - 1) % 2)]]
    <3>1. \A i \in 1..(WaveEnd - cycle + 1) : more[i] \in [Inputs -> InputValues]
      <4> TAKE i \in 1..(WaveEnd - cycle + 1)
      <4>1. cycle + i - 1 \in cycle..WaveEnd BY <1>3, <1>5
      <4> QED BY <4>1, <1>6
    <3>2. WaveEnd - cycle + 1 \in Nat BY <1>3, <1>5
    <3>3. more \in Seq([Inputs -> InputValues])
      BY <3>1, <3>2
    <3>4. inFile \in Seq([Inputs -> InputValues]) BY <1>1 DEF TypeOK
    <3> HIDE DEF more
    <3>5. inFile \o more \in Seq([Inputs -> InputValues])
      BY <3>3, <3>4, ConcatProperties
    <3> QED BY <3>5, <1>4 DEF more
  <2>4. CASE cycle = 0
    <3>1. queue' \in Seq(Node) /\ phase' = "first" /\ pending' = pending
      BY <2>4, <1>1, CircuitFacts DEF ReadVectors, TypeOK
    <3> QED BY <2>1, <2>2, <2>3, <3>1, <1>1, <1>2, CircuitSteady DEF TypeOK, ReadVectors
  <2>5. CASE cycle # 0
    <3>1. phase' = "stage" /\ stage' = 1 /\ pending' = ToSet(stages[1]) /\ queue' = queue
      BY <2>5 DEF ReadVectors
    <3>2. stages \in NonEmptyStages
      BY <2>5, <1>1, <1>3 DEF Staging
    <3>3. 1 \in DOMAIN stages /\ stages[1] \in Seq(Node)
      BY <3>2, EmptySeq, LenProperties, ElementOfSeq DEF NonEmptyStages
    <3>4. pending' \subseteq Node
      BY <3>1, <3>3 DEF ToSet
    <3> QED BY <2>1, <2>2, <2>3, <3>1, <3>3, <3>4, <1>1, <1>2, CircuitSteady
            DEF TypeOK, ReadVectors
  <2> QED BY <2>4, <2>5
<1>8. Control'
  BY <1>1, <1>2, <1>3, CircuitSteady DEF Control, ReadVectors
<1>9. Searched'
  <2>1. \A n \in Node : stamp'[n] >= 0 <=> n \in ToSet(ordered) \cup Inputs
    <3>1. stamp' = [n \in Node |-> IF n \in Inputs THEN WaveEnd ELSE stamp[n]]
      BY DEF ReadVectors
    <3>2. ToSet(<<>>) = {} BY DEF ToSet
    <3> QED BY <1>1, <1>5, <3>1, <3>2 DEF Searched, TypeOK
  <2>2. cycle = 0 => /\ IsInjective(queue')
                     /\ \A n \in ToSet(queue') : n \notin ToSet(ordered) /\ Awaited(n) = {}
    <3> SUFFICES ASSUME cycle = 0
                 PROVE  /\ IsInjective(queue')
                        /\ \A n \in ToSet(queue') : n \notin ToSet(ordered) /\ Awaited(n) = {}
      OBVIOUS
    <3>1. queue' = Circuit.start /\ ordered = <<>>
      BY <1>1 DEF ReadVectors, Searched
    <3>2. IsInjective(Circuit.start) /\ \A n \in ToSet(Circuit.start) : Pins(n) = <<>>
      BY <1>1, CircuitFacts DEF TypeOK
    <3>3. \A n : Pins(n) = <<>> => Awaited(n) = {}
      BY DEF Awaited
    <3> QED BY <3>1, <3>2, <3>3 DEF ToSet
  <2>3. phase' = "first" => cycle = 0
    BY DEF ReadVectors
  <2>4. phase' # "vectors" /\ ordered' = ordered
    BY DEF ReadVectors
  <2>5. InOrder(ordered)'
    BY <1>1, <1>2, <2>4, OrderSteady DEF Searched
  <2>6. \A n \in Node : stamp'[n] >= 0 <=> n \in ToSet(ordered') \cup Inputs'
    BY <1>2, <2>1, <2>4, CircuitSteady
  <2>7. phase' = "first" =>
          /\ IsInjective(queue')
          /\ \A n \in ToSet(queue') :
               n \notin ToSet(ordered') /\ Awaited(n)' \subseteq ToSet(ordered')
    <3>1. \A n : Awaited(n)' = Awaited(n) BY <1>2, CircuitSteady
    <3> QED BY <3>1, <2>2, <2>3, <2>4
  <2>8. Node' = Node BY <1>2, CircuitSteady
  <2> HIDE DEF InOrder
  <2> QED BY <2>4, <2>5, <2>6, <2>7, <2>8 DEF Searched
<1>10. Staging'
  <2>1. phase' = "stage" => stage' = 1 /\ pending' = ToSet(stages[1]) /\ DOMAIN inFlight = {}
    BY <1>1 DEF ReadVectors, Control
  <2>2. cycle' = cycle /\ stages' = stages /\ ordered' = ordered /\ inFlight' = inFlight
    BY DEF ReadVectors
  <2> QED BY <1>1, <1>2, <2>1, <2>2, StagesSteady DEF Staging
<1> QED BY <1>7, <1>8, <1>9, <1>10 DEF IInv

LEMMA SimulateFirstIInv == IInv /\ SimulateFirst => IInv'
<1> SUFFICES ASSUME IInv, SimulateFirst PROVE IInv'
  OBVIOUS
<1> DEFINE n == Head(queue)
           kids == {m \in Children(n) \ ToSet(queue) : IsReady(m, stamp') /\ stamp'[m] < cycle}
<1>1. TypeOK /\ Control /\ Searched /\ Staging /\ phase = "first" /\ queue # <<>>
  BY DEF IInv, SimulateFirst
<1>2. name' = name /\ cycle = 0
  BY <1>1 DEF SimulateFirst, Control
<1>3. PICK order \in SetToSeqs(kids) :
        /\ Store(n, Computed(n))
        /\ ordered' = Append(ordered, n)
        /\ queue' = Tail(queue) \o order
  BY DEF SimulateFirst
<1>4. /\ n \in Node /\ Tail(queue) \in Seq(Node) /\ ToSet(queue) = {n} \cup ToSet(Tail(queue))
      /\ IsInjective(Tail(queue)) /\ n \notin ToSet(Tail(queue))
      /\ n \notin ToSet(ordered)
  BY <1>1, TailDistinct DEF TypeOK, Searched
<1>5. /\ ordered' \in Seq(Node) /\ IsInjective(ordered')
      /\ ToSet(ordered') = ToSet(ordered) \cup {n}
  BY <1>1, <1>3, <1>4, AppendDistinct DEF TypeOK
<1>6. /\ ring' \in [Node -> [0..(WaveLength - 1) -> Value]]
      /\ stamp' \in [Node -> -1..(NumCycles - 1)]
      /\ store' \in [Memories -> [0..1 -> Value]]
      /\ \A m \in Node : stamp'[m] >= 0 <=> m \in ToSet(ordered') \cup Inputs
  <2>1. 0 \in -1..(NumCycles - 1)
    BY SizeAssumption DEF NumCycles
  <2>2. Offset(0) \in 0..(WaveLength - 1)
    BY OffsetType
  <2>3. /\ Computed(n).value \in Value
        /\ n \in Memories => Computed(n).store \in [0..1 -> Value]
    BY <1>1, <1>4, ComputedType DEF TypeOK, Computed
  <2>4. ring' \in [Node -> [0..(WaveLength - 1) -> Value]]
    BY <1>1, <1>2, <1>3, <1>4, <2>2, <2>3 DEF Store, TypeOK
  <2>5. stamp' \in [Node -> -1..(NumCycles - 1)]
    BY <1>1, <1>2, <1>3, <1>4, <2>1 DEF Store, TypeOK
  <2>6. store' \in [Memories -> [0..1 -> Value]]
    BY <1>1, <1>3, <1>4, <2>3 DEF Store, TypeOK
  <2>7. \A m \in Node : stamp[m] >= 0 <=> m \in ToSet(ordered) \cup Inputs
    BY <1>1 DEF Searched
  <2>8. \A m \in Node : stamp'[m] = IF m = n /\ n \notin Inputs THEN 0 ELSE stamp[m]
    BY <1>1, <1>2, <1>3, <1>4 DEF Store, TypeOK
  <2>9. \A m \in Node : stamp'[m] >= 0 <=> m \in ToSet(ordered') \cup Inputs
    <3> HIDE DEF n
    <3> QED BY <1>4, <1>5, <2>7, <2>8
  <2> QED BY <2>4, <2>5, <2>6, <2>9
<1>7. /\ kids \subseteq Node /\ IsFiniteSet(kids)
      /\ kids \cap ToSet(queue) = {} /\ kids \cap ToSet(ordered') = {}
  <2>1. kids \subseteq Node
    BY DEF Children
  <2>2. IsFiniteSet(Node)
    BY <1>1, CircuitFacts DEF TypeOK
  <2>3. IsFiniteSet(kids)
    <3> HIDE DEF kids
    <3> QED BY <2>1, <2>2, FS_Subset
  <2> QED BY <2>1, <2>3, <1>2, <1>6
<1>8. \A m \in kids : Awaited(m) \subseteq ToSet(ordered')
  <2> SUFFICES ASSUME NEW m \in kids, NEW d \in Awaited(m) PROVE d \in ToSet(ordered')
    OBVIOUS
  <2>1. PICK i \in DOMAIN Pins(m) \ Abstract!EarlyPins(Circuit, m) : d = Pins(m)[i]
    BY DEF Awaited
  <2>2. d \notin Inputs /\ d # Undriven
    BY DEF Awaited
  <2>3. NeededFor(m, i) = 0
    BY <1>2, <2>1 DEF NeededFor, Abstract!EarlyPins
  <2>4. stamp'[d] >= 0
    BY <2>1, <2>2, <2>3 DEF IsReady
  <2>5. d \in Node
    <3>1. m \in Node BY <1>7
    <3>2. Pins(m) \in Seq(Node \cup {Undriven})
      BY <3>1, <1>1, CircuitFacts DEF TypeOK
    <3>3. i \in 1..Len(Pins(m)) BY <3>2, <2>1, LenProperties
    <3> QED BY <3>2, <3>3, <2>1, <2>2, ElementOfSeq
  <2> QED BY <2>2, <2>4, <2>5, <1>6
<1>9. /\ queue' \in Seq(Node) /\ IsInjective(queue')
      /\ ToSet(queue') = ToSet(Tail(queue)) \cup kids
  <2>1. order \in Seq(kids) /\ IsInjective(order) /\ ToSet(order) = kids
    <3> HIDE DEF kids
    <3> QED BY <1>7, SetToSeqsFacts
  <2>2. order \in Seq(Node)
    BY <2>1, <1>7, SeqMonotonic
  <2>3. ToSet(Tail(queue)) \cap ToSet(order) = {}
    BY <2>1, <1>4, <1>7
  <2> DEFINE t == Tail(queue)
  <2>4. t \in Seq(Node) /\ IsInjective(t) /\ queue' = t \o order /\ ToSet(t) \cap ToSet(order) = {}
    BY <1>3, <1>4, <2>3
  <2> HIDE DEF kids, t
  <2>5. /\ t \o order \in Seq(Node) /\ IsInjective(t \o order)
        /\ ToSet(t \o order) = ToSet(t) \cup ToSet(order)
    BY <2>1, <2>2, <2>4, ConcatDistinct
  <2> QED BY <2>1, <2>4, <2>5 DEF t
<1> HIDE DEF n, kids
<1>10. TypeOK'
  BY <1>1, <1>2, <1>5, <1>6, <1>9, CircuitSteady DEF TypeOK, SimulateFirst
<1>11. Control'
  BY <1>1, <1>2, CircuitSteady DEF Control, SimulateFirst
<1>12. InOrder(ordered)'
  <2>1. ordered \in Seq(Node) /\ Len(ordered) \in Nat /\ Len(ordered') = Len(ordered) + 1
        /\ ordered'[Len(ordered) + 1] = n
        /\ \A i \in 1..Len(ordered) : ordered'[i] = ordered[i]
    BY <1>1, <1>3, <1>4, AppendProperties, LenProperties DEF TypeOK
  <2>2. \A d \in Awaited(n) : \E j \in 1..Len(ordered) : ordered[j] = d
    <3>1. Awaited(n) \subseteq ToSet(ordered)
      BY <1>1, <1>4 DEF Searched
    <3>2. DOMAIN ordered = 1..Len(ordered) BY <2>1, LenProperties
    <3> QED BY <3>1, <3>2 DEF ToSet
  <2> SUFFICES ASSUME NEW i \in 1..Len(ordered'), NEW m \in Node, ordered'[i] = m,
                      NEW d \in Awaited(m)
               PROVE  \E j \in 1..(i - 1) : ordered'[j] = d
    BY <1>2, CircuitSteady DEF InOrder
  <2>3. CASE i = Len(ordered) + 1
    <3>1. m = n /\ i - 1 = Len(ordered) BY <2>1, <2>3
    <3> QED BY <3>1, <2>1, <2>2
  <2>4. CASE i \in 1..Len(ordered)
    <3>1. ordered[i] = m BY <2>1, <2>4
    <3>2. PICK j \in 1..(i - 1) : ordered[j] = d
      BY <3>1, <2>4, <1>1 DEF Searched, InOrder
    <3>3. j \in 1..Len(ordered) BY <3>2, <2>1
    <3> QED BY <3>2, <3>3, <2>1
  <2> QED BY <2>1, <2>3, <2>4
<1>13. Searched'
  <2>1. \A m \in ToSet(queue') : m \notin ToSet(ordered') /\ Awaited(m) \subseteq ToSet(ordered')
    BY <1>1, <1>4, <1>5, <1>7, <1>8, <1>9 DEF Searched
  <2>2. phase' = "first"
    BY <1>1 DEF SimulateFirst
  <2> QED BY <1>2, <1>6, <1>9, <1>12, <2>1, <2>2, CircuitSteady DEF Searched
<1>14. Staging'
  BY <1>1, <1>2 DEF Staging, SimulateFirst
<1> QED BY <1>10, <1>11, <1>13, <1>14 DEF IInv

LEMMA OutputVectorsType ==
  ASSUME TypeOK, NEW from \in Nat, NEW to \in Nat
  PROVE  /\ OutputVectors(from, to) \in Seq([Outputs -> Value])
         /\ from <= to => Len(OutputVectors(from, to)) = to - from
         /\ \A i \in 1..(to - from) :
              OutputVectors(from, to)[i] = [o \in Outputs |-> ring[o][Offset(from + i - 1)]]
<1> DEFINE out == OutputVectors(from, to)
<1>1. out = [i \in 1..(to - from) |-> out[i]]
  BY DEF OutputVectors
<1>2. \A i \in 1..(to - from) :
        out[i] = [o \in Outputs |-> ring[o][Offset(from + i - 1)]]
  BY DEF OutputVectors
<1> HIDE DEF out
<1>3. \A i \in 1..(to - from) : out[i] \in [Outputs -> Value]
  <2> TAKE i \in 1..(to - from)
  <2>1. from + i - 1 \in Nat
    OBVIOUS
  <2>2. Offset(from + i - 1) \in 0..(WaveLength - 1)
    BY <2>1, OffsetType
  <2>3. \A o \in Outputs : ring[o] \in [0..(WaveLength - 1) -> Value]
    BY DEF TypeOK, Outputs, OfKind
  <2>4. \A o \in Outputs : ring[o][Offset(from + i - 1)] \in Value
    BY <2>2, <2>3
  <2>5. out[i] = [o \in Outputs |-> ring[o][Offset(from + i - 1)]]
    BY <1>2
  <2> QED BY <2>4, <2>5
<1>4. CASE from <= to
  <2> DEFINE k == to - from
  <2>1. k \in Nat BY <1>4
  <2>2. out = [i \in 1..k |-> out[i]] BY <1>1
  <2>3. \A i \in 1..k : out[i] \in [Outputs -> Value] BY <1>3
  <2> HIDE DEF k
  <2>4. out \in [1..k -> [Outputs -> Value]]
    BY <2>2, <2>3
  <2>5. out \in Seq([Outputs -> Value])
    BY <2>1, <2>4, SeqDef
  <2>6. Len(out) = k
    <3>1. DOMAIN out = 1..k BY <2>2
    <3>2. DOMAIN out = 1..Len(out) /\ Len(out) \in Nat BY <2>5, LenProperties
    <3> QED BY <2>1, <3>1, <3>2
  <2> QED BY <2>5, <2>6, <1>2 DEF out, k
<1>5. CASE ~(from <= to)
  <2>1. 1..(to - from) = {} BY <1>5
  <2>2. DOMAIN out = {} /\ out = [i \in {} |-> out[i]] BY <1>1, <2>1
  <2>3. out = <<>> BY <2>2
  <2> QED BY <2>1, <2>3, <1>5 DEF out
<1> QED BY <1>4, <1>5

LEMMA EndCycleType ==
  ASSUME TypeOK, cycle < NumCycles, NEW st \in NonEmptyStages, EndCycle(st)
  PROVE  /\ cycle' = cycle + 1 /\ cycle' \in 1..NumCycles
         /\ stored' = store
         /\ outFile' \in Seq([Outputs -> Value])
         /\ phase' \in {"vectors", "stage", "done"}
         /\ phase' = "vectors" => cycle' % WaveLength = 0 /\ cycle' < NumCycles
         /\ phase' = "stage" => /\ cycle' < NumCycles /\ stage' = 1 /\ pending' = ToSet(st[1])
         /\ phase' # "stage" => pending' = {}
         /\ pending' \subseteq Node /\ 1 \in DOMAIN st
<1>1. NumCycles \in Nat /\ cycle \in Nat /\ cycle' = cycle + 1
  BY SizeAssumption DEF NumCycles, TypeOK, EndCycle
<1>2. 1 \in DOMAIN st /\ st[1] \in Seq(Node)
  BY EmptySeq, LenProperties, ElementOfSeq DEF NonEmptyStages
<1>3. ToSet(st[1]) \subseteq Node
  BY <1>2 DEF ToSet
<1>4. outFile' \in Seq([Outputs -> Value])
  <2> DEFINE more == OutputVectors(Len(outFile), cycle + 1)
  <2>1. outFile \in Seq([Outputs -> Value]) /\ Len(outFile) \in Nat
    BY LenProperties DEF TypeOK
  <2>2. more \in Seq([Outputs -> Value])
    <3>1. cycle + 1 \in Nat BY <1>1
    <3> QED BY <3>1, <2>1, OutputVectorsType
  <2>3. outFile' = outFile \/ outFile' = outFile \o more
    BY DEF EndCycle
  <2> HIDE DEF more
  <2> QED BY <2>1, <2>2, <2>3, ConcatProperties
<1> QED BY <1>1, <1>2, <1>3, <1>4 DEF EndCycle

LEMMA OrganiseStagesIInv == IInv /\ OrganiseStages => IInv'
<1> SUFFICES ASSUME IInv, OrganiseStages PROVE IInv'
  OBVIOUS
<1>1. TypeOK /\ Control /\ Searched /\ Staging /\ phase = "first"
  BY DEF IInv, OrganiseStages
<1>2. name' = name /\ cycle = 0 /\ cycle < NumCycles
  BY <1>1, SizeAssumption DEF OrganiseStages, Control, NumCycles
<1>3. stages' \in NonEmptyStages /\ StagesOf(stages', ToSet(ordered))
  BY <1>1, StageOrderedGood DEF OrganiseStages, TypeOK, Searched
<1>4. EndCycle(stages') /\ faster' \subseteq DOMAIN stages'
  BY DEF OrganiseStages
<1>5. /\ cycle' = cycle + 1 /\ cycle' \in 1..NumCycles
      /\ stored' = store
      /\ outFile' \in Seq([Outputs -> Value])
      /\ phase' \in {"vectors", "stage", "done"}
      /\ phase' = "vectors" => cycle' % WaveLength = 0 /\ cycle' < NumCycles
      /\ phase' = "stage" => /\ cycle' < NumCycles /\ stage' = 1
                             /\ pending' = ToSet(stages'[1])
      /\ phase' # "stage" => pending' = {}
      /\ pending' \subseteq Node /\ 1 \in DOMAIN stages'
  BY <1>1, <1>2, <1>3, <1>4, EndCycleType
<1>6. UNCHANGED <<name, ring, stamp, store, queue, ordered, inFlight, inFile>>
  BY DEF OrganiseStages
<1>7. TypeOK'
  <2>1. /\ stages' \in Seq(Seq(Node)) /\ cycle' \in 0..NumCycles
        /\ phase' \in {"vectors", "first", "stage", "done", "error"}
        /\ phase' = "stage" => stage' \in DOMAIN stages'
    BY <1>1, <1>3, <1>5 DEF NonEmptyStages, TypeOK
  <2>2. UNCHANGED <<Node, Memories, Inputs, Outputs>>
    BY <1>2, CircuitSteady
  <2> QED BY <2>1, <2>2, <1>1, <1>2, <1>4, <1>5, <1>6 DEF TypeOK
<1>8. Control'
  BY <1>1, <1>2, <1>5, <1>6, CircuitSteady DEF Control
<1>9. Searched'
  <2>1. InOrder(ordered)'
    BY <1>1, <1>2, <1>6, CircuitSteady, OrderSteady DEF Searched
  <2> QED BY <1>1, <1>2, <1>5, <1>6, <2>1, CircuitSteady DEF Searched
<1>10. Staging'
  <2>1. stages' \in NonEmptyStages' /\ StagesOf(stages, ToSet(ordered))'
    BY <1>2, <1>3, <1>6, StagesSteady
  <2>2. DOMAIN inFlight' = {}
    BY <1>1, <1>6 DEF Control
  <2> QED BY <1>5, <2>1, <2>2 DEF Staging
<1> QED BY <1>7, <1>8, <1>9, <1>10 DEF IInv

LEMMA NextCycleIInv == IInv /\ NextCycle => IInv'
<1> SUFFICES ASSUME IInv, NextCycle PROVE IInv'
  OBVIOUS
<1>1. TypeOK /\ Control /\ Searched /\ Staging /\ phase = "stage" /\ pending = {} /\ inFlight = <<>>
  BY DEF IInv, NextCycle, StageOver
<1>2. name' = name /\ cycle > 0 /\ cycle < NumCycles
  BY <1>1 DEF NextCycle, Control
<1>3. stages \in NonEmptyStages /\ StagesOf(stages, ToSet(ordered))
  BY <1>1, <1>2 DEF Staging
<1>4. EndCycle(stages)
  BY DEF NextCycle
<1>5. /\ cycle' = cycle + 1 /\ cycle' \in 1..NumCycles
      /\ stored' = store
      /\ outFile' \in Seq([Outputs -> Value])
      /\ phase' \in {"vectors", "stage", "done"}
      /\ phase' = "vectors" => cycle' % WaveLength = 0 /\ cycle' < NumCycles
      /\ phase' = "stage" => /\ cycle' < NumCycles /\ stage' = 1
                             /\ pending' = ToSet(stages[1])
      /\ phase' # "stage" => pending' = {}
      /\ pending' \subseteq Node /\ 1 \in DOMAIN stages
  BY <1>1, <1>2, <1>3, <1>4, EndCycleType
<1>6. UNCHANGED <<name, ring, stamp, store, queue, ordered, stages, faster, inFlight, inFile>>
  BY DEF NextCycle
<1>7. DOMAIN inFlight = {}
  BY <1>1
<1>8. TypeOK'
  <2>1. /\ cycle' \in 0..NumCycles
        /\ phase' \in {"vectors", "first", "stage", "done", "error"}
        /\ phase' = "stage" => stage' \in DOMAIN stages'
    BY <1>1, <1>5, <1>6 DEF TypeOK
  <2>2. UNCHANGED <<Node, Memories, Inputs, Outputs>>
    BY <1>2, CircuitSteady
  <2> QED BY <2>1, <2>2, <1>1, <1>2, <1>5, <1>6 DEF TypeOK
<1>9. Control'
  BY <1>1, <1>2, <1>5, <1>6, <1>7, CircuitSteady DEF Control
<1>10. Searched'
  <2>1. InOrder(ordered)'
    BY <1>1, <1>6, OrderSteady DEF Searched
  <2> QED BY <1>1, <1>2, <1>5, <1>6, <2>1, CircuitSteady DEF Searched
<1>11. Staging'
  <2>1. stages' \in NonEmptyStages' /\ StagesOf(stages, ToSet(ordered))'
    BY <1>2, <1>3, <1>6, StagesSteady
  <2> QED BY <1>5, <1>6, <1>7, <2>1 DEF Staging
<1> QED BY <1>8, <1>9, <1>10, <1>11 DEF IInv

\* A step within a cycle leaves what has been ordered and the stages alone.
LEMMA WithinCycle ==
  ASSUME IInv, phase = "stage",
         UNCHANGED <<name, cycle, queue, ordered, stages>>,
         phase' \in {"stage", "error"},
         \A m \in Node : stamp'[m] >= 0 <=> m \in ToSet(ordered) \cup Inputs,
         phase' = "stage" =>
           pending' \cup DOMAIN inFlight' \subseteq ToSet(stages[stage'])
  PROVE  Searched' /\ Staging'
<1>1. Control /\ Searched /\ Staging
  BY DEF IInv
<1>2. InOrder(ordered)'
  BY <1>1, CircuitSteady, OrderSteady DEF Searched
<1>3. Searched'
  BY <1>2, CircuitSteady DEF Searched
<1>4. stages \in NonEmptyStages /\ StagesOf(stages, ToSet(ordered)) /\ cycle > 0
  BY <1>1 DEF Staging, Control
<1>5. stages' \in NonEmptyStages' /\ StagesOf(stages, ToSet(ordered))'
  BY <1>4, StagesSteady
<1>6. Staging'
  BY <1>5 DEF Staging
<1> QED BY <1>3, <1>6

LEMMA NextStageIInv == IInv /\ NextStage => IInv'
<1> SUFFICES ASSUME IInv, NextStage PROVE IInv'
  OBVIOUS
<1>1. TypeOK /\ Control /\ Searched /\ Staging /\ phase = "stage" /\ pending = {} /\ inFlight = <<>>
  BY DEF IInv, NextStage, StageOver
<1>2. /\ UNCHANGED <<name, cycle, phase, ring, stamp, store, queue, ordered, stages,
                     faster, inFlight, inFile, outFile, stored>>
      /\ stage' = stage + 1 /\ pending' = ToSet(stages[stage + 1]) /\ stage < Len(stages)
  BY DEF NextStage
<1>3. stage \in DOMAIN stages /\ stages \in Seq(Seq(Node))
  BY <1>1 DEF TypeOK
<1>4. stage' \in DOMAIN stages /\ stages[stage'] \in Seq(Node)
  BY <1>2, <1>3, LenProperties, ElementOfSeq
<1>5. pending' \subseteq Node
  BY <1>2, <1>4 DEF ToSet
<1>6. DOMAIN inFlight = {}
  BY <1>1
<1>7. TypeOK'
  BY <1>1, <1>2, <1>4, <1>5, <1>6, CircuitSteady DEF TypeOK
<1>8. Control'
  BY <1>1, <1>2, <1>6, CircuitSteady DEF Control
<1>9. Searched' /\ Staging'
  <2>1. \A m \in Node : stamp'[m] >= 0 <=> m \in ToSet(ordered) \cup Inputs
    BY <1>1, <1>2 DEF Searched
  <2>2. pending' \cup DOMAIN inFlight' \subseteq ToSet(stages[stage'])
    BY <1>2, <1>6
  <2> QED BY <1>1, <1>2, <2>1, <2>2, WithinCycle
<1> QED BY <1>7, <1>8, <1>9 DEF IInv

LEMMA BeginIInv == ASSUME IInv, NEW n \in Node, Begin(n) PROVE IInv'
<1>1. TypeOK /\ Control /\ Searched /\ Staging /\ phase = "stage" /\ n \in pending
  BY DEF IInv, Begin
<1>2. UNCHANGED <<name, cycle, ring, stamp, store, queue, ordered, stages, stage,
                  faster, inFile, outFile, stored>>
  BY DEF Begin
<1>3. /\ phase' \in {"stage", "error"}
      /\ pending' \subseteq pending
      /\ \A m \in DOMAIN inFlight' :
           \/ m = n /\ inFlight'[m] = Computed(n)
           \/ m \in DOMAIN inFlight /\ inFlight'[m] = inFlight[m]
  <2>1. CASE MissesInput(n)
    BY <2>1 DEF Begin
  <2>2. CASE ~MissesInput(n)
    <3>1. /\ pending' = pending \ {n} /\ phase' = phase
          /\ inFlight' = [m \in DOMAIN inFlight \cup {n} |->
                            IF m = n THEN Computed(n) ELSE inFlight[m]]
      BY <2>2 DEF Begin
    <3> QED BY <3>1, <1>1
  <2> QED BY <2>1, <2>2
<1>4. Computed(n) \in Written /\ (n \in Memories => Computed(n).store \in [0..1 -> Value])
  <2>1. n \in Node /\ (n \in Memories => store[n] \in [0..1 -> Value])
    BY <1>1 DEF TypeOK
  <2> QED BY <1>1, <2>1, ComputedType DEF Computed
<1>5. TypeOK'
  BY <1>1, <1>2, <1>3, <1>4, CircuitSteady DEF TypeOK
<1>6. Control'
  BY <1>1, <1>2, <1>3, <1>4, CircuitSteady DEF Control
<1>7. Searched' /\ Staging'
  <2>1. \A m \in Node : stamp'[m] >= 0 <=> m \in ToSet(ordered) \cup Inputs
    BY <1>1, <1>2 DEF Searched
  <2>2. pending' \cup DOMAIN inFlight' \subseteq ToSet(stages[stage'])
    BY <1>1, <1>2, <1>3 DEF Staging
  <2> QED BY <1>1, <1>2, <1>3, <2>1, <2>2, WithinCycle
<1> QED BY <1>5, <1>6, <1>7 DEF IInv

LEMMA FinishIInv == ASSUME IInv, NEW n \in Node, Finish(n) PROVE IInv'
<1>1. TypeOK /\ Control /\ Searched /\ Staging /\ phase = "stage" /\ n \in DOMAIN inFlight
  BY DEF IInv, Finish
<1>2. UNCHANGED <<name, cycle, phase, queue, ordered, stages, stage, faster,
                  pending, inFile, outFile, stored>>
  BY DEF Finish
<1>3. /\ DOMAIN inFlight' = DOMAIN inFlight \ {n}
      /\ \A m \in DOMAIN inFlight' : inFlight'[m] = inFlight[m]
  BY DEF Finish, Restrict
<1>4. cycle \in Nat /\ cycle > 0 /\ cycle \in -1..(NumCycles - 1)
  BY <1>1, SizeAssumption DEF Control, TypeOK, NumCycles
<1>5. inFlight[n].value \in Value /\ (n \in Memories => inFlight[n].store \in [0..1 -> Value])
  BY <1>1 DEF TypeOK, Control, Written
<1>6. /\ ring' \in [Node -> [0..(WaveLength - 1) -> Value]]
      /\ stamp' \in [Node -> -1..(NumCycles - 1)]
      /\ store' \in [Memories -> [0..1 -> Value]]
  <2>1. Offset(cycle) \in 0..(WaveLength - 1)
    BY <1>4, OffsetType
  <2>2. ring' \in [Node -> [0..(WaveLength - 1) -> Value]]
    BY <1>1, <1>5, <2>1 DEF Finish, Store, TypeOK
  <2>3. stamp' \in [Node -> -1..(NumCycles - 1)]
    BY <1>1, <1>4 DEF Finish, Store, TypeOK
  <2>4. store' \in [Memories -> [0..1 -> Value]]
    BY <1>1, <1>5 DEF Finish, Store, TypeOK
  <2> QED BY <2>2, <2>3, <2>4
<1>7. TypeOK'
  BY <1>1, <1>2, <1>3, <1>6, CircuitSteady DEF TypeOK
<1>8. Control'
  BY <1>1, <1>2, <1>3, CircuitSteady DEF Control
<1>9. Searched' /\ Staging'
  <2>1. n \in ToSet(ordered)
    <3>1. n \in ToSet(stages[stage]) /\ stage \in DOMAIN stages
      BY <1>1 DEF Staging, TypeOK
    <3> QED BY <3>1, <1>1, <1>4 DEF Staging, StagesOf, Cover
  <2>2. \A m \in Node : stamp'[m] >= 0 <=> m \in ToSet(ordered) \cup Inputs
    <3>1. \A m \in Node : stamp'[m] = IF m = n /\ n \notin Inputs THEN cycle ELSE stamp[m]
      BY <1>1 DEF Finish, Store, TypeOK
    <3>2. \A m \in Node : stamp[m] >= 0 <=> m \in ToSet(ordered) \cup Inputs
      BY <1>1 DEF Searched
    <3> QED BY <3>1, <3>2, <2>1, <1>4
  <2>3. pending' \cup DOMAIN inFlight' \subseteq ToSet(stages[stage'])
    BY <1>1, <1>2, <1>3 DEF Staging
  <2> QED BY <1>1, <1>2, <2>2, <2>3, WithinCycle
<1> QED BY <1>7, <1>8, <1>9 DEF IInv

LEMMA NextIInv == IInv /\ [Next]_vars => IInv'
<1> SUFFICES ASSUME IInv, [Next]_vars PROVE IInv'
  OBVIOUS
<1>1. CASE ReadVectors BY <1>1, ReadVectorsIInv
<1>2. CASE SimulateFirst BY <1>2, SimulateFirstIInv
<1>3. CASE OrganiseStages BY <1>3, OrganiseStagesIInv
<1>4. CASE \E n \in Node : Begin(n) BY <1>4, BeginIInv
<1>5. CASE \E n \in Node : Finish(n) BY <1>5, FinishIInv
<1>6. CASE NextStage BY <1>6, NextStageIInv
<1>7. CASE NextCycle BY <1>7, NextCycleIInv
<1>8. CASE UNCHANGED vars BY <1>8, StutterIInv
<1> QED
  BY <1>1, <1>2, <1>3, <1>4, <1>5, <1>6, <1>7, <1>8 DEF Next, SimulatorStep, Done

THEOREM SimulatorInvariant == Spec => []IInv
<1> QED BY InitIInv, NextIInv, PTL DEF Spec

\* The simulator keeps its types: places in the ring, cycles, stages and
\* positions in them are in range, and what is computed is a value.
THEOREM SimulatorTypesCorrect == Spec => []TypeOK
<1>1. IInv => TypeOK BY DEF IInv
<1> QED BY <1>1, SimulatorInvariant, PTL

\* Whatever the circuit, the order the first cycle found and the measurements,
\* nodes that threads may be computing at the same time do not read one
\* another's nets.
THEOREM ThreadsNeverMeet == Spec => []ThreadsApart
<1>1. IInv => ThreadsApart
  <2> SUFFICES ASSUME IInv, phase = "stage",
                      NEW n \in pending \cup DOMAIN inFlight,
                      NEW m \in pending \cup DOMAIN inFlight, n # m
               PROVE  n \notin Drivers(m)
    BY DEF ThreadsApart
  <2>1. StagesOf(stages, ToSet(ordered)) /\ stage \in DOMAIN stages
    BY DEF IInv, Control, Staging, TypeOK
  <2>2. n \in ToSet(stages[stage]) /\ m \in ToSet(stages[stage])
    BY DEF IInv, Staging
  <2>3. n \in ToSet(ordered) /\ m \in ToSet(ordered)
    BY <2>1, <2>2 DEF StagesOf, Cover
  <2> QED BY <2>1, <2>2, <2>3 DEF StagesOf, Apart
<1> QED BY <1>1, SimulatorInvariant, PTL

-----------------------------------------------------------------------------
(* The inductive invariant of values.                                      *)

\* The nodes computed in the cycle under way.
DoneNow ==
  CASE phase = "first" -> ToSet(ordered)
    [] phase = "stage" -> {n \in ToSet(ordered) :
                             /\ \E s \in 1..stage : n \in ToSet(stages[s])
                             /\ n \notin pending \cup DOMAIN inFlight}
    [] OTHER -> {}

\* The wave under way begins with the first cycle that is not in the file;
\* its input vectors are in the ring, and each serves for two cycles.
WaveOnRing ==
  /\ phase \in {"vectors", "first", "stage"} =>
       /\ Len(outFile) % WaveLength = 0
       /\ cycle \in Len(outFile)..(Len(outFile) + WaveLength - 1)
  /\ phase = "vectors" => Len(outFile) = cycle /\ Len(inFile) = cycle
  /\ phase \in {"first", "stage"} =>
       /\ \/ Len(inFile) = Len(outFile) + WaveLength
          \/ Len(inFile) = NumCycles /\ NumCycles <= Len(outFile) + WaveLength
       /\ \A d \in Inputs, c \in Len(outFile)..(Len(inFile) - 1) :
            ring[d][Offset(c)] = inFile[c + 1][d]
  /\ \A c \in 1..(Len(inFile) - 1) : c % 2 = 1 => inFile[c + 1] = inFile[c]

\* What nothing has computed has the value it had before the first cycle.
Untouched ==
  /\ \A n \in Node : n \notin ToSet(ordered) \cup Inputs =>
       ring[n] = [i \in 0..(WaveLength - 1) |-> Circuit.initial[n]]
  /\ cycle = 0 => \A n \in Node \ Inputs : ring[n][Offset(0 - 1)] = Circuit.initial[n]

\* A node computed in this cycle has what it is computed to be now that all
\* others it reads have been, and so has one that a thread is computing.
Outcome(n) == ComputedFrom(n, stored[n])
ValuesInPlace ==
  /\ \A n \in DoneNow \ Inputs :
       /\ ring[n][Offset(cycle)] = Outcome(n).value
       /\ n \in Memories => store[n] = Outcome(n).store
  /\ phase # "error" => \A n \in Memories \ DoneNow : store[n] = stored[n]
  /\ \A n \in DOMAIN inFlight : inFlight[n] = Outcome(n) /\ n \notin pending

\* The first cycle misses no node that can be ordered, and orders no other.
SearchComplete ==
  /\ phase = "first" =>
       /\ ToSet(Circuit.start) \subseteq ToSet(ordered) \cup ToSet(queue)
       /\ ToSet(ordered) \cup ToSet(queue) \subseteq Abstract!ComputableIn[name]
       /\ \A n \in Node : Drivers(n) \cap ToSet(ordered) # {} /\ IsReady(n, stamp)
                            => n \in ToSet(ordered) \cup ToSet(queue)
  /\ cycle > 0 => ToSet(ordered) = Abstract!ComputableIn[name]

\* A net is never more than a cycle late; the fourth cycle finds the nodes that
\* read a net nothing computes.
Stamped ==
  /\ ~(phase = "vectors" /\ cycle = 0) => \A n \in Inputs : stamp[n] = Len(inFile) - 1
  /\ \A n \in DoneNow \ Inputs : stamp[n] = cycle
  /\ cycle > 0 /\ phase \in {"vectors", "stage"} =>
       \A n \in ToSet(ordered) \ Inputs : stamp[n] >= cycle - 1
  /\ phase = "stage" /\ cycle = 3 =>
       \A n \in DoneNow \cup DOMAIN inFlight : Drivers(n) \subseteq ToSet(ordered)

VInv == WaveOnRing /\ Untouched /\ ValuesInPlace /\ SearchComplete /\ Stamped

\* The nodes that can be ordered are the least set that has those the search
\* starts with and every node of which a driver and all it reads late are in it.
Follow(known) == Abstract!Follow(Circuit, known)
Late(n) == {Pins(n)[i] : i \in DOMAIN Pins(n) \ Abstract!EarlyPins(Circuit, n)}

LEMMA FollowFacts ==
  ASSUME NEW known
  PROVE  Follow(known) = {n \in Node : /\ Drivers(n) \cap known # {}
                                       /\ Late(n) \subseteq known \cup {Undriven}}
BY DEF Follow, Abstract!Follow, Abstract!Node, Abstract!ToSet, ToSet, Node, Drivers, Pins, Late

LEMMA ComputableFacts ==
  ASSUME name \in DOMAIN Circuits
  PROVE  LET C == Abstract!ComputableIn[name]
         IN  /\ C \in SUBSET Node
             /\ ToSet(Circuit.start) \subseteq C
             /\ Follow(C) \subseteq C
             /\ \A T : ToSet(Circuit.start) \subseteq T /\ Follow(T) \subseteq T => C \subseteq T
<1> DEFINE N      == Abstract!Cardinality(Abstract!Node(Circuit))
           start  == Abstract!ToSet(Circuit.start)
           Rec(f) == [k \in 0..N |-> IF k = 0 THEN Abstract!ToSet(Circuit.start)
                                     ELSE f[k - 1] \cup Abstract!Follow(Circuit, f[k - 1])]
           F      == [p \in (1..N) \X SUBSET Node |-> p[2] \cup Follow(p[2])]
           C      == Abstract!ComputableIn[name]
<1>1. N \in Nat /\ N = Cardinality(Node) /\ IsFiniteSet(Node) /\ start \in SUBSET Node
  BY CircuitFacts, FS_CardinalityType DEF Abstract!Node, Node, Abstract!Cardinality, Cardinality, Abstract!ToSet, ToSet
<1>2. \A x : Follow(x) \subseteq Node
  BY FollowFacts
<1>3. PICK f \in [0..N -> SUBSET Node] : Follows(f, start, F, N)
  <2>1. StaysIn(SUBSET Node, F, N)
    BY <1>2 DEF StaysIn
  <2> HIDE DEF F, N, start
  <2> QED BY <1>1, <2>1, RecursiveFunction
<1>4. f = Rec(f)
  <2>1. \A k \in 1..N : f[k] = f[k - 1] \cup Follow(f[k - 1])
    <3> TAKE k \in 1..N
    <3>1. k - 1 \in 0..N BY <1>1
    <3>2. f[k - 1] \in SUBSET Node BY <3>1
    <3>3. F[<<k, f[k - 1]>>] = f[k - 1] \cup Follow(f[k - 1]) BY <3>2
    <3> HIDE DEF F, N
    <3> QED BY <3>3, <1>3 DEF Follows
  <2>2. f[0] = start
    BY <1>3 DEF Follows
  <2>3. \A k \in 0..N : f[k] = Rec(f)[k]
    <3> TAKE k \in 0..N
    <3>1. CASE k = 0
      BY <3>1, <2>2
    <3>2. CASE k # 0
      <4>1. k \in 1..N BY <3>2, <1>1
      <4> QED BY <4>1, <2>1, <3>2 DEF Follow
    <3> QED BY <3>1, <3>2
  <2> HIDE DEF N
  <2> QED BY <2>3
<1> DEFINE g == CHOOSE h : h = Rec(h)
<1>5. g = Rec(g)
  <2> HIDE DEF Rec
  <2> QED BY <1>4
<1>6. C = g[N]
  <2>1. Circuit = Circuits[name] /\ C = Abstract!Computable(Circuits[name])
    BY DEF Circuit, Abstract!ComputableIn
  <2>2. Abstract!Computable(Circuit) = g[N]
    BY Zenon DEF Abstract!Computable
  <2> QED BY <2>1, <2>2
<1>7. g \in [0..N -> SUBSET Node] /\ g[0] = start
      /\ \A k \in 1..N : g[k] = g[k - 1] \cup Follow(g[k - 1])
  <2>1. g[0] = start /\ \A k \in 1..N : g[k] = g[k - 1] \cup Follow(g[k - 1])
    <3>1. \A k \in 0..N : g[k] = Rec(g)[k]
      <4> HIDE DEF Rec, g
      <4> QED BY <1>5
    <3> HIDE DEF g
    <3>2. \A k \in 0..N : g[k] = IF k = 0 THEN start ELSE g[k - 1] \cup Follow(g[k - 1])
      BY <3>1 DEF Follow
    <3> HIDE DEF N, start
    <3>3. \A k \in 1..N : k \in 0..N /\ k # 0
      BY <1>1
    <3>4. 0 \in 0..N BY <1>1
    <3> QED BY <3>2, <3>3, <3>4
  <2> HIDE DEF g, N, start
  <2> DEFINE Good == {k \in Nat : k <= N => g[k] \in SUBSET Node}
  <2>2. 0 \in Good BY <2>1, <1>1
  <2>3. ASSUME NEW k \in Nat, k \in Good PROVE k + 1 \in Good
    <3>1. CASE k + 1 <= N
      <4>1. k + 1 \in 1..N /\ (k + 1) - 1 = k /\ k <= N BY <3>1, <1>1
      <4> QED BY <4>1, <2>1, <2>3, <1>2
    <3> QED BY <3>1
  <2>4. Nat \subseteq Good
    <3> HIDE DEF Good
    <3> QED BY <2>2, <2>3, NatSetInduction
  <2>5. \A k \in 0..N : g[k] \in SUBSET Node BY <2>4, <1>1
  <2>6. g = [k \in 0..N |-> g[k]]
    <3>1. g = [k \in 0..N |-> IF k = 0 THEN start ELSE g[k - 1] \cup Abstract!Follow(Circuit, g[k - 1])]
      BY <1>5 DEF start
    <3> QED BY <3>1
  <2> QED BY <2>1, <2>5, <2>6
<1> HIDE DEF g, N, start, C
<1> HIDE DEF F, Rec
<1>8. Follow(g[N]) \subseteq g[N]
  <2> DEFINE Closed(k) == Follow(g[k]) \subseteq g[k]
             Good == {k \in Nat : k <= N => Closed(k) \/ Cardinality(g[k]) >= k}
  <2>1. \A k \in 0..N : IsFiniteSet(g[k]) /\ Cardinality(g[k]) \in Nat
    <3> TAKE k \in 0..N
    <3>1. g[k] \in SUBSET Node BY <1>7
    <3> QED BY <3>1, <1>1, FS_Subset, FS_CardinalityType
  <2>2. 0 \in Good
    BY <2>1, <1>1
  <2>3. ASSUME NEW k \in Nat, k \in Good, k + 1 <= N PROVE Closed(k + 1) \/ Cardinality(g[k + 1]) >= k + 1
    <3>1. k \in 0..N /\ k + 1 \in 0..N /\ g[k + 1] = g[k] \cup Follow(g[k])
      <4>1. k + 1 \in 1..N /\ (k + 1) - 1 = k /\ k \in 0..N /\ k + 1 \in 0..N BY <2>3, <1>1
      <4> QED BY <4>1, <1>7
    <3>2. CASE Closed(k)
      <4>1. g[k + 1] = g[k] BY <3>1, <3>2
      <4> QED BY <4>1, <3>2
    <3>3. CASE ~Closed(k)
      <4>1. g[k] \subseteq g[k + 1] /\ g[k] # g[k + 1] BY <3>1, <3>3
      <4>2. Cardinality(g[k]) <= Cardinality(g[k + 1]) /\ Cardinality(g[k]) # Cardinality(g[k + 1])
        BY <4>1, <3>1, <2>1, FS_Subset
      <4>3. Cardinality(g[k]) >= k BY <3>1, <3>3, <2>3, <1>1
      <4>4. Cardinality(g[k]) \in Nat /\ Cardinality(g[k + 1]) \in Nat BY <3>1, <2>1
      <4>5. Cardinality(g[k + 1]) >= k + 1 BY <4>2, <4>3, <4>4
      <4> QED BY <4>5
    <3> QED BY <3>2, <3>3
  <2>4. Nat \subseteq Good
    <3>1. \A k \in Nat : k \in Good => k + 1 \in Good
      <4> HIDE DEF Closed
      <4> QED BY <2>3
    <3> HIDE DEF Good
    <3> QED BY <2>2, <3>1, NatSetInduction
  <2>5. N \in 0..N /\ N \in Good
    <3> HIDE DEF Good
    <3> QED BY <2>4, <1>1
  <2>6. CASE Cardinality(g[N]) >= N
    <3>1. g[N] \in SUBSET Node BY <1>7, <2>5
    <3>2. g[N] = Node
      BY <3>1, <2>6, <2>5, <2>1, <1>1, FS_Subset
    <3> QED BY <3>2, <1>2
  <2> QED BY <2>5, <2>6, <1>1
<1>9. \A k \in 0..N : start \subseteq g[k]
  <2> DEFINE Good == {k \in Nat : k <= N => start \subseteq g[k]}
  <2>1. 0 \in Good BY <1>7
  <2>2. ASSUME NEW k \in Nat, k \in Good PROVE k + 1 \in Good
    <3> SUFFICES ASSUME k + 1 <= N PROVE start \subseteq g[k + 1]
      OBVIOUS
    <3>1. k + 1 \in 1..N /\ (k + 1) - 1 = k /\ k <= N BY <1>1
    <3> QED BY <3>1, <1>7, <2>2
  <2>3. Nat \subseteq Good
    <3> HIDE DEF Good
    <3> QED BY <2>1, <2>2, NatSetInduction
  <2> QED BY <2>3, <1>1
<1>10. ASSUME NEW T, start \subseteq T, Follow(T) \subseteq T PROVE g[N] \subseteq T
  <2> DEFINE Good == {k \in Nat : k <= N => g[k] \subseteq T}
  <2>1. 0 \in Good BY <1>7, <1>10
  <2>2. ASSUME NEW k \in Nat, k \in Good PROVE k + 1 \in Good
    <3> SUFFICES ASSUME k + 1 <= N PROVE g[k + 1] \subseteq T
      OBVIOUS
    <3>1. k + 1 \in 1..N /\ (k + 1) - 1 = k /\ k <= N BY <1>1
    <3>2. g[k + 1] = g[k] \cup Follow(g[k]) /\ g[k] \subseteq T BY <3>1, <1>7, <2>2
    <3>3. Follow(g[k]) \subseteq Follow(T) BY <3>2, FollowFacts
    <3> QED BY <3>2, <3>3, <1>10
  <2>3. Nat \subseteq Good
    <3> HIDE DEF Good
    <3> QED BY <2>1, <2>2, NatSetInduction
  <2> QED BY <2>3, <1>1
<1>11. start = ToSet(Circuit.start) BY DEF start, Abstract!ToSet, ToSet
<1>12. N \in 0..N BY <1>1
<1> QED BY <1>6, <1>7, <1>8, <1>9, <1>10, <1>11, <1>12 DEF C

\* Writing the net of a node that another does not await changes nothing of
\* what that one is computed to be.
LEMMA OutcomeSteady ==
  ASSUME TypeOK, NEW n \in Node, NEW k, k \notin Inputs \cup Awaited(n), NEW v,
         UNCHANGED <<name, cycle, stored>>,
         ring' = ring \/ ring' = [ring EXCEPT ![k][Offset(cycle)] = v]
  PROVE  Outcome(n)' = Outcome(n)
<1> DEFINE kind == Circuit.kind[n]
<1>1. /\ Pins(n) \in Seq(Node \cup {Undriven})
      /\ kind = "MEMORY" => Len(Pins(n)) = 4
      /\ kind = "FF" => Len(Pins(n)) = 2
      /\ Circuit' = Circuit /\ Pins(n)' = Pins(n)
  BY CircuitFacts, CircuitSteady DEF TypeOK
<1>2. /\ cycle \in Nat /\ cycle - 1 \in Nat \cup {0 - 1}
      /\ Offset(cycle) \in 0..(WaveLength - 1) /\ Offset(cycle - 1) \in 0..(WaveLength - 1)
      /\ Offset(cycle) # Offset(cycle - 1)
  <2>1. cycle \in Nat /\ cycle - 1 \in Nat \cup {0 - 1} /\ (cycle - 1) + 1 = cycle
    BY SizeAssumption DEF TypeOK, NumCycles
  <2> QED BY <2>1, OffsetType
<1>3. \A d \in Node : ring'[d][Offset(cycle - 1)] = ring[d][Offset(cycle - 1)]
  <2> TAKE d \in Node
  <2>1. CASE ring' = ring BY <2>1
  <2>2. CASE ring' = [ring EXCEPT ![k][Offset(cycle)] = v] /\ d # k
    BY <2>2 DEF TypeOK
  <2>3. CASE ring' = [ring EXCEPT ![k][Offset(cycle)] = v] /\ d = k
    <3>1. ring \in [Node -> [0..(WaveLength - 1) -> Value]] BY DEF TypeOK
    <3>2. ring'[k] = [ring[k] EXCEPT ![Offset(cycle)] = v] BY <2>3, <3>1
    <3>3. ring[k] \in [0..(WaveLength - 1) -> Value] BY <3>1, <2>3
    <3> QED BY <3>2, <3>3, <1>2, <2>3
  <2> QED BY <2>1, <2>2, <2>3
<1>4. \A d \in Node \ {k} : ring'[d] = ring[d]
  BY DEF TypeOK
<1>5. \A d \in Node \cup {Undriven} : Read(n, d, cycle - 1)' = Read(n, d, cycle - 1)
  BY <1>1, <1>3 DEF Read
<1>6. \A i \in DOMAIN Pins(n) \ Abstract!EarlyPins(Circuit, n) :
        Read(n, Pins(n)[i], cycle)' = Read(n, Pins(n)[i], cycle)
  <2> TAKE i \in DOMAIN Pins(n) \ Abstract!EarlyPins(Circuit, n)
  <2>1. Pins(n)[i] \in Node \cup {Undriven} BY <1>1
  <2>2. Pins(n)[i] # Undriven => Pins(n)[i] # k BY <2>1 DEF Awaited
  <2> QED BY <2>1, <2>2, <1>1, <1>4 DEF Read
<1>7. kind = "INPUT" => Read(n, n, cycle)' = Read(n, n, cycle)
  <2> SUFFICES ASSUME kind = "INPUT" PROVE Read(n, n, cycle)' = Read(n, n, cycle)
    OBVIOUS
  <2>1. n # k BY DEF Inputs, OfKind
  <2> QED BY <2>1, <1>1, <1>4 DEF Read
<1>8. Read(n, n, cycle - 1)' = Read(n, n, cycle - 1) BY <1>5
<1>9. CASE kind = "INPUT" BY <1>9, <1>7, <1>1 DEF Outcome, ComputedFrom
<1>10. CASE kind = "CLOCK" BY <1>10, <1>1 DEF Outcome, ComputedFrom
<1>11. CASE kind = "FF"
  <2>0. Len(Pins(n)) = 2 /\ Pins(n) \in Seq(Node \cup {Undriven})
    BY <1>1, <1>11
  <2>1. Pins(n)[1] \in Node \cup {Undriven} /\ Pins(n)[2] \in Node \cup {Undriven}
    BY <2>0, ElementOfSeq
  <2>2. 2 \in DOMAIN Pins(n) \ Abstract!EarlyPins(Circuit, n)
    BY <1>1, <1>11 DEF Abstract!EarlyPins
  <2>3. FlipFlop(n)' = FlipFlop(n)
    BY <2>1, <2>2, <1>5, <1>6, <1>8, <1>1 DEF FlipFlop, IsPosedge
  <2> QED BY <2>3, <1>11, <1>1 DEF Outcome, ComputedFrom
<1>12. CASE kind = "MEMORY"
  <2>1. \A i \in 1..4 : i \in DOMAIN Pins(n) /\ Pins(n)[i] \in Node \cup {Undriven}
    BY <1>1, <1>12, ElementOfSeq, LenProperties
  <2>2. {1, 4} \subseteq DOMAIN Pins(n) \ Abstract!EarlyPins(Circuit, n)
    BY <2>1, <1>12 DEF Abstract!EarlyPins
  <2>3. MemoryWrite(n, stored[n])' = MemoryWrite(n, stored[n])
    BY <2>1, <2>2, <1>5, <1>6, <1>8, <1>1 DEF MemoryWrite, IsPosedge
  <2>4. MemoryRead(n, MemoryWrite(n, stored[n]))' = MemoryRead(n, MemoryWrite(n, stored[n]))
    BY <2>1, <2>2, <2>3, <1>6, <1>1 DEF MemoryRead
  <2> QED BY <2>3, <2>4, <1>12, <1>1 DEF Outcome, ComputedFrom
<1>13. CASE kind \notin {"INPUT", "CLOCK", "FF", "MEMORY"}
  <2>1. Abstract!EarlyPins(Circuit, n) = {} BY <1>13 DEF Abstract!EarlyPins
  <2>2. [i \in DOMAIN Pins(n) |-> Read(n, Pins(n)[i], cycle)]' = [i \in DOMAIN Pins(n) |-> Read(n, Pins(n)[i], cycle)]
    BY <2>1, <1>6, <1>1
  <2> QED BY <2>2, <1>13, <1>1, <1>8 DEF Outcome, ComputedFrom
<1> QED BY <1>9, <1>10, <1>11, <1>12, <1>13

LEMMA OutcomeSame ==
  ASSUME TypeOK, UNCHANGED <<name, cycle, stored, ring>>, NEW n \in Node
  PROVE  Outcome(n)' = Outcome(n)
<1>1. Undriven \notin Inputs \cup Awaited(n)
  BY CircuitFacts DEF TypeOK, Inputs, OfKind, Awaited
<1> QED BY <1>1, OutcomeSteady

LEMMA DoneNowNodes == TypeOK => DoneNow \subseteq ToSet(ordered) /\ ToSet(ordered) \subseteq Node
BY DEF DoneNow, TypeOK, ToSet

LEMMA InitVInv == Init => VInv
<1> SUFFICES ASSUME Init PROVE VInv
  OBVIOUS
<1>1. /\ cycle = 0 /\ phase = "vectors" /\ ordered = <<>> /\ inFlight = <<>> /\ stored = store
      /\ inFile = <<>> /\ outFile = <<>>
      /\ ring = [n \in Node |-> [i \in 0..(WaveLength - 1) |-> Circuit.initial[n]]]
  BY DEF Init
<1>2. WaveOnRing
  <2>1. 0 % WaveLength = 0
    BY WaveLengths
  <2>2. WaveLength \in Nat /\ WaveLength > 0 BY WaveLengths
  <2> QED BY <1>1, <2>1, <2>2 DEF WaveOnRing
<1>3. Untouched
  <2>1. Offset(0 - 1) \in 0..(WaveLength - 1) BY OffsetType
  <2> QED BY <1>1, <2>1 DEF Untouched
<1>4. ValuesInPlace /\ SearchComplete /\ Stamped
  BY <1>1 DEF ValuesInPlace, DoneNow, SearchComplete, Stamped
<1> QED BY <1>2, <1>3, <1>4 DEF VInv

LEMMA StutterVInv == IInv /\ VInv /\ UNCHANGED vars => VInv'
<1> SUFFICES ASSUME IInv, VInv, UNCHANGED vars PROVE VInv'
  OBVIOUS
<1>1. UNCHANGED <<name, cycle, phase, ring, stamp, store, queue, ordered, stages, stage,
                  pending, inFlight, inFile, outFile, stored>>
  BY DEF vars
<1>2. DoneNow' = DoneNow
  BY <1>1 DEF DoneNow
<1>3. WaveOnRing'
  BY <1>1, CircuitSteady DEF VInv, WaveOnRing
<1>4. Untouched'
  BY <1>1, CircuitSteady DEF VInv, Untouched
<1>5. ValuesInPlace'
  <2>1. \A n \in Node : Outcome(n)' = Outcome(n)
    BY <1>1, OutcomeSame DEF IInv
  <2>2. DoneNow \subseteq Node /\ DOMAIN inFlight \subseteq Node
    BY DoneNowNodes DEF IInv, TypeOK
  <2> QED BY <1>1, <1>2, <2>1, <2>2, CircuitSteady DEF VInv, ValuesInPlace
<1>6. SearchComplete'
  BY <1>1, CircuitSteady DEF VInv, SearchComplete, Abstract!ComputableIn, IsReady, NeededFor
<1>7. Stamped'
  BY <1>1, <1>2, CircuitSteady DEF VInv, Stamped
<1> QED BY <1>3, <1>4, <1>5, <1>6, <1>7 DEF VInv

LEMMA FileGrows ==
  ASSUME TypeOK, cycle < NumCycles, cycle % 2 = 0, Len(inFile) = cycle,
         NEW v \in [{c \in cycle..WaveEnd : c % 2 = 0} -> [Inputs -> InputValues]],
         inFile' = inFile \o [i \in 1..(WaveEnd - cycle + 1) |->
                                v[(cycle + i - 1) - ((cycle + i - 1) % 2)]]
  PROVE  /\ Len(inFile') = WaveEnd + 1
         /\ \A c \in 1..cycle : inFile'[c] = inFile[c]
         /\ \A c \in cycle..WaveEnd : inFile'[c + 1] = v[c - (c % 2)]
<1>1. cycle \in Nat /\ WaveEnd \in Nat /\ cycle <= WaveEnd
  BY WaveEndType DEF TypeOK
<1> DEFINE k    == WaveEnd - cycle + 1
           more == [i \in 1..k |-> v[(cycle + i - 1) - ((cycle + i - 1) % 2)]]
<1>2. \A c \in cycle..WaveEnd : v[c - (c % 2)] \in [Inputs -> InputValues]
  BY <1>1, VectorOf
<1>3. \A i \in 1..k : more[i] \in [Inputs -> InputValues]
  <2> TAKE i \in 1..k
  <2>1. cycle + i - 1 \in cycle..WaveEnd BY <1>1
  <2> QED BY <2>1, <1>2
<1>4. k \in Nat BY <1>1
<1>5. more \in Seq([Inputs -> InputValues]) /\ Len(more) = k
  <2> HIDE DEF k
  <2> QED BY <1>3, <1>4
<1>6. \A i \in 1..k : more[i] = v[(cycle + i - 1) - ((cycle + i - 1) % 2)]
  OBVIOUS
<1>7. inFile \in Seq([Inputs -> InputValues]) /\ inFile' = inFile \o more
  BY DEF TypeOK
<1> HIDE DEF more, k
<1>8. /\ Len(inFile') = cycle + k
      /\ \A c \in 1..(cycle + k) : inFile'[c] = IF c <= cycle THEN inFile[c] ELSE more[c - cycle]
  <2>1. /\ Len(inFile \o more) = Len(inFile) + Len(more)
        /\ \A c \in 1..(Len(inFile) + Len(more)) :
             (inFile \o more)[c] = IF c <= Len(inFile) THEN inFile[c] ELSE more[c - Len(inFile)]
    <3> DEFINE Vector == [Inputs -> InputValues]
    <3>1. inFile \in Seq(Vector) /\ more \in Seq(Vector)
      BY <1>5, <1>7
    <3> HIDE DEF Vector
    <3> QED BY <3>1, ConcatProperties
  <2> QED BY <2>1, <1>5, <1>7
<1>9. \A c \in 1..cycle : inFile'[c] = inFile[c]
  BY <1>8, <1>4, <1>1
<1>10. \A c \in cycle..WaveEnd : inFile'[c + 1] = v[c - (c % 2)]
  <2> TAKE c \in cycle..WaveEnd
  <2>1. c + 1 \in 1..(cycle + k) /\ ~(c + 1 <= cycle) /\ (c + 1) - cycle \in 1..k
    BY <1>1 DEF k
  <2>2. inFile'[c + 1] = more[(c + 1) - cycle] BY <2>1, <1>8
  <2>3. cycle + ((c + 1) - cycle) - 1 = c BY <1>1
  <2> QED BY <2>1, <2>2, <2>3, <1>6
<1>11. cycle + k = WaveEnd + 1 BY <1>1 DEF k
<1> QED BY <1>8, <1>9, <1>10, <1>11

LEMMA ReadVectorsVInv == IInv /\ VInv /\ ReadVectors => VInv'
<1> SUFFICES ASSUME IInv, VInv, ReadVectors PROVE VInv'
  OBVIOUS
<1>1. TypeOK /\ Control /\ Searched /\ Staging /\ phase = "vectors"
  BY DEF IInv, ReadVectors
<1>2. UNCHANGED <<name, cycle, store, ordered, stages, inFlight, outFile, stored>>
  BY DEF ReadVectors
<1>3. cycle \in Nat /\ cycle < NumCycles /\ cycle % 2 = 0 /\ cycle % WaveLength = 0
  <2>1. cycle \in Nat /\ cycle % WaveLength = 0 /\ cycle < NumCycles
    BY <1>1 DEF TypeOK, Control
  <2> QED BY <2>1, OffsetInWave
<1>4. Len(outFile) = cycle /\ Len(inFile) = cycle
  BY <1>1 DEF VInv, WaveOnRing
<1> DEFINE dom == {c \in cycle..WaveEnd : c % 2 = 0}
<1>5. PICK v \in [dom -> [Inputs -> InputValues]] :
        /\ ring' = [n \in Node |->
                      IF n \in Inputs
                      THEN [i \in 0..(WaveLength - 1) |->
                              IF cycle + i <= WaveEnd
                              THEN v[(cycle + i) - ((cycle + i) % 2)][n] ELSE ring[n][i]]
                      ELSE ring[n]]
        /\ inFile' = inFile \o [i \in 1..(WaveEnd - cycle + 1) |->
                                  v[(cycle + i - 1) - ((cycle + i - 1) % 2)]]
  BY DEF ReadVectors
<1>6. /\ WaveEnd \in Nat /\ cycle <= WaveEnd /\ WaveEnd <= NumCycles - 1
      /\ WaveEnd <= cycle + WaveLength - 1
      /\ WaveEnd = cycle + WaveLength - 1 \/ WaveEnd = NumCycles - 1
  BY <1>3, WaveEndType
<1>7. NumCycles \in Nat /\ WaveLength \in Nat
  BY SizeAssumption, WaveLengths DEF NumCycles
<1>8. /\ Len(inFile') = WaveEnd + 1
      /\ \A c \in 1..cycle : inFile'[c] = inFile[c]
      /\ \A c \in cycle..WaveEnd : inFile'[c + 1] = v[c - (c % 2)]
  BY <1>1, <1>3, <1>4, <1>5, FileGrows
<1>9. WaveOnRing'
  <2>1. phase' \in {"first", "stage"}
    BY DEF ReadVectors
  <2>2. ASSUME NEW d \in Inputs, NEW c \in cycle..WaveEnd
        PROVE  ring'[d][Offset(c)] = inFile'[c + 1][d]
    <3> DEFINE i == c - cycle
    <3>1. i \in 0..(WaveLength - 1) /\ cycle + i = c /\ cycle + i <= WaveEnd
      BY <1>3, <1>6, <1>7
    <3>2. Offset(c) = i
      BY <3>1, <1>3, OffsetInWave
    <3>3. d \in Node BY DEF Inputs, OfKind
    <3>4. ring'[d][i] = v[c - (c % 2)][d]
      <4> HIDE DEF i
      <4> QED BY <3>1, <3>3, <1>5
    <3> QED BY <3>2, <3>4, <1>8
  <2>3. ASSUME NEW c \in 1..WaveEnd, c % 2 = 1 PROVE inFile'[c + 1] = inFile'[c]
    <3>1. CASE c < cycle
      <4>1. inFile[c + 1] = inFile[c]
        BY <2>3, <3>1, <1>3, <1>4 DEF VInv, WaveOnRing
      <4> QED BY <4>1, <3>1, <1>3, <1>8
    <3>2. CASE c > cycle
      <4>1. c - 1 \in cycle..WaveEnd /\ c \in cycle..WaveEnd /\ (c - 1) % 2 = 0 /\ (c - 1) + 1 = c
        BY <2>3, <3>2, <1>3, <1>6
      <4>2. inFile'[c + 1] = v[c - 1] /\ inFile'[c] = v[c - 1]
        <5>1. c - (c % 2) = c - 1 /\ (c - 1) - ((c - 1) % 2) = c - 1 BY <4>1, <2>3
        <5>2. inFile'[c + 1] = v[c - (c % 2)] BY <4>1, <1>8
        <5>3. inFile'[(c - 1) + 1] = v[(c - 1) - ((c - 1) % 2)] BY <4>1, <1>8
        <5> QED BY <5>1, <5>2, <5>3, <4>1
      <4> QED BY <4>2
    <3> QED BY <3>1, <3>2, <2>3, <1>3
  <2> QED BY <1>2, <1>3, <1>4, <1>6, <1>7, <1>8, <2>1, <2>2, <2>3, CircuitSteady DEF WaveOnRing
<1>10. DoneNow = {} /\ DoneNow' = {} /\ DOMAIN inFlight = {}
  <2>1. DoneNow = {} /\ DOMAIN inFlight = {} BY <1>1 DEF DoneNow, Control
  <2>2. CASE cycle = 0
    <3>1. phase' = "first" /\ ordered = <<>> BY <2>2, <1>1 DEF ReadVectors, Searched
    <3> QED BY <3>1, <2>1, <1>2 DEF DoneNow, ToSet
  <2>3. CASE cycle # 0
    <3>1. phase' = "stage" /\ stage' = 1 /\ pending' = ToSet(stages[1])
      BY <2>3 DEF ReadVectors
    <3> QED BY <3>1, <2>1, <1>2 DEF DoneNow
  <2> QED BY <2>2, <2>3
<1>11. Untouched'
  <2>1. \A n \in Node \ Inputs : ring'[n] = ring[n] BY <1>5
  <2> QED BY <2>1, <1>2, CircuitSteady DEF VInv, Untouched
<1>12. ValuesInPlace'
  BY <1>1, <1>2, <1>10, CircuitSteady DEF VInv, ValuesInPlace
<1>13. SearchComplete'
  <2>1. Abstract!ComputableIn[name]' = Abstract!ComputableIn[name] /\ ToSet(ordered)' = ToSet(ordered)
    BY <1>2 DEF Abstract!ComputableIn
  <2>2. ASSUME phase' = "first"
        PROVE  /\ ToSet(Circuit.start) \subseteq ToSet(queue')
               /\ ToSet(queue') \subseteq Abstract!ComputableIn[name]
               /\ ToSet(ordered) = {}
    <3>1. queue' = Circuit.start /\ cycle = 0 BY <2>2 DEF ReadVectors
    <3>2. ToSet(ordered) = {} BY <3>1, <1>1 DEF Searched, ToSet
    <3>3. ToSet(Circuit.start) \subseteq Abstract!ComputableIn[name]
      BY <1>1, ComputableFacts DEF TypeOK
    <3> QED BY <3>1, <3>2, <3>3
  <2> HIDE DEF dom
  <2> QED BY <1>2, <2>1, <2>2, CircuitSteady DEF VInv, SearchComplete
<1>14. Stamped'
  <2>1. stamp' = [n \in Node |-> IF n \in Inputs THEN WaveEnd ELSE stamp[n]]
    BY DEF ReadVectors
  <2>2. Inputs \subseteq Node BY DEF Inputs, OfKind
  <2>3. ToSet(ordered) \subseteq Node BY <1>1 DEF TypeOK, ToSet
  <2>4. \A n \in Inputs : stamp'[n] = Len(inFile') - 1
    BY <2>1, <2>2, <1>8, <1>6
  <2>5. \A n \in ToSet(ordered) \ Inputs : stamp'[n] = stamp[n]
    BY <2>1, <2>3
  <2>6. cycle > 0 => \A n \in ToSet(ordered) \ Inputs : stamp[n] >= cycle - 1
    BY <1>1 DEF VInv, Stamped
  <2> QED BY <2>4, <2>5, <2>6, <1>2, <1>10, CircuitSteady DEF Stamped
<1> QED BY <1>9, <1>11, <1>12, <1>13, <1>14 DEF VInv

LEMMA SimulateFirstVInv == IInv /\ VInv /\ SimulateFirst => VInv'
<1> SUFFICES ASSUME IInv, VInv, SimulateFirst PROVE VInv'
  OBVIOUS
<1> DEFINE n    == Head(queue)
           kids == {m \in Children(n) \ ToSet(queue) : IsReady(m, stamp') /\ stamp'[m] < cycle}
           C    == Abstract!ComputableIn[name]
<1>1. TypeOK /\ Control /\ Searched /\ phase = "first" /\ queue # <<>> /\ cycle = 0
  BY DEF IInv, SimulateFirst, Control
<1>2. UNCHANGED <<name, cycle, phase, stages, stage, pending, inFlight, inFile, outFile, stored>>
  BY DEF SimulateFirst
<1>3. PICK order \in SetToSeqs(kids) :
        /\ Store(n, Computed(n))
        /\ ordered' = Append(ordered, n)
        /\ queue' = Tail(queue) \o order
  BY DEF SimulateFirst
<1>4. /\ n \in Node /\ Tail(queue) \in Seq(Node) /\ ToSet(queue) = {n} \cup ToSet(Tail(queue))
      /\ n \notin ToSet(ordered) /\ Awaited(n) \subseteq ToSet(ordered)
  <2>1. queue \in Seq(Node) /\ queue # <<>>
    BY <1>1 DEF TypeOK
  <2>2. n \in Node /\ Tail(queue) \in Seq(Node) /\ ToSet(queue) = {n} \cup ToSet(Tail(queue))
    BY <2>1, TailDistinct
  <2> QED BY <2>2, <1>1 DEF Searched
<1>5. ToSet(ordered') = ToSet(ordered) \cup {n}
  BY <1>1, <1>3, <1>4, AppendDistinct DEF TypeOK
<1>6. ToSet(queue') = ToSet(Tail(queue)) \cup kids
  <2>1. kids \subseteq Node /\ IsFiniteSet(Node)
    BY <1>1, CircuitFacts DEF Children, TypeOK
  <2>2. IsFiniteSet(kids) /\ kids \cap ToSet(queue) = {}
    BY <2>1, FS_Subset
  <2> DEFINE t == Tail(queue)
  <2>3. /\ t \in Seq(Node) /\ IsInjective(t) /\ ToSet(t) \subseteq ToSet(queue)
        /\ queue' = t \o order
    BY <1>1, <1>3, TailDistinct DEF TypeOK, Searched
  <2> HIDE DEF kids, t
  <2>4. order \in Seq(kids) /\ IsInjective(order) /\ ToSet(order) = kids
    BY <2>2, SetToSeqsFacts
  <2>5. order \in Seq(Node)
    BY <2>1, <2>4, SeqMonotonic
  <2>6. ToSet(t \o order) = ToSet(t) \cup ToSet(order)
    BY <2>2, <2>3, <2>4, <2>5, ConcatDistinct
  <2> QED BY <2>3, <2>4, <2>6 DEF t
<1>7. /\ ring' = IF n \in Inputs THEN ring ELSE [ring EXCEPT ![n][Offset(cycle)] = Computed(n).value]
      /\ \A m \in Node : stamp'[m] = IF m = n /\ n \notin Inputs THEN 0 ELSE stamp[m]
      /\ \A m \in Memories : store'[m] = IF m = n THEN Computed(n).store ELSE store[m]
  BY <1>1, <1>3, <1>4 DEF Store, TypeOK
<1>8. \A m \in Node : stamp'[m] >= 0 <=> m \in ToSet(ordered') \cup Inputs
  <2>1. \A m \in Node : stamp[m] >= 0 <=> m \in ToSet(ordered) \cup Inputs
    BY <1>1 DEF Searched
  <2> HIDE DEF n
  <2> QED BY <2>1, <1>4, <1>5, <1>7
<1>9. DoneNow = ToSet(ordered) /\ DoneNow' = ToSet(ordered) \cup {n} /\ DOMAIN inFlight = {}
  BY <1>1, <1>2, <1>5 DEF DoneNow, Control
<1> HIDE DEF n, kids
<1>10. WaveOnRing'
  <2>1. \A d \in Inputs : ring'[d] = ring[d]
    BY <1>1, <1>7 DEF TypeOK, Inputs, OfKind
  <2> QED BY <2>1, <1>2, CircuitSteady DEF VInv, WaveOnRing
<1>11. Untouched'
  <2>1. \A m \in Node \ {n} : ring'[m] = ring[m]
    BY <1>1, <1>7 DEF TypeOK
  <2>2. Offset(0) # Offset(0 - 1) /\ Offset(0 - 1) \in 0..(WaveLength - 1)
    BY OffsetType
  <2>3. \A m \in Node : ring'[m][Offset(0 - 1)] = ring[m][Offset(0 - 1)]
    <3> SUFFICES ASSUME n \notin Inputs PROVE ring'[n][Offset(0 - 1)] = ring[n][Offset(0 - 1)]
      BY <2>1, <1>7
    <3>1. ring \in [Node -> [0..(WaveLength - 1) -> Value]] BY <1>1 DEF TypeOK
    <3>2. ring'[n] = [ring[n] EXCEPT ![Offset(0)] = Computed(n).value]
      BY <1>1, <1>7, <1>4, <3>1
    <3> QED BY <3>1, <3>2, <2>2, <1>4
  <2>4. \A m \in Node : m \notin ToSet(ordered') \cup Inputs =>
          ring'[m] = [i \in 0..(WaveLength - 1) |-> Circuit.initial[m]]
    <3> TAKE m \in Node
    <3> HAVE m \notin ToSet(ordered') \cup Inputs
    <3>1. ring[m] = [i \in 0..(WaveLength - 1) |-> Circuit.initial[m]]
      BY <1>5 DEF VInv, Untouched
    <3> QED BY <3>1, <2>1, <1>5
  <2>5. \A m \in Node \ Inputs : ring'[m][Offset(0 - 1)] = Circuit.initial[m]
    BY <2>3, <1>1 DEF VInv, Untouched
  <2> QED BY <2>4, <2>5, <1>2, CircuitSteady DEF Untouched
<1>12. ValuesInPlace'
  <2>1. \A m \in ToSet(ordered) \cup {n} : m \in Node /\ n \notin Awaited(m)
    <3> SUFFICES ASSUME NEW m \in ToSet(ordered) PROVE m \in Node /\ n \notin Awaited(m)
      BY <1>4
    <3>1. PICK i \in DOMAIN ordered : ordered[i] = m BY DEF ToSet
    <3>2. i \in 1..Len(ordered) /\ DOMAIN ordered = 1..Len(ordered) /\ Len(ordered) \in Nat /\ m \in Node
      BY <1>1, <3>1, LenProperties DEF TypeOK
    <3>3. ASSUME n \in Awaited(m) PROVE FALSE
      <4>1. PICK j \in 1..(i - 1) : ordered[j] = n
        BY <1>1, <3>1, <3>2, <3>3 DEF Searched, InOrder
      <4>2. j \in DOMAIN ordered BY <3>2
      <4> QED BY <4>1, <4>2, <1>4 DEF ToSet
    <3> QED BY <3>2, <3>3
  <2>2. \A m \in ToSet(ordered) \cup {n} : Outcome(m)' = Outcome(m)
    <3> TAKE m \in ToSet(ordered) \cup {n}
    <3>1. CASE n \in Inputs
      BY <3>1, <2>1, <1>1, <1>2, <1>7, OutcomeSame
    <3>2. CASE n \notin Inputs
      BY <3>2, <2>1, <1>1, <1>2, <1>7, OutcomeSteady
    <3> QED BY <3>1, <3>2
  <2>3. \A m \in Memories \ ToSet(ordered) : store[m] = stored[m]
    BY <1>1, <1>9 DEF VInv, ValuesInPlace
  <2>4. Computed(n) = Outcome(n)
    <3>1. CASE n \in Memories BY <3>1, <2>3, <1>4 DEF Computed, Outcome
    <3>2. CASE n \notin Memories
      BY <3>2, <1>4 DEF Computed, Outcome, ComputedFrom, Memories, OfKind
    <3> QED BY <3>1, <3>2
  <2>5. ASSUME NEW m \in (ToSet(ordered) \cup {n}) \ Inputs
        PROVE  /\ ring'[m][Offset(cycle)] = Outcome(m).value
               /\ m \in Memories => store'[m] = Outcome(m).store
    <3>1. CASE m = n
      <4>1. ring'[n][Offset(cycle)] = Computed(n).value
        <5>1. Offset(cycle) \in 0..(WaveLength - 1) BY <1>1, OffsetType
        <5> QED BY <5>1, <1>1, <1>7, <1>4, <3>1, <2>5 DEF TypeOK
      <4> QED BY <4>1, <3>1, <2>4, <1>7
    <3>2. CASE m # n
      <4>1. ring'[m] = ring[m] BY <3>2, <1>1, <1>7, <2>1 DEF TypeOK
      <4>2. m \in ToSet(ordered) BY <3>2
      <4>3. /\ ring[m][Offset(cycle)] = Outcome(m).value
            /\ m \in Memories => store[m] = Outcome(m).store
        BY <4>2, <2>5, <1>9 DEF VInv, ValuesInPlace
      <4> QED BY <4>1, <4>3, <3>2, <1>7
    <3> QED BY <3>1, <3>2
  <2>6. \A m \in Memories \ (ToSet(ordered) \cup {n}) : store'[m] = stored[m]
    BY <2>3, <1>7
  <2> HIDE DEF C
  <2> QED BY <2>2, <2>5, <2>6, <1>1, <1>2, <1>9, CircuitSteady DEF ValuesInPlace
<1>13. SearchComplete'
  <2>1. C \in SUBSET Node /\ Follow(C) \subseteq C /\ Inputs \subseteq ToSet(Circuit.start)
    BY <1>1, ComputableFacts, CircuitFacts DEF TypeOK
  <2>2. /\ ToSet(Circuit.start) \subseteq ToSet(ordered) \cup ToSet(queue)
        /\ ToSet(ordered) \cup ToSet(queue) \subseteq C
        /\ \A m \in Node : Drivers(m) \cap ToSet(ordered) # {} /\ IsReady(m, stamp)
                             => m \in ToSet(ordered) \cup ToSet(queue)
    BY <1>1 DEF VInv, SearchComplete
  <2> HIDE DEF C
  <2>3. ToSet(Circuit.start) \subseteq ToSet(ordered') \cup ToSet(queue')
    BY <2>2, <1>4, <1>5, <1>6
  <2>4. kids \subseteq C
    <3> SUFFICES ASSUME NEW m \in kids PROVE m \in Follow(C)
      BY <2>1
    <3>1. m \in Node /\ n \in Drivers(m) /\ IsReady(m, stamp') BY DEF kids, Children
    <3>2. Drivers(m) \cap C # {} BY <3>1, <2>2, <1>4
    <3>3. ASSUME NEW i \in DOMAIN Pins(m) \ Abstract!EarlyPins(Circuit, m), Pins(m)[i] # Undriven
          PROVE  Pins(m)[i] \in C
      <4>1. NeededFor(m, i) = 0
        BY <1>1, <3>3 DEF NeededFor, Abstract!EarlyPins
      <4>2. stamp'[Pins(m)[i]] >= 0 BY <4>1, <3>1, <3>3 DEF IsReady
      <4>3. Pins(m)[i] \in Node
        <5>1. Pins(m) \in Seq(Node \cup {Undriven})
          BY <3>1, <1>1, CircuitFacts DEF TypeOK
        <5>2. i \in 1..Len(Pins(m)) BY <5>1, <3>3, LenProperties
        <5> QED BY <5>1, <5>2, <3>3, ElementOfSeq
      <4>4. Pins(m)[i] \in ToSet(ordered') \cup Inputs BY <4>2, <4>3, <1>8
      <4> QED BY <4>4, <2>1, <2>2, <1>4, <1>5
    <3>4. Late(m) \subseteq C \cup {Undriven} BY <3>3 DEF Late
    <3> QED BY <3>1, <3>2, <3>4, FollowFacts
  <2>5. ASSUME NEW m \in Node, Drivers(m) \cap ToSet(ordered') # {}, IsReady(m, stamp'),
               m \notin ToSet(ordered') \cup ToSet(queue')
        PROVE  FALSE
    <3>1. m \notin ToSet(ordered) \cup ToSet(queue) BY <2>5, <1>4, <1>5, <1>6
    <3>2. CASE n \in Drivers(m)
      <4>1. ~(stamp'[m] < cycle)
        BY <2>5, <3>1, <3>2, <1>6 DEF kids, Children
      <4>2. stamp'[m] >= 0
        <5>1. stamp'[m] \in Int BY <1>7, <1>1 DEF TypeOK
        <5> QED BY <5>1, <4>1, <1>1
      <4>3. m \in Inputs BY <4>2, <1>8, <2>5
      <4> QED BY <4>3, <2>1, <2>2, <3>1
    <3>3. CASE n \notin Drivers(m)
      <4>1. Drivers(m) \cap ToSet(ordered) # {} BY <2>5, <3>3, <1>5
      <4>2. IsReady(m, stamp)
        <5> SUFFICES ASSUME NEW i \in DOMAIN Pins(m), Pins(m)[i] # Undriven
                     PROVE  stamp[Pins(m)[i]] >= NeededFor(m, i)
          BY DEF IsReady
        <5>1. Pins(m)[i] \in Drivers(m) BY DEF Drivers, ToSet
        <5>2. Pins(m)[i] \in Node
          <6>1. Pins(m) \in Seq(Node \cup {Undriven})
            BY <1>1, CircuitFacts DEF TypeOK
          <6>2. i \in 1..Len(Pins(m)) BY <6>1, LenProperties
          <6> QED BY <6>1, <6>2, ElementOfSeq
        <5>3. stamp'[Pins(m)[i]] = stamp[Pins(m)[i]] BY <5>1, <5>2, <3>3, <1>7
        <5>4. stamp'[Pins(m)[i]] >= NeededFor(m, i) BY <2>5 DEF IsReady
        <5> QED BY <5>3, <5>4
      <4> QED BY <4>1, <4>2, <3>1, <2>2
    <3> QED BY <3>2, <3>3
  <2>6. ToSet(ordered') \cup ToSet(queue') \subseteq C
    BY <2>2, <2>4, <1>4, <1>5, <1>6
  <2>7. C' = C
    BY <1>2 DEF C, Abstract!ComputableIn
  <2>8. \A m \in Node : IsReady(m, stamp)' <=> IsReady(m, stamp')
    BY <1>2, CircuitSteady DEF IsReady, NeededFor
  <2>9. \A m \in Node : Drivers(m) \cap ToSet(ordered') # {} /\ IsReady(m, stamp')
                          => m \in ToSet(ordered') \cup ToSet(queue')
    BY <2>5
  <2>10. cycle' = 0 /\ ToSet(ordered)' = ToSet(ordered') /\ ToSet(queue)' = ToSet(queue')
    BY <1>1, <1>2
  <2> QED BY <2>3, <2>6, <2>7, <2>8, <2>9, <2>10, <1>2, CircuitSteady DEF SearchComplete, C
<1>14. Stamped'
  <2>1. Inputs \subseteq Node /\ ToSet(ordered) \subseteq Node
    BY <1>1 DEF TypeOK, Inputs, OfKind, ToSet
  <2> QED BY <2>1, <1>1, <1>2, <1>4, <1>7, <1>9, CircuitSteady DEF VInv, Stamped
<1> QED BY <1>10, <1>11, <1>12, <1>13, <1>14 DEF VInv

\* All nodes ordered, which are all that can be, have been computed, and the
\* cycle ends.
CycleEnds ==
  /\ IInv /\ VInv /\ phase \in {"first", "stage"} /\ DOMAIN inFlight = {}
  /\ DoneNow = ToSet(ordered) /\ ToSet(ordered) = Abstract!ComputableIn[name]
  /\ stages' \in NonEmptyStages /\ EndCycle(stages')
  /\ UNCHANGED <<name, ring, stamp, store, queue, ordered, inFlight, inFile>>

LEMMA EndCycleVInv == CycleEnds => VInv'
<1> SUFFICES ASSUME CycleEnds PROVE VInv'
  OBVIOUS
<1> USE DEF CycleEnds
<1> DEFINE st == stages'
<1>1. TypeOK /\ Control /\ Len(outFile) \in Nat /\ Len(inFile) \in Nat
  BY LenProperties DEF IInv, TypeOK
<1>2. /\ cycle \in Nat /\ cycle < NumCycles /\ NumCycles \in Nat /\ NumCycles > 1
      /\ WaveLength \in Nat
  BY <1>1, SizeAssumption, WaveLengths DEF Control, TypeOK, NumCycles
<1>3. /\ cycle' = cycle + 1 /\ stored' = store /\ phase' \in {"vectors", "stage", "done"}
      /\ phase' = "stage" => stage' = 1 /\ pending' = ToSet(st[1])
  BY <1>1, <1>2, EndCycleType
<1>4. /\ Len(outFile) % WaveLength = 0
      /\ cycle \in Len(outFile)..(Len(outFile) + WaveLength - 1)
      /\ \/ Len(inFile) = Len(outFile) + WaveLength
         \/ Len(inFile) = NumCycles /\ NumCycles <= Len(outFile) + WaveLength
      /\ \A d \in Inputs, c \in Len(outFile)..(Len(inFile) - 1) :
           ring[d][Offset(c)] = inFile[c + 1][d]
      /\ \A c \in 1..(Len(inFile) - 1) : c % 2 = 1 => inFile[c + 1] = inFile[c]
  BY DEF VInv, WaveOnRing
<1>5. (cycle + 1) % WaveLength = 0 <=> cycle + 1 = Len(outFile) + WaveLength
  <2>1. (cycle + 1) - Len(outFile) \in 1..WaveLength
    BY <1>1, <1>2, <1>4
  <2>2. Len(outFile) + ((cycle + 1) - Len(outFile)) = cycle + 1
    BY <1>1, <1>2
  <2>3. \A i \in 1..WaveLength : (Len(outFile) + i) % WaveLength = 0 <=> i = WaveLength
    BY <1>1, <1>4, OffsetInWave
  <2>4. (cycle + 1) % WaveLength = 0 <=> (cycle + 1) - Len(outFile) = WaveLength
    BY <2>1, <2>2, <2>3
  <2> QED BY <2>4, <1>1, <1>2
<1>6. WaveOnRing'
  <2>1. CASE phase' = "vectors"
    <3>1. /\ cycle + 1 # NumCycles /\ (cycle + 1) % WaveLength = 0
          /\ outFile' = outFile \o OutputVectors(Len(outFile), cycle + 1)
      BY <2>1 DEF EndCycle
    <3>2. Len(outFile') = cycle + 1
      <4> DEFINE more == OutputVectors(Len(outFile), cycle + 1)
      <4>1. more \in Seq([Outputs -> Value]) /\ Len(more) = (cycle + 1) - Len(outFile)
        <5>1. cycle + 1 \in Nat /\ Len(outFile) <= cycle + 1 BY <1>1, <1>2, <1>4
        <5> QED BY <5>1, <1>1, OutputVectorsType
      <4>2. outFile \in Seq([Outputs -> Value]) BY <1>1 DEF TypeOK
      <4> HIDE DEF more
      <4>3. Len(outFile \o more) = Len(outFile) + Len(more) BY <4>1, <4>2, ConcatProperties
      <4> QED BY <3>1, <4>1, <4>3, <1>1, <1>2 DEF more
    <3>3. Len(inFile) = cycle + 1
      BY <1>1, <1>2, <1>4, <1>5, <3>1
    <3>4. cycle' % WaveLength = 0 /\ cycle' \in cycle'..(cycle' + WaveLength - 1)
      BY <3>1, <1>2, <1>3, WaveLengths
    <3> QED BY <2>1, <3>2, <3>3, <3>4, <1>3, <1>4 DEF WaveOnRing
  <2>2. CASE phase' = "stage"
    <3>1. (cycle + 1) % WaveLength # 0 /\ outFile' = outFile
      BY <2>2 DEF EndCycle
    <3>2. cycle' \in Len(outFile)..(Len(outFile) + WaveLength - 1)
      BY <3>1, <1>1, <1>2, <1>3, <1>4, <1>5
    <3> QED BY <2>2, <3>1, <3>2, <1>4, CircuitSteady DEF WaveOnRing
  <2>3. CASE phase' = "done"
    BY <2>3, <1>4 DEF WaveOnRing
  <2> QED BY <2>1, <2>2, <2>3, <1>3
<1>7. Untouched'
  <2>1. cycle' # 0 BY <1>2, <1>3
  <2>2. \A n \in Node : n \notin ToSet(ordered) \cup Inputs =>
          ring'[n] = [i \in 0..(WaveLength - 1) |-> Circuit.initial[n]]
    BY DEF VInv, Untouched
  <2> QED BY <2>1, <2>2, CircuitSteady DEF Untouched
<1>8. DoneNow' = {}
  BY <1>3 DEF DoneNow
<1>9. ValuesInPlace'
  BY <1>3, <1>8 DEF ValuesInPlace
<1>10. SearchComplete'
  BY <1>3 DEF SearchComplete, Abstract!ComputableIn
<1>11. Stamped'
  <2>1. \A n \in Inputs : stamp[n] = Len(inFile) - 1
    BY DEF VInv, Stamped
  <2>2. \A n \in ToSet(ordered) \ Inputs : stamp[n] = cycle
    BY DEF VInv, Stamped
  <2>3. \A n \in ToSet(ordered) \ Inputs : stamp[n] >= cycle' - 1
    BY <2>2, <1>2, <1>3
  <2> QED BY <2>1, <2>3, <1>8, <1>3, CircuitSteady DEF Stamped
<1> QED BY <1>6, <1>7, <1>9, <1>10, <1>11 DEF VInv

LEMMA OrganiseStagesEnds == IInv /\ VInv /\ OrganiseStages => CycleEnds
<1> SUFFICES ASSUME IInv, VInv, OrganiseStages PROVE CycleEnds
  OBVIOUS
<1> DEFINE T == ToSet(ordered)
           C == Abstract!ComputableIn[name]
<1>1. /\ TypeOK /\ Control /\ Searched /\ phase = "first" /\ cycle = 0 /\ ToSet(queue) = {}
      /\ DOMAIN inFlight = {}
  BY DEF IInv, OrganiseStages, Control, ToSet
<1>2. /\ ToSet(Circuit.start) \subseteq T /\ T \subseteq C
      /\ \A m \in Node : Drivers(m) \cap T # {} /\ IsReady(m, stamp) => m \in T
  BY <1>1 DEF VInv, SearchComplete
<1>3. Inputs \subseteq T
  BY <1>1, <1>2, CircuitFacts DEF TypeOK
<1>4. \A m \in Node : stamp[m] >= 0 <=> m \in T
  BY <1>1, <1>3 DEF Searched
<1>5. Follow(T) \subseteq T
  <2> SUFFICES ASSUME NEW m \in Node, Drivers(m) \cap T # {}, Late(m) \subseteq T \cup {Undriven}
               PROVE  IsReady(m, stamp)
    BY <1>2, FollowFacts
  <2> SUFFICES ASSUME NEW i \in DOMAIN Pins(m), Pins(m)[i] # Undriven
               PROVE  stamp[Pins(m)[i]] >= NeededFor(m, i)
    BY DEF IsReady
  <2>1. Pins(m)[i] \in Node
    <3>1. Pins(m) \in Seq(Node \cup {Undriven})
      BY <1>1, CircuitFacts DEF TypeOK
    <3>2. i \in 1..Len(Pins(m)) BY <3>1, LenProperties
    <3> QED BY <3>1, <3>2, ElementOfSeq
  <2>2. CASE i \in Abstract!EarlyPins(Circuit, m)
    <3>1. NeededFor(m, i) = 0 - 1
      BY <2>2, <1>1 DEF NeededFor, Abstract!EarlyPins
    <3>2. stamp[Pins(m)[i]] \in -1..(NumCycles - 1)
      BY <2>1, <1>1 DEF TypeOK
    <3> QED BY <3>1, <3>2, SizeAssumption DEF NumCycles
  <2>3. CASE i \notin Abstract!EarlyPins(Circuit, m)
    <3>1. NeededFor(m, i) = 0
      BY <2>3, <1>1 DEF NeededFor, Abstract!EarlyPins
    <3>2. Pins(m)[i] \in T
      BY <2>3 DEF Late
    <3> QED BY <3>1, <3>2, <2>1, <1>4
  <2> QED BY <2>2, <2>3
<1>6. C \subseteq T
  <2>1. \A S : ToSet(Circuit.start) \subseteq S /\ Follow(S) \subseteq S => C \subseteq S
    BY <1>1, ComputableFacts DEF TypeOK
  <2> HIDE DEF T, C
  <2> QED BY <2>1, <1>2, <1>5
<1>7. DoneNow = T
  BY <1>1 DEF DoneNow
<1>8. stages' \in NonEmptyStages /\ EndCycle(stages')
  BY <1>1, StageOrderedGood DEF OrganiseStages, TypeOK, Searched
<1>9. UNCHANGED <<name, ring, stamp, store, queue, ordered, inFlight, inFile>>
  BY DEF OrganiseStages
<1>10. T = C BY <1>2, <1>6
<1> QED BY <1>1, <1>7, <1>8, <1>9, <1>10 DEF CycleEnds

LEMMA NextCycleEnds == IInv /\ VInv /\ NextCycle => CycleEnds
<1> SUFFICES ASSUME IInv, VInv, NextCycle PROVE CycleEnds
  OBVIOUS
<1>1. /\ phase = "stage" /\ pending = {} /\ DOMAIN inFlight = {} /\ stage = Len(stages)
      /\ EndCycle(stages)
      /\ UNCHANGED <<name, ring, stamp, store, queue, ordered, stages, inFlight, inFile>>
  BY DEF NextCycle, StageOver
<1>2. cycle > 0 /\ stages \in NonEmptyStages /\ StagesOf(stages, ToSet(ordered))
  BY <1>1 DEF IInv, Control, Staging
<1>3. DoneNow = ToSet(ordered)
  <2>1. DOMAIN stages = 1..stage
    BY <1>1, <1>2, LenProperties DEF NonEmptyStages
  <2>2. \A n \in ToSet(ordered) : \E s \in 1..stage : n \in ToSet(stages[s])
    BY <1>2, <2>1 DEF StagesOf, Cover
  <2> QED BY <1>1, <2>2 DEF DoneNow
<1>4. ToSet(ordered) = Abstract!ComputableIn[name]
  BY <1>2 DEF VInv, SearchComplete
<1> QED BY <1>1, <1>2, <1>3, <1>4 DEF CycleEnds

\* A stage that begins has nothing done yet.
LEMMA NextStageVInv == IInv /\ VInv /\ NextStage => VInv'
<1> SUFFICES ASSUME IInv, VInv, NextStage PROVE VInv'
  OBVIOUS
<1>1. /\ TypeOK /\ phase = "stage" /\ pending = {} /\ DOMAIN inFlight = {}
      /\ stage + 1 \in DOMAIN stages /\ stage \in Nat
      /\ stage' = stage + 1 /\ pending' = ToSet(stages[stage + 1])
      /\ UNCHANGED <<name, cycle, phase, ring, stamp, store, queue, ordered, stages,
                     inFlight, inFile, outFile, stored>>
  <2>1. TypeOK /\ phase = "stage" /\ pending = {} /\ DOMAIN inFlight = {} /\ stage < Len(stages)
    BY DEF IInv, NextStage, StageOver
  <2>2. stage \in 1..Len(stages) /\ DOMAIN stages = 1..Len(stages) /\ Len(stages) \in Nat
    BY <2>1, LenProperties DEF TypeOK
  <2> QED BY <2>1, <2>2 DEF NextStage
<1>2. StagesOf(stages, ToSet(ordered))
  BY <1>1 DEF IInv, Control, Staging
<1>3. DoneNow' = DoneNow
  <2>1. \A n \in ToSet(ordered) :
          (\E s \in 1..stage : n \in ToSet(stages[s]))
            <=> /\ \E s \in 1..(stage + 1) : n \in ToSet(stages[s])
                /\ n \notin ToSet(stages[stage + 1])
    <3> TAKE n \in ToSet(ordered)
    <3>1. ASSUME NEW s \in 1..stage, n \in ToSet(stages[s]), n \in ToSet(stages[stage + 1])
          PROVE  FALSE
      <4>1. stages \in Seq(Seq(Node)) BY <1>1 DEF TypeOK
      <4>2. s \in DOMAIN stages /\ s # stage + 1
        BY <3>1, <4>1, <1>1, LenProperties
      <4> QED BY <4>2, <3>1, <1>1, <1>2 DEF StagesOf, Once
    <3>2. ASSUME NEW s \in 1..(stage + 1), n \in ToSet(stages[s]), n \notin ToSet(stages[stage + 1])
          PROVE  s \in 1..stage
      BY <3>2, <1>1
    <3>3. 1..stage \subseteq 1..(stage + 1) BY <1>1
    <3> QED BY <3>1, <3>2, <3>3
  <2>2. DoneNow = {n \in ToSet(ordered) : \E s \in 1..stage : n \in ToSet(stages[s])}
    BY <1>1 DEF DoneNow
  <2>3. DoneNow' = {n \in ToSet(ordered) :
                      /\ \E s \in 1..(stage + 1) : n \in ToSet(stages[s])
                      /\ n \notin ToSet(stages[stage + 1])}
    BY <1>1 DEF DoneNow
  <2> QED BY <2>1, <2>2, <2>3
<1>4. WaveOnRing'
  BY <1>1, CircuitSteady DEF VInv, WaveOnRing
<1>5. Untouched'
  BY <1>1, CircuitSteady DEF VInv, Untouched
<1>6. ValuesInPlace'
  <2>1. \A n \in Node : Outcome(n)' = Outcome(n)
    BY <1>1, OutcomeSame
  <2>2. DoneNow \subseteq Node
    BY <1>1, DoneNowNodes
  <2> QED BY <1>1, <1>3, <2>1, <2>2, CircuitSteady DEF VInv, ValuesInPlace
<1>7. SearchComplete'
  BY <1>1 DEF VInv, SearchComplete, Abstract!ComputableIn
<1>8. Stamped'
  BY <1>1, <1>3, CircuitSteady DEF VInv, Stamped
<1> QED BY <1>4, <1>5, <1>6, <1>7, <1>8 DEF VInv

\* A thread that begins a node has all it reads, or complains.
LEMMA BeginVInv == ASSUME IInv, VInv, NEW n \in Node, Begin(n) PROVE VInv'
<1>1. /\ TypeOK /\ Control /\ Searched /\ phase = "stage" /\ n \in pending /\ cycle > 0
      /\ UNCHANGED <<name, cycle, ring, stamp, store, queue, ordered, stages, stage,
                     inFile, outFile, stored>>
  BY DEF IInv, Begin, Control
<1>2. Untouched'
  BY <1>1, CircuitSteady DEF VInv, Untouched
<1>3. \A m \in Node : Outcome(m)' = Outcome(m)
  BY <1>1, OutcomeSame
<1>4. DoneNow \subseteq Node /\ DOMAIN inFlight \subseteq Node
  BY <1>1, DoneNowNodes DEF TypeOK
<1>5. CASE MissesInput(n)
  <2>1. phase' = "error" /\ UNCHANGED <<pending, inFlight>>
    BY <1>5 DEF Begin
  <2>2. DoneNow' = {} BY <2>1 DEF DoneNow
  <2>3. WaveOnRing'
    BY <2>1, <1>1, CircuitSteady DEF VInv, WaveOnRing
  <2>4. ValuesInPlace'
    BY <2>1, <2>2, <1>3, <1>4, CircuitSteady DEF VInv, ValuesInPlace
  <2>5. SearchComplete'
    BY <2>1, <1>1 DEF VInv, SearchComplete, Abstract!ComputableIn
  <2>6. Stamped'
    BY <2>1, <2>2, <1>1, CircuitSteady DEF VInv, Stamped
  <2> QED BY <1>2, <2>3, <2>4, <2>5, <2>6 DEF VInv
<1>6. CASE ~MissesInput(n)
  <2>1. /\ phase' = phase /\ pending' = pending \ {n}
        /\ DOMAIN inFlight' = DOMAIN inFlight \cup {n}
        /\ \A m \in DOMAIN inFlight' : inFlight'[m] = IF m = n THEN Computed(n) ELSE inFlight[m]
    BY <1>6 DEF Begin
  <2>2. DoneNow' = DoneNow /\ n \notin DoneNow
    <3>1. pending' \cup DOMAIN inFlight' = pending \cup DOMAIN inFlight BY <2>1, <1>1
    <3> QED BY <2>1, <3>1, <1>1 DEF DoneNow
  <2>3. WaveOnRing'
    BY <2>1, <1>1, CircuitSteady DEF VInv, WaveOnRing
  <2>4. Computed(n) = Outcome(n)
    <3>1. CASE n \in Memories
      BY <3>1, <2>2, <1>1 DEF VInv, ValuesInPlace, Computed, Outcome
    <3>2. CASE n \notin Memories
      BY <3>2 DEF Computed, Outcome, ComputedFrom, Memories, OfKind
    <3> QED BY <3>1, <3>2
  <2>5. \A m \in DOMAIN inFlight' : inFlight'[m] = Outcome(m) /\ m \notin pending'
    BY <2>1, <2>4 DEF VInv, ValuesInPlace
  <2>6. ValuesInPlace'
    BY <2>1, <2>2, <2>5, <1>1, <1>3, <1>4, CircuitSteady DEF VInv, ValuesInPlace
  <2>7. SearchComplete'
    BY <2>1, <1>1 DEF VInv, SearchComplete, Abstract!ComputableIn
  <2>8. cycle = 3 => Drivers(n) \subseteq ToSet(ordered)
    <3> SUFFICES ASSUME cycle = 3, NEW d \in Drivers(n) PROVE d \in ToSet(ordered)
      OBVIOUS
    <3>1. d \in Node /\ d # Undriven /\ d \in ToSet(Pins(n))
      <4>1. Pins(n) \in Seq(Node \cup {Undriven})
        BY <1>1, CircuitFacts DEF TypeOK
      <4> QED BY <4>1 DEF Drivers, ToSet
    <3>2. ~(stamp[d] < 2)
      BY <1>6, <3>1 DEF MissesInput, PinCycle
    <3>3. stamp[d] \in Int BY <3>1, <1>1 DEF TypeOK
    <3>4. d \in ToSet(ordered) \cup Inputs
      BY <3>1, <3>2, <3>3, <1>1 DEF Searched
    <3>5. Inputs \subseteq ToSet(ordered)
      BY SMTT(20), <1>1, ComputableFacts, CircuitFacts DEF TypeOK, VInv, SearchComplete
    <3> QED BY <3>4, <3>5
  <2>9. Stamped'
    BY <2>1, <2>2, <2>8, <1>1, CircuitSteady DEF VInv, Stamped
  <2> QED BY <1>2, <2>3, <2>6, <2>7, <2>9 DEF VInv
<1> QED BY <1>5, <1>6

\* A thread that finishes writes what no node computed before it has read.
LEMMA FinishVInv == ASSUME IInv, VInv, NEW n \in Node, Finish(n) PROVE VInv'
<1>1. /\ TypeOK /\ Control /\ Searched /\ Staging /\ phase = "stage" /\ cycle > 0 /\ cycle \in Nat
      /\ n \in DOMAIN inFlight
      /\ UNCHANGED <<name, cycle, phase, queue, ordered, stages, stage, pending,
                     inFile, outFile, stored>>
  BY SMTT(20), SizeAssumption DEF IInv, Finish, Control, TypeOK, NumCycles
<1>2. /\ DOMAIN inFlight' = DOMAIN inFlight \ {n}
      /\ \A m \in DOMAIN inFlight' : inFlight'[m] = inFlight[m]
  BY DEF Finish, Restrict
<1>3. /\ ring' = IF n \in Inputs THEN ring
                 ELSE [ring EXCEPT ![n][Offset(cycle)] = inFlight[n].value]
      /\ \A m \in Node : stamp'[m] = IF m = n /\ n \notin Inputs THEN cycle ELSE stamp[m]
      /\ \A m \in Memories : store'[m] = IF m = n THEN inFlight[n].store ELSE store[m]
  BY <1>1 DEF Finish, Store, TypeOK
<1>4. /\ inFlight[n] = Outcome(n) /\ n \notin pending
      /\ \A m \in DOMAIN inFlight : inFlight[m] = Outcome(m) /\ m \notin pending
  BY <1>1 DEF VInv, ValuesInPlace
<1>5. StagesOf(stages, ToSet(ordered)) /\ stage \in 1..Len(stages) /\ DOMAIN stages = 1..Len(stages)
      /\ Len(stages) \in Nat
  BY <1>1, LenProperties DEF Staging, TypeOK
<1>6. pending \cup DOMAIN inFlight \subseteq ToSet(stages[stage])
  BY <1>1 DEF Staging
<1>7. ToSet(stages[stage]) \subseteq ToSet(ordered) /\ ToSet(ordered) \subseteq Node
  BY <1>1, <1>5, DoneNowNodes DEF StagesOf, Cover
<1>8. DoneNow' = DoneNow \cup {n} /\ n \notin DoneNow
  <2>1. DoneNow = {m \in ToSet(ordered) : /\ \E s \in 1..stage : m \in ToSet(stages[s])
                                          /\ m \notin pending \cup DOMAIN inFlight}
    BY <1>1 DEF DoneNow
  <2>2. DoneNow' = {m \in ToSet(ordered) : /\ \E s \in 1..stage : m \in ToSet(stages[s])
                                           /\ m \notin pending \cup (DOMAIN inFlight \ {n})}
    BY <1>1, <1>2 DEF DoneNow
  <2>3. n \in ToSet(ordered) /\ \E s \in 1..stage : n \in ToSet(stages[s])
    BY <1>1, <1>5, <1>6, <1>7
  <2> QED BY <2>1, <2>2, <2>3, <1>1, <1>4
<1>9. \A m \in DoneNow \cup DOMAIN inFlight : n \notin Awaited(m)
  <2> SUFFICES ASSUME NEW m \in DoneNow \cup DOMAIN inFlight, n \in Awaited(m) PROVE FALSE
    OBVIOUS
  <2>1. m \in ToSet(ordered) /\ \E s \in 1..stage : m \in ToSet(stages[s])
    <3>1. CASE m \in DoneNow BY <3>1, <1>1 DEF DoneNow
    <3>2. CASE m \in DOMAIN inFlight BY <3>2, <1>5, <1>6, <1>7
    <3> QED BY <3>1, <3>2
  <2>2. PICK s \in 1..stage : m \in ToSet(stages[s]) BY <2>1
  <2>3. s \in DOMAIN stages BY <2>2, <1>5
  <2>4. PICK t \in 1..(s - 1) : n \in ToSet(stages[t])
    BY <2>1, <2>2, <2>3, <1>5 DEF StagesOf, Behind
  <2>5. t \in DOMAIN stages /\ t # stage BY <2>2, <2>4, <1>5
  <2>6. n \in ToSet(stages[stage]) /\ n \in ToSet(ordered) /\ stage \in DOMAIN stages
    BY <1>1, <1>5, <1>6, <1>7
  <2> QED BY <2>4, <2>5, <2>6, <1>5 DEF StagesOf, Once
<1>10. \A m \in DoneNow \cup DOMAIN inFlight : m \in Node /\ Outcome(m)' = Outcome(m)
  <2> TAKE m \in DoneNow \cup DOMAIN inFlight
  <2>1. m \in Node BY <1>1, <1>7, DoneNowNodes DEF TypeOK
  <2>2. CASE n \in Inputs
    BY <2>1, <2>2, <1>1, <1>3, OutcomeSame
  <2>3. CASE n \notin Inputs
    BY <2>1, <2>3, <1>1, <1>3, <1>9, OutcomeSteady
  <2> QED BY <2>1, <2>2, <2>3
<1>11. \A m \in Node \ {n} : ring'[m] = ring[m]
  BY <1>1, <1>3 DEF TypeOK
<1>12. WaveOnRing'
  <2>1. \A d \in Inputs : ring'[d] = ring[d]
    BY <1>3, <1>11 DEF Inputs, OfKind
  <2> QED BY <2>1, <1>1, CircuitSteady DEF VInv, WaveOnRing
<1>13. Untouched'
  <2>1. \A m \in Node : m \notin ToSet(ordered) \cup Inputs =>
          ring'[m] = [i \in 0..(WaveLength - 1) |-> Circuit.initial[m]]
    <3> TAKE m \in Node
    <3> HAVE m \notin ToSet(ordered) \cup Inputs
    <3>1. ring[m] = [i \in 0..(WaveLength - 1) |-> Circuit.initial[m]]
      BY DEF VInv, Untouched
    <3>2. m # n BY <1>1, <1>6, <1>7
    <3> QED BY <3>1, <3>2, <1>11
  <2>2. cycle' # 0 /\ ordered' = ordered /\ name' = name BY <1>1
  <2> QED BY <2>1, <2>2, CircuitSteady DEF Untouched
<1>14. ValuesInPlace'
  <2>1. ASSUME NEW m \in (DoneNow \cup {n}) \ Inputs
        PROVE  /\ ring'[m][Offset(cycle)] = Outcome(m).value
               /\ m \in Memories => store'[m] = Outcome(m).store
    <3>1. CASE m = n
      <4>1. ring'[n][Offset(cycle)] = inFlight[n].value
        <5>1. Offset(cycle) \in 0..(WaveLength - 1) BY <1>1, OffsetType
        <5> QED BY <5>1, <1>1, <1>3, <3>1, <2>1 DEF TypeOK
      <4> QED BY <4>1, <3>1, <1>3, <1>4
    <3>2. CASE m # n
      <4>1. m \in DoneNow /\ ring'[m] = ring[m] BY <3>2, <2>1, <1>10, <1>11
      <4>2. /\ ring[m][Offset(cycle)] = Outcome(m).value
            /\ m \in Memories => store[m] = Outcome(m).store
        BY <4>1, <2>1 DEF VInv, ValuesInPlace
      <4> QED BY <4>1, <4>2, <3>2, <1>3
    <3> QED BY <3>1, <3>2
  <2>2. \A m \in Memories \ (DoneNow \cup {n}) : store'[m] = stored[m]
    BY <1>1, <1>3 DEF VInv, ValuesInPlace
  <2>3. \A m \in DOMAIN inFlight' : inFlight'[m] = Outcome(m)' /\ m \notin pending
    BY <1>2, <1>4, <1>10
  <2>4. \A m \in DoneNow \cup {n} : Outcome(m)' = Outcome(m)
    BY <1>1, <1>10
  <2> QED BY <2>1, <2>2, <2>3, <2>4, <1>1, <1>8, CircuitSteady DEF ValuesInPlace
<1>15. SearchComplete'
  BY <1>1 DEF VInv, SearchComplete, Abstract!ComputableIn
<1>16. Stamped'
  <2>1. Inputs \subseteq Node BY DEF Inputs, OfKind
  <2>2. \A m \in Inputs : stamp'[m] = Len(inFile) - 1
    BY <2>1, <1>1, <1>3 DEF VInv, Stamped
  <2>3. \A m \in (DoneNow \cup {n}) \ Inputs : stamp'[m] = cycle
    BY <1>1, <1>3, <1>10 DEF VInv, Stamped
  <2>4. \A m \in ToSet(ordered) \ Inputs : stamp'[m] >= cycle - 1
    BY <1>1, <1>3, <1>7 DEF VInv, Stamped
  <2>5. cycle = 3 => \A m \in DoneNow \cup DOMAIN inFlight : Drivers(m) \subseteq ToSet(ordered)
    BY <1>1 DEF VInv, Stamped
  <2>6. DoneNow' \cup DOMAIN inFlight' \subseteq DoneNow \cup DOMAIN inFlight
    BY <1>1, <1>2, <1>8
  <2> QED BY <2>2, <2>3, <2>4, <2>5, <2>6, <1>1, <1>8, CircuitSteady DEF Stamped
<1> QED BY <1>12, <1>13, <1>14, <1>15, <1>16 DEF VInv

LEMMA NextVInv == IInv /\ VInv /\ [Next]_vars => VInv'
<1> SUFFICES ASSUME IInv, VInv, [Next]_vars PROVE VInv'
  OBVIOUS
<1>1. CASE ReadVectors BY <1>1, ReadVectorsVInv
<1>2. CASE SimulateFirst BY <1>2, SimulateFirstVInv
<1>3. CASE OrganiseStages BY <1>3, OrganiseStagesEnds, EndCycleVInv
<1>4. CASE \E n \in Node : Begin(n) BY <1>4, BeginVInv
<1>5. CASE \E n \in Node : Finish(n) BY <1>5, FinishVInv
<1>6. CASE NextStage BY <1>6, NextStageVInv
<1>7. CASE NextCycle BY <1>7, NextCycleEnds, EndCycleVInv
<1>8. CASE UNCHANGED vars BY <1>8, StutterVInv
<1> QED
  BY <1>1, <1>2, <1>3, <1>4, <1>5, <1>6, <1>7, <1>8 DEF Next, SimulatorStep, Done

\* Whatever thread comes first: a node that has been computed in this cycle has
\* on its net what all its inputs, as they are in the end, give it; a wave finds
\* its vectors on the ring of the input nets; and the order found in the first
\* cycle holds exactly the nodes that can be ordered.
THEOREM SimulatorValues == Spec => [](IInv /\ VInv)
<1>1. Init => IInv /\ VInv BY InitIInv, InitVInv
<1>2. (IInv /\ VInv) /\ [Next]_vars => (IInv /\ VInv)' BY NextIInv, NextVInv
<1> QED BY <1>1, <1>2, PTL DEF Spec

-----------------------------------------------------------------------------
(* The simulator implements the circuit.                                   *)

\* What the abstract circuit sees of the simulator.
Values == [n \in Node |-> IF n \in Inputs THEN Given(n, n, cycle - 1)
                          ELSE ring[n][Offset(cycle - 1)]]
VectorsSoFar == outFile \o OutputVectors(Len(outFile), cycle)
Status == IF phase \in {"done", "error"} THEN phase ELSE "running"

LEMMA GateSame ==
  ASSUME NEW kind, NEW s, NEW held PROVE Abstract!Gate(kind, s, held) = Gate(kind, s, held)
<1>1. Abstract!ToSet(s) = ToSet(s) BY DEF Abstract!ToSet, ToSet
<1>2. Abstract!Ones(s) = Ones(s)
  BY DEF Abstract!Ones, Ones, Abstract!Cardinality, Cardinality
<1>3. Abstract!Unknown = Unknown BY DEF Abstract!Unknown, Unknown
<1>4. /\ Abstract!And(s) = And(s) /\ Abstract!Or(s) = Or(s)
      /\ Abstract!Nand(s) = Nand(s) /\ Abstract!Nor(s) = Nor(s)
  BY <1>1, <1>3 DEF Abstract!And, And, Abstract!Or, Or, Abstract!Nand, Nand, Abstract!Nor, Nor,
     Abstract!Dominated, Dominated
<1>5. /\ Abstract!Xor(s) = Xor(s) /\ Abstract!Xnor(s) = Xnor(s) /\ Abstract!Lt(s) = Lt(s)
      /\ Abstract!Gt(s) = Gt(s) /\ Abstract!Carry(s) = Carry(s)
  BY <1>1, <1>2, <1>3 DEF Abstract!Xor, Xor, Abstract!Xnor, Xnor, Abstract!Lt, Lt, Abstract!Gt, Gt,
     Abstract!Carry, Carry, Abstract!Known, Known
<1>6. Abstract!Mux2(s, held) = Mux2(s, held)
  BY <1>3 DEF Abstract!Mux2, Mux2
<1> QED BY <1>4, <1>5, <1>6 DEF Abstract!Gate, Gate

LEMMA AbstractInit == Init => Abstract!Init
<1> SUFFICES ASSUME Init PROVE Abstract!Init
  OBVIOUS
<1>1. /\ name \in DOMAIN Circuits /\ cycle = 0 /\ phase = "vectors" /\ outFile = <<>>
      /\ ring = [n \in Node |-> [i \in 0..(WaveLength - 1) |-> Circuit.initial[n]]]
      /\ stored = [n \in Memories |-> [a \in 0..1 |-> Unknown]]
  BY DEF Init
<1>2. Values = Circuit.initial
  <2>1. Offset(0 - 1) \in 0..(WaveLength - 1) BY OffsetType
  <2>2. \A n \in Node : ring[n][Offset(0 - 1)] = Circuit.initial[n] BY <1>1, <2>1
  <2>3. Circuit.initial = [n \in Node |-> Circuit.initial[n]]
    BY <1>1, CircuitAssumption DEF IsCircuit, Circuit, Node
  <2>4. cycle - 1 = 0 - 1 /\ 0 - 1 < 0 BY <1>1
  <2>5. \A n \in Node : Given(n, n, cycle - 1) = Circuit.initial[n] BY <2>4 DEF Given
  <2>6. Values = [n \in Node |-> Circuit.initial[n]] BY <2>2, <2>4, <2>5 DEF Values
  <2> QED BY <2>3, <2>6
<1>3. VectorsSoFar = <<>>
  <2>1. OutputVectors(Len(outFile), cycle) = <<>>
    BY <1>1 DEF OutputVectors
  <2> QED BY <2>1, <1>1 DEF VectorsSoFar
<1>4. Status = "running" BY <1>1 DEF Status
<1>5. stored = [n \in Abstract!OfKind(Abstract!Circuit, {"MEMORY"}) |->
                  [a \in 0..1 |-> Abstract!Unknown]]
  BY <1>1 DEF Abstract!OfKind, Abstract!Circuit, Abstract!Node, Abstract!Unknown, Unknown,
     Memories, OfKind, Node, Circuit
<1> QED BY <1>1, <1>2, <1>3, <1>4, <1>5
        DEF Abstract!Init, Values, VectorsSoFar, Status, Abstract!Circuit, Circuit

\* A step within a cycle is none of the circuit: the values of the cycle before
\* stay in the ring, and so do those of the vectors that are not written yet.
LEMMA WritesStutter ==
  ASSUME IInv, VInv, phase \in {"first", "stage"}, phase' = phase,
         UNCHANGED <<name, cycle, inFile, outFile, stored>>,
         NEW k, NEW v, k \notin Inputs,
         ring' = ring \/ ring' = [ring EXCEPT ![k][Offset(cycle)] = v]
  PROVE  UNCHANGED Abstract!vars
<1>1. TypeOK /\ cycle \in Nat /\ Len(outFile) \in Nat
  BY SizeAssumption, LenProperties DEF IInv, TypeOK, NumCycles
<1>2. /\ Len(outFile) % WaveLength = 0
      /\ cycle \in Len(outFile)..(Len(outFile) + WaveLength - 1)
  BY DEF VInv, WaveOnRing
<1>3. ASSUME NEW c \in Nat \cup {0 - 1}, Offset(c) # Offset(cycle)
      PROVE  \A n \in Node : ring'[n][Offset(c)] = ring[n][Offset(c)]
  <2> TAKE n \in Node
  <2>1. Offset(c) \in 0..(WaveLength - 1) BY OffsetType
  <2>2. ring \in [Node -> [0..(WaveLength - 1) -> Value]] BY <1>1 DEF TypeOK
  <2>3. CASE ring' = ring BY <2>3
  <2>4. CASE ring' = [ring EXCEPT ![k][Offset(cycle)] = v] /\ n # k
    BY <2>4, <2>2
  <2>5. CASE ring' = [ring EXCEPT ![k][Offset(cycle)] = v] /\ n = k
    <3>1. ring'[k] = [ring[k] EXCEPT ![Offset(cycle)] = v] BY <2>5, <2>2
    <3>2. ring[k] \in [0..(WaveLength - 1) -> Value] BY <2>5, <2>2
    <3> QED BY <3>1, <3>2, <2>1, <2>5, <1>3
  <2> QED BY <2>3, <2>4, <2>5
<1>4. \A n \in Node : ring'[n][Offset(cycle - 1)] = ring[n][Offset(cycle - 1)]
  <2>1. cycle - 1 \in Nat \cup {0 - 1} /\ (cycle - 1) + 1 = cycle BY <1>1
  <2>2. Offset(cycle - 1) # Offset(cycle) BY <2>1, OffsetType
  <2> QED BY <2>1, <2>2, <1>3
<1>5. Values' = Values
  <2>1. \A n \in Node : Given(n, n, cycle - 1)' = Given(n, n, cycle - 1)
    BY CircuitSteady DEF Given
  <2> QED BY <1>4, <2>1, CircuitSteady DEF Values
<1>6. VectorsSoFar' = VectorsSoFar
  <2> DEFINE w == Len(outFile)
  <2>0. w \in Nat /\ w % WaveLength = 0 /\ cycle \in w..(w + WaveLength - 1) /\ WaveLength \in Nat
    BY <1>1, <1>2, WaveLengths
  <2> HIDE DEF w
  <2>1. \A i \in 1..(cycle - w) : \A n \in Node : ring'[n][Offset(w + i - 1)] = ring[n][Offset(w + i - 1)]
    <3> TAKE i \in 1..(cycle - w)
    <3>1. /\ w + i - 1 \in Nat /\ i - 1 \in 0..(WaveLength - 1) /\ cycle - w \in 0..(WaveLength - 1)
          /\ i - 1 # cycle - w /\ w + (i - 1) = w + i - 1 /\ w + (cycle - w) = cycle
      BY <1>1, <2>0
    <3>2. Offset(w + (i - 1)) = i - 1 /\ Offset(w + (cycle - w)) = cycle - w
      BY <3>1, <2>0, OffsetInWave
    <3>3. Offset(w + i - 1) # Offset(cycle) BY <3>1, <3>2
    <3> QED BY <3>1, <3>3, <1>3
  <2>2. Outputs \subseteq Node BY DEF Outputs, OfKind
  <2>3. \A i \in 1..(cycle - w) : [o \in Outputs |-> ring'[o][Offset(w + i - 1)]]
                                   = [o \in Outputs |-> ring[o][Offset(w + i - 1)]]
    BY <2>1, <2>2
  <2>4. OutputVectors(w, cycle)' = OutputVectors(w, cycle)
    BY <2>3, CircuitSteady DEF OutputVectors, w
  <2> QED BY <2>4 DEF VectorsSoFar, w
<1>7. Status' = Status BY DEF Status
<1> QED BY <1>5, <1>6, <1>7 DEF Abstract!vars, Values, VectorsSoFar, Status

LEMMA ReadVectorsStutters == IInv /\ VInv /\ ReadVectors => UNCHANGED Abstract!vars
<1> SUFFICES ASSUME IInv, VInv, ReadVectors PROVE UNCHANGED Abstract!vars
  OBVIOUS
<1>1. TypeOK /\ Control /\ phase = "vectors" /\ Len(outFile) = cycle /\ Len(inFile) = cycle
  BY DEF IInv, ReadVectors, VInv, WaveOnRing
<1>2. UNCHANGED <<name, cycle, outFile, stored>> /\ phase' \in {"first", "stage"}
  BY DEF ReadVectors
<1>3. cycle \in Nat /\ cycle < NumCycles /\ cycle % 2 = 0
  <2>1. cycle \in Nat /\ cycle % WaveLength = 0 /\ cycle < NumCycles
    BY <1>1 DEF TypeOK, Control
  <2> QED BY <2>1, OffsetInWave
<1>4. PICK v \in [{c \in cycle..WaveEnd : c % 2 = 0} -> [Inputs -> InputValues]] :
        inFile' = inFile \o [i \in 1..(WaveEnd - cycle + 1) |->
                               v[(cycle + i - 1) - ((cycle + i - 1) % 2)]]
  BY DEF ReadVectors
<1>5. \A c \in 1..cycle : inFile'[c] = inFile[c]
  BY <1>1, <1>3, <1>4, FileGrows
<1>6. \A n \in Node \ Inputs : ring'[n] = ring[n]
  BY DEF ReadVectors
<1>7. Values' = Values
  <2>1. \A n \in Node : Given(n, n, cycle - 1)' = Given(n, n, cycle - 1)
    <3>1. CASE cycle = 0 BY <3>1, <1>2, CircuitSteady DEF Given
    <3>2. CASE cycle # 0
      <4>1. (cycle - 1) + 1 \in 1..cycle /\ ~(cycle - 1 < 0) BY <3>2, <1>3
      <4> QED BY <4>1, <1>2, <1>5, CircuitSteady DEF Given
    <3> QED BY <3>1, <3>2
  <2> QED BY <2>1, <1>2, <1>6, CircuitSteady DEF Values
<1>8. VectorsSoFar' = VectorsSoFar
  <2>1. 1..(cycle - Len(outFile)) = {} BY <1>1, <1>3
  <2>2. OutputVectors(Len(outFile), cycle) = [i \in {} |-> [o \in Outputs |-> ring[o][Offset(Len(outFile) + i - 1)]]]
    BY <2>1 DEF OutputVectors
  <2>3. OutputVectors(Len(outFile), cycle)' = OutputVectors(Len(outFile), cycle)
    BY <2>1, <1>2, CircuitSteady DEF OutputVectors
  <2> QED BY <2>3, <1>2 DEF VectorsSoFar
<1>9. Status' = Status BY <1>1, <1>2 DEF Status
<1> QED BY <1>2, <1>7, <1>8, <1>9 DEF Abstract!vars, Values, VectorsSoFar, Status

\* What the wave says of the cycle that ends: every input's value for it is in
\* the ring, and for the cycle before too unless the wave begins with it.
LEMMA EndFacts ==
  ASSUME CycleEnds
  PROVE  /\ TypeOK /\ Control /\ Searched
         /\ cycle \in Nat /\ cycle < NumCycles /\ cycle' = cycle + 1 /\ stored' = store
         /\ \A d \in Inputs : ring[d][Offset(cycle)] = inFile[cycle + 1][d]
         /\ cycle # Len(outFile) => \A d \in Inputs : ring[d][Offset(cycle - 1)] = inFile[cycle][d]
         /\ cycle % 2 = 1 => inFile[cycle + 1] = inFile[cycle]
         /\ cycle % 2 = 1 => cycle # Len(outFile)
         /\ cycle + 1 \in 1..Len(inFile)
         /\ Len(outFile) \in Nat /\ Len(outFile) % WaveLength = 0
         /\ cycle \in Len(outFile)..(Len(outFile) + WaveLength - 1)
<1> USE DEF CycleEnds
<1>1. TypeOK /\ Control /\ Searched /\ Len(outFile) \in Nat /\ Len(inFile) \in Nat
  BY LenProperties DEF IInv, TypeOK
<1>2. /\ cycle \in Nat /\ cycle < NumCycles /\ NumCycles \in Nat /\ NumCycles > 1
      /\ WaveLength \in Nat
  BY <1>1, SizeAssumption, WaveLengths DEF Control, TypeOK, NumCycles
<1>3. cycle' = cycle + 1 /\ stored' = store
  BY DEF EndCycle
<1>4. /\ Len(outFile) % WaveLength = 0
      /\ cycle \in Len(outFile)..(Len(outFile) + WaveLength - 1)
      /\ \/ Len(inFile) = Len(outFile) + WaveLength
         \/ Len(inFile) = NumCycles /\ NumCycles <= Len(outFile) + WaveLength
      /\ \A d \in Inputs, c \in Len(outFile)..(Len(inFile) - 1) :
           ring[d][Offset(c)] = inFile[c + 1][d]
      /\ \A c \in 1..(Len(inFile) - 1) : c % 2 = 1 => inFile[c + 1] = inFile[c]
  BY DEF VInv, WaveOnRing
<1>5. Len(inFile) > cycle BY <1>1, <1>2, <1>4
<1>6. \A d \in Inputs : ring[d][Offset(cycle)] = inFile[cycle + 1][d]
  BY <1>1, <1>2, <1>4, <1>5
<1>7. cycle # Len(outFile) => \A d \in Inputs : ring[d][Offset(cycle - 1)] = inFile[cycle][d]
  <2> SUFFICES ASSUME cycle # Len(outFile), NEW d \in Inputs
               PROVE  ring[d][Offset(cycle - 1)] = inFile[cycle][d]
    OBVIOUS
  <2>1. cycle - 1 \in Len(outFile)..(Len(inFile) - 1) /\ (cycle - 1) + 1 = cycle
    BY <1>1, <1>2, <1>4, <1>5
  <2> QED BY <2>1, <1>4
<1>8. cycle % 2 = 1 => inFile[cycle + 1] = inFile[cycle]
  <2> SUFFICES ASSUME cycle % 2 = 1 PROVE cycle \in 1..(Len(inFile) - 1)
    BY <1>4
  <2>1. cycle # 0 OBVIOUS
  <2> QED BY <2>1, <1>1, <1>2, <1>5
<1>9. cycle % 2 = 1 => cycle # Len(outFile)
  <2>1. Len(outFile) % 2 = 0 BY <1>1, <1>4, OffsetInWave
  <2> QED BY <2>1
<1>10. cycle + 1 \in 1..Len(inFile) BY <1>1, <1>2, <1>5
<1> QED BY <1>1, <1>2, <1>3, <1>4, <1>6, <1>7, <1>8, <1>9, <1>10

\* Every net of the cycle that ends has the value the circuit sees.
LEMMA ValuesAtEnd ==
  ASSUME CycleEnds
  PROVE  /\ Values' = [n \in Node |-> ring[n][Offset(cycle)]]
         /\ Values' \in [Node -> Value]
         /\ \A n \in Node \ Inputs : Values[n] = ring[n][Offset(cycle - 1)]
         /\ \A n \in Node \ Inputs : Values[n] = Read(n, n, cycle - 1)
         /\ \A n \in Inputs : cycle > 0 => Values[n] = inFile[cycle][n]
         /\ cycle # Len(outFile) => \A n \in Node : Values[n] = ring[n][Offset(cycle - 1)]
<1> DEFINE w == Len(outFile)
<1>1. /\ TypeOK /\ cycle \in Nat /\ cycle' = cycle + 1 /\ UNCHANGED <<name, ring, inFile>>
      /\ \A d \in Inputs : ring[d][Offset(cycle)] = inFile[cycle + 1][d]
      /\ cycle # w => \A d \in Inputs : ring[d][Offset(cycle - 1)] = inFile[cycle][d]
      /\ cycle \in w..(w + WaveLength - 1) /\ w \in Nat
  BY EndFacts DEF CycleEnds
<1> HIDE DEF w
<1>2. Inputs \subseteq Node BY DEF Inputs, OfKind
<1>3. cycle' - 1 = cycle /\ ~(cycle < 0) BY <1>1
<1>4. \A n \in Node : (IF n \in Inputs THEN Given(n, n, cycle - 1) ELSE ring[n][Offset(cycle - 1)])'
                        = ring[n][Offset(cycle)]
  <2> TAKE n \in Node
  <2>1. Given(n, n, cycle - 1)' = inFile[cycle + 1][n]
    BY <1>1, <1>3 DEF Given
  <2>2. ring[n][Offset(cycle - 1)]' = ring[n][Offset(cycle)]
    BY <1>1, <1>3
  <2> QED BY <2>1, <2>2, <1>1, CircuitSteady
<1>5. Values' = [n \in Node |-> ring[n][Offset(cycle)]]
  BY <1>4, <1>1, CircuitSteady DEF Values
<1>6. Values' \in [Node -> Value]
  <2>1. Offset(cycle) \in 0..(WaveLength - 1) BY <1>1, OffsetType
  <2>2. \A n \in Node : ring[n][Offset(cycle)] \in Value BY <1>1, <2>1 DEF TypeOK
  <2> QED BY <1>5, <2>2
<1>7. \A n \in Node \ Inputs : Values[n] = ring[n][Offset(cycle - 1)]
  BY DEF Values
<1>8. \A n \in Inputs : cycle > 0 => Values[n] = inFile[cycle][n]
  <2> SUFFICES ASSUME NEW n \in Inputs, cycle > 0 PROVE Given(n, n, cycle - 1) = inFile[cycle][n]
    BY <1>2 DEF Values
  <2>1. ~(cycle - 1 < 0) /\ (cycle - 1) + 1 = cycle BY <1>1
  <2> QED BY <2>1 DEF Given
<1>9. \A n \in Node \ Inputs : Values[n] = Read(n, n, cycle - 1)
  <2> TAKE n \in Node \ Inputs
  <2>1. CASE cycle = 0
    <3>1. ring[n][Offset(0 - 1)] = Circuit.initial[n]
      BY <2>1 DEF CycleEnds, VInv, Untouched
    <3>2. cycle - 1 = 0 - 1 /\ cycle - 1 < 0 BY <2>1
    <3> QED BY <3>1, <3>2, <1>7 DEF Read
  <2>2. CASE cycle # 0
    <3>1. ~(cycle - 1 < 0) /\ n # Undriven
      BY <2>2, <1>1, CircuitFacts DEF TypeOK
    <3> QED BY <3>1, <1>7 DEF Read
  <2> QED BY <2>1, <2>2
<1>10. cycle # w => \A n \in Node : Values[n] = ring[n][Offset(cycle - 1)]
  <2> SUFFICES ASSUME cycle # w, NEW n \in Inputs PROVE Values[n] = ring[n][Offset(cycle - 1)]
    BY <1>7
  <2>1. cycle > 0 BY <1>1
  <2> QED BY <2>1, <1>1, <1>8
<1> QED BY <1>5, <1>6, <1>7, <1>8, <1>9, <1>10 DEF w

\* A memory writes when its first pin rises, and a wave begins with a cycle in
\* which no clock does; other nets might, while the inputs of the cycle before
\* are gone from the ring.
MemoriesAreClocked ==
  \A c \in DOMAIN Circuits : \A n \in DOMAIN Circuits[c].kind :
    Circuits[c].kind[n] = "MEMORY" =>
      \/ Circuits[c].in[n][1] = Undriven
      \/ Circuits[c].kind[Circuits[c].in[n][1]] = "CLOCK"

\* What the circuit sees of a pin in the cycle that ends, and in the one before.
Seen(d) == IF d = Undriven THEN UndrivenValue ELSE Values'[d]
SeenBefore(n, d) == IF cycle = 0 THEN Circuit.initial[n]
                    ELSE IF d = Undriven THEN UndrivenValue ELSE Values[d]
SeenEdge(n, clk) == Seen(clk) = 1 /\ SeenBefore(n, clk) # 1
SeenWritten(n) ==
  IF SeenEdge(n, Pins(n)[1]) /\ SeenBefore(n, Pins(n)[4]) # Unknown /\ SeenBefore(n, Pins(n)[2]) # 0
  THEN [stored[n] EXCEPT ![SeenBefore(n, Pins(n)[4])] = SeenBefore(n, Pins(n)[3])]
  ELSE stored[n]
SeenCorrect(n) ==
  LET kind == Circuit.kind[n]
  IN  CASE kind = "INPUT"  -> cycle % 2 = 1 => Values'[n] = Values[n]
        [] kind = "CLOCK"  -> Values'[n] = cycle % 2
        [] kind = "FF"     -> Values'[n] = IF SeenEdge(n, Pins(n)[2])
                                           THEN SeenBefore(n, Pins(n)[1]) ELSE Values[n]
        [] kind = "MEMORY" -> Values'[n] = IF Seen(Pins(n)[4]) = Unknown THEN Unknown
                                           ELSE stored'[n][Seen(Pins(n)[4])]
        [] OTHER -> Values'[n] = Abstract!Gate(kind, [i \in DOMAIN Pins(n) |-> Seen(Pins(n)[i])],
                                               Values[n])

LEMMA SeenByCircuit ==
  ASSUME NEW n
  PROVE  /\ Abstract!Written(n) = SeenWritten(n)
         /\ Abstract!Correct(n) <=> SeenCorrect(n)
<1>1. Abstract!Written(n) = SeenWritten(n)
  BY Zenon DEF Abstract!Written, SeenWritten, Abstract!RisingEdge, SeenEdge, Abstract!Now, Seen,
     Abstract!Before, SeenBefore, Values, Abstract!Circuit, Circuit, Pins, Abstract!Unknown, Unknown
<1>2. Abstract!Correct(n) <=> SeenCorrect(n)
  BY Zenon DEF Abstract!Correct, SeenCorrect, Abstract!RisingEdge, SeenEdge, Abstract!Now, Seen,
     Abstract!Before, SeenBefore, Values, Abstract!Circuit, Circuit, Pins, Abstract!Unknown, Unknown
<1> QED BY <1>1, <1>2

\* A node sees the cycle that ends, and the one before, as the circuit does.
LEMMA SeenAtEnd ==
  ASSUME CycleEnds, NEW n \in Node
  PROVE  /\ \A d \in Node \cup {Undriven} : Seen(d) = Read(n, d, cycle)
         /\ \A d \in Node \cup {Undriven} :
              cycle # Len(outFile) \/ cycle = 0 \/ d \notin Inputs
                => SeenBefore(n, d) = Read(n, d, cycle - 1)
<1>1. /\ TypeOK /\ cycle \in Nat
      /\ \A d \in Node : Values'[d] = ring[d][Offset(cycle)]
      /\ \A d \in Node \ Inputs : Values[d] = ring[d][Offset(cycle - 1)]
      /\ cycle # Len(outFile) => \A d \in Node : Values[d] = ring[d][Offset(cycle - 1)]
  BY EndFacts, ValuesAtEnd
<1>2. ASSUME NEW d \in Node \cup {Undriven} PROVE Seen(d) = Read(n, d, cycle)
  BY <1>1 DEF Seen, Read
<1>3. ASSUME NEW d \in Node \cup {Undriven},
             cycle # Len(outFile) \/ cycle = 0 \/ d \notin Inputs
      PROVE  SeenBefore(n, d) = Read(n, d, cycle - 1)
  <2>2. CASE cycle = 0
    <3>1. cycle - 1 < 0 BY <2>2
    <3> QED BY <2>2, <3>1 DEF SeenBefore, Read
  <2>3. CASE cycle # 0
    <3>1. ~(cycle - 1 < 0) BY <2>3, <1>1
    <3>2. d # Undriven => Values[d] = ring[d][Offset(cycle - 1)]
      BY <2>3, <1>1, <1>3
    <3> QED BY <2>3, <3>1, <3>2 DEF SeenBefore, Read
  <2> QED BY <2>2, <2>3
<1> QED BY <1>2, <1>3

\* A clock rises in odd cycles only, or before anything was.
LEMMA EdgeAtEnd ==
  ASSUME CycleEnds, NEW n \in Node, NEW clk \in Node \cup {Undriven},
         clk = Undriven \/ Circuit.kind[clk] = "CLOCK"
  PROVE  /\ SeenEdge(n, clk) <=> IsPosedge(n, clk, cycle)
         /\ IsPosedge(n, clk, cycle) => cycle = 0 \/ cycle # Len(outFile)
<1>1. /\ TypeOK /\ cycle \in Nat /\ (cycle % 2 = 1 => cycle # Len(outFile))
      /\ clk \notin Inputs
  BY SMTT(20), EndFacts, CircuitFacts DEF TypeOK, Inputs, OfKind
<1>2. SeenEdge(n, clk) <=> IsPosedge(n, clk, cycle)
  BY <1>1, SeenAtEnd DEF SeenEdge, IsPosedge
<1>3. ASSUME IsPosedge(n, clk, cycle), cycle > 0 PROVE cycle % 2 = 1
  <2>1. ~(cycle < 0) /\ ~(cycle - 1 < 0) BY <1>1, <1>3
  <2>2. clk # Undriven
    BY <2>1, <1>3 DEF IsPosedge, Read
  <2>3. CASE clk \in ToSet(ordered)
    <3>1. ring[clk][Offset(cycle)] = Outcome(clk).value
      BY <2>2, <2>3, <1>1 DEF CycleEnds, VInv, ValuesInPlace
    <3>2. Outcome(clk).value = cycle % 2
      BY <2>2 DEF Outcome, ComputedFrom
    <3> QED BY <3>1, <3>2, <2>1, <2>2, <1>3 DEF IsPosedge, Read
  <2>4. CASE clk \notin ToSet(ordered)
    <3>1. ring[clk] = [i \in 0..(WaveLength - 1) |-> Circuit.initial[clk]]
      BY <2>2, <2>4, <1>1 DEF CycleEnds, VInv, Untouched
    <3>2. Offset(cycle) \in 0..(WaveLength - 1) /\ Offset(cycle - 1) \in 0..(WaveLength - 1)
      <4>1. cycle - 1 \in Nat BY <1>1, <1>3
      <4> QED BY <4>1, <1>1, OffsetType
    <3>3. ring[clk][Offset(cycle)] = ring[clk][Offset(cycle - 1)] BY <3>1, <3>2
    <3> QED BY <3>3, <2>1, <2>2, <1>3 DEF IsPosedge, Read
  <2> QED BY <2>3, <2>4
<1>4. ASSUME IsPosedge(n, clk, cycle), cycle # 0 PROVE cycle # Len(outFile)
  <2>1. cycle > 0 BY <1>1, <1>4
  <2> QED BY <2>1, <1>1, <1>3, <1>4
<1> QED BY <1>2, <1>4

\* A node that was computed has what the circuit gives it.
LEMMA CorrectAtEnd ==
  ASSUME CycleEnds, MemoriesAreClocked, NEW n \in ToSet(ordered)
  PROVE  /\ SeenCorrect(n)
         /\ n \in Memories => store[n] = SeenWritten(n)
<1> DEFINE kind == Circuit.kind[n]
<1> PICK pin : pin = Pins(n) OBVIOUS
<1>1. /\ TypeOK /\ cycle \in Nat /\ n \in Node /\ cycle' = cycle + 1 /\ stored' = store
      /\ cycle % 2 = 1 => inFile[cycle + 1] = inFile[cycle]
      /\ \A d \in Inputs : ring[d][Offset(cycle)] = inFile[cycle + 1][d]
  BY EndFacts, DoneNowNodes
<1>2. Values'[n] = ring[n][Offset(cycle)]
  BY <1>1, ValuesAtEnd
<1>3. /\ pin \in Seq(Node \cup {Undriven})
      /\ kind = "MEMORY" => Len(pin) = 4
      /\ kind = "FF" => Len(pin) = 2 /\ (pin[2] = Undriven \/ Circuit.kind[pin[2]] = "CLOCK")
      /\ kind = "MEMORY" => pin[1] = Undriven \/ Circuit.kind[pin[1]] = "CLOCK"
      /\ kind \in GateKind \cup {"INPUT", "CLOCK", "FF", "MEMORY"}
  <2>1. kind = "MEMORY" => pin[1] = Undriven \/ Circuit.kind[pin[1]] = "CLOCK"
    BY <1>1 DEF MemoriesAreClocked, TypeOK, Circuit, Node, Pins
  <2> QED BY <2>1, <1>1, CircuitFacts DEF TypeOK
<1>4. n \notin Inputs => /\ Values'[n] = Outcome(n).value
                         /\ Values[n] = Read(n, n, cycle - 1)
                         /\ n \in Memories => store[n] = Outcome(n).store
  BY <1>1, <1>2, ValuesAtEnd DEF CycleEnds, VInv, ValuesInPlace
<1> HIDE DEF kind
<1>6. CASE kind = "INPUT"
  <2>1. n \in Inputs /\ n \notin Memories BY <1>1, <1>6 DEF kind, Inputs, Memories, OfKind
  <2>2. cycle % 2 = 1 => Values'[n] = Values[n]
    <3> SUFFICES ASSUME cycle % 2 = 1 PROVE Values'[n] = Values[n]
      OBVIOUS
    <3>1. cycle > 0 BY <1>1
    <3>2. Values[n] = inFile[cycle][n] BY <2>1, <3>1, ValuesAtEnd
    <3> QED BY <2>1, <3>2, <1>1, <1>2
  <2>3. SeenCorrect(n) <=> (cycle % 2 = 1 => Values'[n] = Values[n])
    BY <1>6 DEF SeenCorrect, kind
  <2> QED BY <2>1, <2>2, <2>3
<1> DEFINE Before(i) == Read(n, pin[i], cycle - 1)
           Now(i)    == Read(n, pin[i], cycle)
<1>7. CASE kind = "CLOCK"
  <2>1. n \notin Inputs /\ n \notin Memories BY <1>7 DEF kind, Inputs, Memories, OfKind
  <2>2. Outcome(n).value = cycle % 2 BY <1>7 DEF kind, Outcome, ComputedFrom
  <2>3. SeenCorrect(n) <=> Values'[n] = cycle % 2
    BY <1>7 DEF SeenCorrect, kind
  <2> QED BY <2>1, <2>2, <2>3, <1>4
<1>8. CASE kind = "FF"
  <2>1. n \notin Inputs /\ n \notin Memories BY <1>8 DEF kind, Inputs, Memories, OfKind
  <2>2. pin[1] \in Node \cup {Undriven} /\ pin[2] \in Node \cup {Undriven}
    BY <1>3, <1>8, ElementOfSeq
  <2>3. /\ SeenEdge(n, pin[2]) <=> IsPosedge(n, pin[2], cycle)
        /\ IsPosedge(n, pin[2], cycle) => SeenBefore(n, pin[1]) = Before(1)
    BY <2>2, <1>1, <1>3, <1>8, EdgeAtEnd, SeenAtEnd
  <2>4. Outcome(n).value = IF IsPosedge(n, pin[2], cycle) THEN Before(1) ELSE Read(n, n, cycle - 1)
    BY <1>8 DEF kind, Outcome, ComputedFrom, FlipFlop
  <2>5. SeenCorrect(n) <=> Values'[n] = IF SeenEdge(n, pin[2])
                                             THEN SeenBefore(n, pin[1]) ELSE Values[n]
    BY <1>8 DEF SeenCorrect, Seen, SeenBefore, SeenEdge, kind
  <2> QED BY <2>1, <2>3, <2>4, <2>5, <1>4
<1>9. CASE kind = "MEMORY"
  <2>1. n \notin Inputs /\ n \in Memories BY <1>1, <1>9 DEF kind, Inputs, Memories, OfKind
  <2>2. \A i \in 1..4 : pin[i] \in Node \cup {Undriven}
    BY <1>3, <1>9, ElementOfSeq
  <2>3. pin[1] \in Node \cup {Undriven} /\ pin[2] \in Node \cup {Undriven}
        /\ pin[3] \in Node \cup {Undriven} /\ pin[4] \in Node \cup {Undriven}
    BY <2>2
  <2>4. /\ SeenEdge(n, pin[1]) <=> IsPosedge(n, pin[1], cycle)
        /\ IsPosedge(n, pin[1], cycle) => /\ SeenBefore(n, pin[2]) = Before(2)
                                          /\ SeenBefore(n, pin[3]) = Before(3)
                                          /\ SeenBefore(n, pin[4]) = Before(4)
    BY <2>3, <1>1, <1>3, <1>9, EdgeAtEnd, SeenAtEnd
  <2>5. Seen(pin[4]) = Now(4)
    BY <2>3, <1>1, SeenAtEnd
  <2>7. SeenWritten(n) = MemoryWrite(n, stored[n])
    <3>1. SeenWritten(n) =
            IF SeenEdge(n, pin[1]) /\ SeenBefore(n, pin[4]) # Unknown /\ SeenBefore(n, pin[2]) # 0
            THEN [stored[n] EXCEPT ![SeenBefore(n, pin[4])] = SeenBefore(n, pin[3])]
            ELSE stored[n]
      BY DEF SeenWritten, Seen, SeenBefore, SeenEdge
    <3>2. MemoryWrite(n, stored[n]) =
            IF IsPosedge(n, pin[1], cycle) /\ Before(4) # Unknown /\ Before(2) # 0
            THEN [stored[n] EXCEPT ![Before(4)] = Before(3)] ELSE stored[n]
      BY DEF MemoryWrite
    <3> HIDE DEF Before
    <3> QED BY <3>1, <3>2, <2>4
  <2>8. Outcome(n).store = MemoryWrite(n, stored[n])
        /\ Outcome(n).value = MemoryRead(n, MemoryWrite(n, stored[n]))
    BY <1>9 DEF kind, Outcome, ComputedFrom
  <2>9. store[n] = SeenWritten(n) BY <2>1, <2>7, <2>8, <1>4
  <2>10. Values'[n] = IF Now(4) = Unknown THEN Unknown ELSE stored'[n][Now(4)]
    BY <2>1, <2>7, <2>8, <2>9, <1>1, <1>4 DEF MemoryRead
  <2>11. SeenCorrect(n) <=> Values'[n] = IF Seen(pin[4]) = Unknown
                                              THEN Unknown
                                              ELSE stored'[n][Seen(pin[4])]
    BY <1>9 DEF SeenCorrect, Seen, SeenBefore, SeenEdge, kind
  <2> QED BY <2>5, <2>9, <2>10, <2>11
<1>10. CASE kind \notin {"INPUT", "CLOCK", "FF", "MEMORY"}
  <2>1. n \notin Inputs /\ n \notin Memories BY <1>10 DEF kind, Inputs, Memories, OfKind
  <2>2. \A i \in DOMAIN pin : Seen(pin[i]) = Now(i)
    <3> TAKE i \in DOMAIN pin
    <3>1. i \in 1..Len(pin) BY <1>3, LenProperties
    <3>2. pin[i] \in Node \cup {Undriven} BY <3>1, <1>3, ElementOfSeq
    <3> QED BY <3>2, <1>1, SeenAtEnd
  <2>3. [i \in DOMAIN pin |-> Seen(pin[i])] = [i \in DOMAIN pin |-> Now(i)]
    BY <2>2
  <2>4. Outcome(n).value = Gate(kind, [i \in DOMAIN pin |-> Now(i)], Read(n, n, cycle - 1))
    BY <1>10 DEF kind, Outcome, ComputedFrom
  <2>5. SeenCorrect(n) <=>
          Values'[n] = Abstract!Gate(kind, [i \in DOMAIN pin |-> Seen(pin[i])], Values[n])
    BY <1>10 DEF SeenCorrect, Seen, SeenBefore, SeenEdge, kind
  <2> HIDE DEF Now
  <2> QED BY <2>1, <2>3, <2>4, <2>5, <1>4, GateSame
<1> QED BY <1>6, <1>7, <1>8, <1>9, <1>10

\* A value nothing computes would have been missed in the fourth cycle.
LEMMA NothingMissed ==
  ASSUME CycleEnds, cycle = 3
  PROVE  ~Abstract!ReadsUncomputed(Circuit, Abstract!ComputableIn[name])
<1> SUFFICES ASSUME NEW n \in ToSet(ordered), NEW d \in ToSet(Pins(n)) \ {Undriven}
             PROVE  d \in ToSet(ordered)
  BY DEF Abstract!ReadsUncomputed, Abstract!ToSet, ToSet, Pins, CycleEnds
<1>1. phase = "stage"
  BY DEF CycleEnds, IInv, Control
<1>2. Drivers(n) \subseteq ToSet(ordered)
  BY <1>1 DEF CycleEnds, VInv, Stamped
<1> QED BY <1>2 DEF Drivers

LEMMA OutputsAtEnd ==
  ASSUME CycleEnds
  PROVE  VectorsSoFar' = Append(VectorsSoFar, [o \in Outputs |-> Values'[o]])
<1> DEFINE w    == Len(outFile)
           old  == OutputVectors(w, cycle)
           more == OutputVectors(w, cycle + 1)
           last == [o \in Outputs |-> Values'[o]]
           V    == [Outputs -> Value]
<1>1. /\ TypeOK /\ w \in Nat /\ cycle \in Nat /\ w <= cycle /\ cycle' = cycle + 1
      /\ UNCHANGED <<name, ring>> /\ Outputs \subseteq Node
  BY EndFacts DEF CycleEnds, Outputs, OfKind
<1>2. last = [o \in Outputs |-> ring[o][Offset(cycle)]]
  BY <1>1, ValuesAtEnd
<1>3. /\ old \in Seq(V) /\ Len(old) = cycle - w
      /\ \A i \in 1..(cycle - w) : old[i] = [o \in Outputs |-> ring[o][Offset(w + i - 1)]]
  BY <1>1, OutputVectorsType
<1>4. /\ more \in Seq(V) /\ Len(more) = (cycle + 1) - w
      /\ \A i \in 1..((cycle + 1) - w) : more[i] = [o \in Outputs |-> ring[o][Offset(w + i - 1)]]
  <2>1. cycle + 1 \in Nat /\ w <= cycle + 1 BY <1>1
  <2> HIDE DEF w
  <2> QED BY <1>1, <2>1, OutputVectorsType
<1>5. last \in V
  <2>1. \A o \in Outputs : Values'[o] \in Value
    BY <1>1, ValuesAtEnd
  <2> QED BY <2>1
<1>6. outFile \in Seq(V) BY <1>1 DEF TypeOK
<1>7. more = Append(old, last)
  <2>1. /\ Append(old, last) \in Seq(V) /\ Len(Append(old, last)) = (cycle - w) + 1
        /\ \A i \in 1..(cycle - w) : Append(old, last)[i] = old[i]
        /\ Append(old, last)[(cycle - w) + 1] = last
    <3> HIDE DEF old, last, V, w
    <3> QED BY <1>3, <1>5, AppendProperties
  <2>2. \A i \in 1..((cycle + 1) - w) : more[i] = Append(old, last)[i]
    <3> TAKE i \in 1..((cycle + 1) - w)
    <3>1. CASE i \in 1..(cycle - w)
      <4> HIDE DEF old, last, more
      <4> QED BY <3>1, <2>1, <1>3, <1>4
    <3>2. CASE i = (cycle - w) + 1
      <4>1. w + i - 1 = cycle BY <3>2, <1>1
      <4>2. more[i] = last BY <4>1, <1>2, <1>4
      <4> HIDE DEF old, last, more
      <4> QED BY <3>2, <4>2, <2>1
    <3>3. i \in 1..(cycle - w) \/ i = (cycle - w) + 1
      <4> HIDE DEF w
      <4> QED BY <1>1
    <3> QED BY <3>1, <3>2, <3>3
  <2>3. Len(more) = Len(Append(old, last))
    <3> HIDE DEF old, last, more, w
    <3> QED BY <2>1, <1>1, <1>4
  <2> HIDE DEF old, last, more, V, w
  <2> QED BY <1>4, <2>1, <2>2, <2>3, SeqEqual
<1>8. VectorsSoFar = outFile \o old
  BY DEF VectorsSoFar
<1>9. VectorsSoFar' = outFile \o more
  <2>1. CASE cycle + 1 = NumCycles \/ (cycle + 1) % WaveLength = 0
    <3>1. outFile' = outFile \o more BY <2>1 DEF CycleEnds, EndCycle
    <3>2. Len(outFile') = cycle + 1
      <4> HIDE DEF more, w, V
      <4>1. Len(outFile \o more) = Len(outFile) + Len(more) BY <1>4, <1>6, ConcatProperties
      <4> QED BY <3>1, <4>1, <1>1, <1>4 DEF w
    <3>3. OutputVectors(Len(outFile), cycle)' = <<>>
      <4>1. Len(outFile)' = cycle + 1 /\ cycle' = cycle + 1 BY <3>2, <1>1
      <4>2. 1..(cycle' - Len(outFile)') = {} BY <4>1, <1>1
      <4> QED BY <4>2 DEF OutputVectors
    <3>4. (outFile \o more) \o <<>> = outFile \o more
      <4> HIDE DEF more, V
      <4>1. outFile \o more \in Seq(V) BY <1>4, <1>6, ConcatProperties
      <4> QED BY <4>1, ConcatEmptySeq
    <3> QED BY <3>1, <3>3, <3>4 DEF VectorsSoFar
  <2>2. CASE ~(cycle + 1 = NumCycles \/ (cycle + 1) % WaveLength = 0)
    <3>1. outFile' = outFile BY <2>2 DEF CycleEnds, EndCycle
    <3>2. OutputVectors(Len(outFile), cycle)' = more
      BY <3>1, <1>1, CircuitSteady DEF OutputVectors
    <3> QED BY <3>1, <3>2 DEF VectorsSoFar
  <2> QED BY <2>1, <2>2
<1>10. outFile \o Append(old, last) = Append(outFile \o old, last)
  <2> HIDE DEF old, last, V
  <2>1. /\ Append(old, last) = old \o <<last>> /\ <<last>> \in Seq(V)
        /\ outFile \o old \in Seq(V)
    BY <1>3, <1>5, <1>6, AppendIsConcat, ConcatProperties
  <2>2. Append(outFile \o old, last) = (outFile \o old) \o <<last>>
    BY <2>1, <1>5, AppendIsConcat
  <2> QED BY <2>1, <2>2, <1>3, <1>6, ConcatAssociative
<1> QED BY <1>7, <1>8, <1>9, <1>10

\* The step that ends a cycle is the step of the circuit.
LEMMA StepAtEnd ==
  ASSUME CycleEnds, MemoriesAreClocked
  PROVE  Abstract!Step
<1> DEFINE C == Abstract!ComputableIn[name]
<1>1. /\ TypeOK /\ Control /\ cycle \in Nat /\ cycle < NumCycles /\ cycle' = cycle + 1
      /\ stored' = store /\ name' = name /\ ToSet(ordered) = C
      /\ phase \in {"first", "stage"} /\ DoneNow = ToSet(ordered)
  BY EndFacts DEF CycleEnds
<1>2. Status = "running" BY <1>1 DEF Status
<1>3. Values' \in [Abstract!Node(Abstract!Circuit) -> Abstract!Value]
  BY ValuesAtEnd DEF Abstract!Node, Abstract!Circuit, Node, Circuit, Abstract!Value, Value,
     Abstract!Unknown, Unknown
<1>4. stored' = [n \in DOMAIN stored |-> IF n \in C THEN Abstract!Written(n) ELSE stored[n]]
  <2>1. store \in [Memories -> [0..1 -> Value]] /\ stored \in [Memories -> [0..1 -> Value]]
    BY <1>1 DEF TypeOK
  <2>2. ASSUME NEW n \in Memories
        PROVE  store[n] = IF n \in C THEN Abstract!Written(n) ELSE stored[n]
    <3>1. CASE n \in C
      <4>1. store[n] = SeenWritten(n) BY <3>1, <1>1, CorrectAtEnd
      <4> QED BY <3>1, <4>1, SeenByCircuit
    <3>2. CASE n \notin C
      <4>1. store[n] = stored[n]
        BY <3>2, <1>1 DEF CycleEnds, VInv, ValuesInPlace
      <4> QED BY <3>2, <4>1
    <3> QED BY <3>1, <3>2
  <2> QED BY <2>1, <2>2, <1>1
<1>5. ASSUME NEW n \in Node
      PROVE  IF n \in C THEN Abstract!Correct(n) ELSE Values'[n] = Values[n]
  <2>1. CASE n \in C
    <3>1. SeenCorrect(n) BY <2>1, <1>1, CorrectAtEnd
    <3> QED BY <2>1, <3>1, SeenByCircuit
  <2>2. CASE n \notin C
    <3>1. n \notin ToSet(ordered) \cup Inputs
      <4>1. Inputs \subseteq ToSet(Circuit.start) BY <1>1, CircuitFacts DEF TypeOK
      <4>2. ToSet(Circuit.start) \subseteq C BY <1>1, ComputableFacts DEF TypeOK
      <4> QED BY <2>2, <1>1, <4>1, <4>2
    <3>2. ring[n] = [i \in 0..(WaveLength - 1) |-> Circuit.initial[n]]
      BY <3>1 DEF CycleEnds, VInv, Untouched
    <3>3. Offset(cycle) \in 0..(WaveLength - 1) /\ Offset(cycle - 1) \in 0..(WaveLength - 1)
      <4>1. cycle \in Nat \cup {0 - 1} /\ cycle - 1 \in Nat \cup {0 - 1} BY <1>1
      <4> QED BY <4>1, OffsetType
    <3>4. ring[n][Offset(cycle)] = ring[n][Offset(cycle - 1)] BY <3>2, <3>3
    <3>5. Values'[n] = ring[n][Offset(cycle)] /\ Values[n] = ring[n][Offset(cycle - 1)]
      BY <3>1, ValuesAtEnd
    <3> QED BY <2>2, <3>4, <3>5
  <2> QED BY <2>1, <2>2
<1>6. VectorsSoFar' = Append(VectorsSoFar,
                             [o \in Abstract!OfKind(Abstract!Circuit, {"OUTPUT"}) |-> Values'[o]])
  BY OutputsAtEnd DEF Abstract!OfKind, Abstract!Circuit, Abstract!Node, Outputs, OfKind, Node,
     Circuit
<1>7. cycle = 3 => ~Abstract!ReadsUncomputed(Abstract!Circuit, C)
  BY NothingMissed DEF Abstract!Circuit, Circuit
<1>8. Status' = IF cycle' = NumCycles THEN "done" ELSE "running"
  BY <1>1 DEF CycleEnds, EndCycle, Status
<1>9. Abstract!Node(Abstract!Circuit) = Node
  BY DEF Abstract!Node, Abstract!Circuit, Node, Circuit
<1> QED
  BY <1>1, <1>2, <1>3, <1>4, <1>5, <1>6, <1>7, <1>8, <1>9
     DEF Abstract!Step, Values, VectorsSoFar, Status

\* A node that reads what nothing computes stops the simulation in the fourth
\* cycle; that there is one is the circuit's fault.
LEMMA ErrorComplains ==
  ASSUME IInv, VInv, NEW n \in Node, Begin(n), MissesInput(n)
  PROVE  Abstract!Complain
<1>1. /\ TypeOK /\ Control /\ Staging /\ phase = "stage" /\ phase' = "error" /\ cycle = 3
      /\ n \in pending /\ name \in DOMAIN Circuits
      /\ UNCHANGED <<name, cycle, ring, inFile, outFile, stored>>
  BY DEF IInv, TypeOK, Begin, MissesInput
<1>2. ToSet(ordered) = Abstract!ComputableIn[name] /\ n \in ToSet(ordered)
  <2>1. ToSet(ordered) = Abstract!ComputableIn[name] BY <1>1 DEF VInv, SearchComplete
  <2>2. n \in ToSet(stages[stage]) /\ StagesOf(stages, ToSet(ordered)) /\ stage \in DOMAIN stages
    BY <1>1 DEF Staging, TypeOK
  <2>3. ToSet(stages[stage]) \subseteq ToSet(ordered) BY <2>2 DEF StagesOf, Cover
  <2> QED BY <2>1, <2>2, <2>3
<1>3. PICK d \in ToSet(Pins(n)) : PinCycle(d) < cycle - 1
  BY DEF MissesInput
<1>4. d # Undriven /\ stamp[d] < 2 /\ d \in Node
  <2>1. d # Undriven /\ stamp[d] < 2 BY <1>1, <1>3 DEF PinCycle
  <2>2. d \in Node \cup {Undriven}
    <3>1. Pins(n) \in Seq(Node \cup {Undriven}) BY <1>1, CircuitFacts
    <3> QED BY <3>1 DEF ToSet
  <2> QED BY <2>1, <2>2
<1>5. d \notin Inputs
  <2> SUFFICES ASSUME d \in Inputs PROVE FALSE
    OBVIOUS
  <2>1. stamp[d] = Len(inFile) - 1 BY <1>1 DEF VInv, Stamped
  <2>2. Len(inFile) > cycle
    <3>1. Len(inFile) \in Nat /\ Len(outFile) \in Nat /\ WaveLength \in Nat /\ cycle < NumCycles
      BY <1>1, WaveLengths, LenProperties DEF TypeOK, Control
    <3>2. /\ cycle \in Len(outFile)..(Len(outFile) + WaveLength - 1)
          /\ Len(inFile) = Len(outFile) + WaveLength \/ Len(inFile) = NumCycles
      BY <1>1 DEF VInv, WaveOnRing
    <3> QED BY <3>1, <3>2, <1>1
  <2>3. Len(inFile) \in Nat BY <1>1, LenProperties DEF TypeOK
  <2> QED BY <2>1, <2>2, <2>3, <1>1, <1>4
<1>6. d \notin ToSet(ordered)
  <2>1. \A m \in ToSet(ordered) \ Inputs : stamp[m] >= cycle - 1
    BY <1>1 DEF VInv, Stamped
  <2>2. stamp[d] \in Int BY <1>1, <1>4, SizeAssumption DEF TypeOK, NumCycles
  <2> QED BY <2>1, <2>2, <1>1, <1>4, <1>5
<1>7. Abstract!ReadsUncomputed(Abstract!Circuit, Abstract!ComputableIn[name])
  BY <1>2, <1>3, <1>4, <1>6 DEF Abstract!ReadsUncomputed, Abstract!ToSet, ToSet, Pins,
     Abstract!Circuit, Circuit
<1>8. Values' = Values /\ VectorsSoFar' = VectorsSoFar
  <2>1. Values' = Values
    <3>1. \A m \in Node : Given(m, m, cycle - 1)' = Given(m, m, cycle - 1)
      BY <1>1, CircuitSteady DEF Given
    <3> QED BY <3>1, <1>1, CircuitSteady DEF Values
  <2> QED BY <2>1, <1>1, CircuitSteady DEF VectorsSoFar, OutputVectors
<1>9. Status = "running" /\ Status' = "error" BY <1>1 DEF Status
<1> QED
  BY <1>1, <1>7, <1>8, <1>9 DEF Abstract!Complain, Values, VectorsSoFar, Status

\* Storing a node's value is a write to one net, or none.
LEMMA StoreStutters ==
  ASSUME IInv, VInv, phase \in {"first", "stage"}, phase' = phase,
         UNCHANGED <<name, cycle, inFile, outFile, stored>>,
         NEW n \in Node, NEW w, Store(n, w)
  PROVE  UNCHANGED Abstract!vars
<1>1. CASE n \in Inputs
  <2>1. ring' = ring BY <1>1 DEF Store
  <2>2. Undriven \notin Inputs
    BY CircuitFacts DEF IInv, TypeOK, Inputs, OfKind
  <2> QED BY <2>1, <2>2, WritesStutter
<1>2. CASE n \notin Inputs
  <2>1. ring' = [ring EXCEPT ![n][Offset(cycle)] = w.value] BY <1>2 DEF Store
  <2> QED BY <2>1, <1>2, WritesStutter
<1> QED BY <1>1, <1>2

LEMMA SameStutters ==
  ASSUME UNCHANGED <<name, cycle, ring, inFile, outFile, stored>>, Status' = Status
  PROVE  UNCHANGED Abstract!vars
<1>1. Values' = Values
  <2>1. \A n \in Node : Given(n, n, cycle - 1)' = Given(n, n, cycle - 1)
    BY CircuitSteady DEF Given
  <2> QED BY <2>1, CircuitSteady DEF Values
<1>2. VectorsSoFar' = VectorsSoFar
  BY CircuitSteady DEF VectorsSoFar, OutputVectors
<1> QED BY <1>1, <1>2 DEF Abstract!vars, Values, VectorsSoFar, Status

\* Every step of the simulator is a step of the circuit or none.
LEMMA StepOfCircuit ==
  ASSUME MemoriesAreClocked, IInv, VInv, [Next]_vars
  PROVE  [Abstract!Next]_(Abstract!vars)
<1>1. CASE ReadVectors
  BY <1>1, ReadVectorsStutters
<1>2. CASE SimulateFirst
  <2>1. Head(queue) \in Node
    BY <1>2, HeadTailProperties DEF IInv, TypeOK, SimulateFirst
  <2> QED BY <1>2, <2>1, StoreStutters DEF SimulateFirst
<1>3. CASE OrganiseStages
  BY <1>3, OrganiseStagesEnds, StepAtEnd DEF Abstract!Next
<1>4. ASSUME NEW n \in Node, Begin(n) PROVE [Abstract!Next]_(Abstract!vars)
  <2>1. CASE MissesInput(n)
    BY <1>4, <2>1, ErrorComplains DEF Abstract!Next
  <2>2. CASE ~MissesInput(n)
    <3>1. UNCHANGED <<name, cycle, ring, inFile, outFile, stored>> /\ Status' = Status
      BY <1>4, <2>2 DEF Begin, Status
    <3> QED BY <3>1, SameStutters
  <2> QED BY <2>1, <2>2
<1>5. ASSUME NEW n \in Node, Finish(n) PROVE UNCHANGED Abstract!vars
  BY <1>5, StoreStutters DEF Finish
<1>6. CASE NextStage
  <2>1. UNCHANGED <<name, cycle, ring, inFile, outFile, stored>> /\ Status' = Status
    BY <1>6 DEF NextStage, Status
  <2> QED BY <2>1, SameStutters
<1>7. CASE NextCycle
  BY <1>7, NextCycleEnds, StepAtEnd DEF Abstract!Next
<1>8. CASE UNCHANGED vars
  <2>1. UNCHANGED <<name, cycle, ring, inFile, outFile, stored>> /\ Status' = Status
    BY <1>8 DEF vars, Status
  <2> QED BY <2>1, SameStutters
<1> QED BY <1>1, <1>2, <1>3, <1>4, <1>5, <1>6, <1>7, <1>8 DEF Next, SimulatorStep, Done

\* The order the first cycle finds, the stages, the threads, the ring of values
\* and the waves are invisible: every behaviour of the simulator is one of the
\* circuit, for every netlist in which clocks clock the memories.  This is what
\* SimulatesCircuit says of safety.
THEOREM SimulatorImplementsCircuit ==
  ASSUME MemoriesAreClocked
  PROVE  Spec => Abstract!Init /\ [][Abstract!Next]_(Abstract!vars)
<1>1. Init => Abstract!Init
  BY AbstractInit
<1>2. IInv /\ VInv /\ [Next]_vars => [Abstract!Next]_(Abstract!vars)
  BY StepOfCircuit
<1> QED BY <1>1, <1>2, SimulatorValues, PTL DEF Spec
=============================================================================
