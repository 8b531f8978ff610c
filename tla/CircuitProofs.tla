---------------------------- MODULE CircuitProofs ----------------------------
(***************************************************************************)
(* Proofs about Circuit: the inductive invariant of the reader and of      *)
(* process_circuit(), and the properties that follow from it.              *)
(***************************************************************************)
EXTENDS Circuit, AtomNetlistProofs

\* A new pin is growth of its block.
LEMMA MadeGrows ==
  ASSUME NEW n, Typed(n), NEW q \in DOMAIN n.ports, NEW b, b = n.ports[q].block,
         NEW p, NEW k, NEW j, NEW const, NEW m, PinMade(n, q, b, p, k, j, const, m)
  PROVE  Grown(n, m, b)
<1>1. InRange(n) /\ n \in Netlists /\ b \in DOMAIN n.blocks
  BY DEF Typed, InRange
<1>2. \A x \in DOMAIN n.blocks : n.blocks[x].pins \subseteq m.blocks[x].pins
  BY <1>1 DEF PinMade
<1>3. PinBlock(m, p) = b
  BY DEF PinMade, PinBlock
<1>4. \A x \in DOMAIN m.pins \ DOMAIN n.pins :
         /\ m.pins[x].valid /\ PinBlock(m, x) = b
         /\ m.pins[x].net \in DOMAIN m.nets /\ m.nets[m.pins[x].net].valid
  <2> TAKE x \in DOMAIN m.pins \ DOMAIN n.pins
  <2>1. x = p BY DEF PinMade
  <2> QED BY <2>1, <1>3 DEF PinMade
<1>5. \A l \in DOMAIN n.nets : m.nets[l].valid = n.nets[l].valid /\ m.nets[l].name = n.nets[l].name
  BY DEF PinMade
<1> QED BY <1>2, <1>4, <1>5 DEF PinMade, Grown

-----------------------------------------------------------------------------
(* The callbacks keep what is true of a circuit while it is read.          *)

\* Nothing was removed yet, and every pin names a net.
Fresh(n) == /\ \A b \in DOMAIN n.blocks : n.blocks[b].valid
            /\ \A q \in DOMAIN n.ports : n.ports[q].valid
            /\ \A p \in DOMAIN n.pins : n.pins[p].valid /\ n.pins[p].net # 0
            /\ PortsFit(n) /\ Plainly(n)

\* What a circuit is while it is read, between statements
ReadOK(n) == Good(n) /\ (n.error = "none" => Fresh(n) /\ PadsNamed(n) /\ Pinned(n))

\* ... but for block b, which may have no pin yet
MakingOK(n, b) ==
  /\ Good(n)
  /\ n.error = "none" =>
        /\ Fresh(n) /\ PadsNamed(n) /\ b \in DOMAIN n.blocks
        /\ \A a \in DOMAIN n.blocks : a # b => n.blocks[a].pins # {}

\* The names the reader makes of a base name.
LEMMA NamesAreNames ==
  \A x \in Base : Plain(x) \in Name /\ OutPad(x) \in Name /\ AsData(x) \in Name
BY DEF Plain, OutPad, AsData, Name

\* A new block begins as one that is being made.
LEMMA MakingBegins ==
  ASSUME NEW n, ReadOK(n), NEW name \in Name, NEW model \in Model, NEW table \in Table,
         NEW m, m = CreateBlock(n, name, model, table)
  PROVE  /\ MakingOK(m, m.blockOf[name])
         /\ m.error = "none" => /\ n.error = "none"
                                /\ m.blocks[m.blockOf[name]].model = model
                                /\ m.blocks[m.blockOf[name]].name = name
<1>1. Good(n) BY DEF ReadOK
<1>2. Good(m) BY <1>1, CreateBlockEffect
<1>3. ASSUME m.error = "none"
      PROVE  /\ Fresh(m) /\ PadsNamed(m) /\ m.blockOf[name] \in DOMAIN m.blocks
             /\ \A a \in DOMAIN m.blocks : a # m.blockOf[name] => m.blocks[a].pins # {}
             /\ n.error = "none"
             /\ m.blocks[m.blockOf[name]].model = model
             /\ m.blocks[m.blockOf[name]].name = name
  <2> DEFINE new == Len(n.blocks) + 1
  <2>1. /\ n.error = "none"
        /\ m.blockOf[name] = new
        /\ DOMAIN m.blocks = DOMAIN n.blocks \cup {new}
        /\ \A b \in DOMAIN n.blocks : m.blocks[b] = n.blocks[b]
        /\ m.blocks[new] = [valid |-> TRUE, name |-> name, model |-> model, table |-> table,
                            ports |-> {}, pins |-> {}]
        /\ m.ports = n.ports /\ m.pins = n.pins /\ m.nets = n.nets
    BY <1>1, <1>3, CreateBlockEffect
  <2>2. m.blocks[new].valid /\ m.blocks[new].name = name /\ m.blocks[new].model = model
    BY <2>1
  <2>3. Fresh(n) /\ PadsNamed(n) /\ Pinned(n) BY <2>1 DEF ReadOK
  <2>4. \A p \in DOMAIN n.pins : n.pins[p].port \in DOMAIN n.ports /\ n.ports[n.pins[p].port].block \in DOMAIN n.blocks
    BY Zenon, <1>1 DEF Good, Typed, InRange
  <2> HIDE DEF new
  <2>5. \A p \in DOMAIN n.pins : PinBlock(m, p) = PinBlock(n, p) /\ IsSink(m, p) = IsSink(n, p)
                                 /\ m.blocks[PinBlock(n, p)] = n.blocks[PinBlock(n, p)]
    BY <2>1, <2>4 DEF PinBlock, IsSink
  <2>9. PortsFit(m)
    <3>1. \A q \in DOMAIN n.ports : n.ports[q].block \in DOMAIN n.blocks
      BY <1>1 DEF Good, Typed, InRange
    <3> QED BY <2>1, <2>3, <3>1 DEF Fresh, PortsFit
  <2>6. Fresh(m) BY <2>1, <2>2, <2>3, <2>9 DEF Fresh, Plainly
  <2>7. PadsNamed(m) BY <2>1, <2>3, <2>5 DEF PadsNamed
  <2>8. \A a \in DOMAIN m.blocks : a # m.blockOf[name] => m.blocks[a].pins # {}
    BY <2>1, <2>3 DEF Fresh, Pinned
  <2> QED BY <2>1, <2>2, <2>6, <2>7, <2>8
<1> QED BY <1>2, <1>3 DEF MakingOK

\* Growth of block b keeps what is true, if the net of a new pad is the pad's.
LEMMA GrowthKeeps ==
  ASSUME NEW n, Good(n), NEW m, Good(m), NEW b \in DOMAIN n.blocks, Grown(n, m, b),
         n.error = "none", PadsNamed(n),
         \/ n.blocks[b].model # "input"
         \/ \A p \in DOMAIN m.pins \ DOMAIN n.pins : m.nets[m.pins[p].net].name = n.blocks[b].name,
         \A q \in DOMAIN m.ports \ DOMAIN n.ports : Fits(n.blocks[b].model, m.ports[q].name),
         \A k \in DOMAIN m.nets \ DOMAIN n.nets : \E x \in Base : m.nets[k].name = Plain(x)
  PROVE  /\ PadsNamed(m)
         /\ Fresh(n) => Fresh(m)
         /\ \A a \in DOMAIN n.blocks : n.blocks[a].pins # {} => m.blocks[a].pins # {}
<1>1. InRange(n) /\ InRange(m) /\ n \in Netlists /\ m \in Netlists
  BY Zenon DEF Good, Typed
<1>2. \A p \in DOMAIN n.pins : PinBlock(m, p) = PinBlock(n, p) /\ IsSink(m, p) = IsSink(n, p)
                               /\ PinBlock(n, p) \in DOMAIN n.blocks
  BY <1>1 DEF PinBlock, IsSink, Grown, InRange
<1>3. PadsNamed(m)
  <2> SUFFICES ASSUME NEW p \in DOMAIN m.pins, m.blocks[PinBlock(m, p)].model = "input",
                      m.pins[p].valid, ~IsSink(m, p), m.pins[p].net # 0
               PROVE  m.nets[m.pins[p].net].name = m.blocks[PinBlock(m, p)].name
    BY Zenon DEF PadsNamed
  <2>1. CASE p \in DOMAIN n.pins
    <3>1. m.pins[p] = n.pins[p] /\ n.pins[p].net \in DOMAIN n.nets
      BY Zenon, <2>1, <1>1 DEF Grown, InRange
    <3>2. n.blocks[PinBlock(n, p)].model = "input" /\ n.blocks[PinBlock(n, p)].name = m.blocks[PinBlock(m, p)].name
      BY <2>1, <1>2 DEF Grown
    <3>3. n.nets[n.pins[p].net].name = n.blocks[PinBlock(n, p)].name
      BY <2>1, <3>1, <3>2, <1>2 DEF PadsNamed
    <3> QED BY SMTT(30), <3>1, <3>2, <3>3 DEF Grown
  <2>2. CASE p \notin DOMAIN n.pins
    <3>1. PinBlock(m, p) = b BY <2>2 DEF Grown
    <3>2. m.blocks[b].model = n.blocks[b].model /\ m.blocks[b].name = n.blocks[b].name BY DEF Grown
    <3> QED BY Zenon, <2>2, <3>1, <3>2
  <2> QED BY <2>1, <2>2
<1>4. ASSUME Fresh(n) PROVE Fresh(m)
  <2>1. \A a \in DOMAIN m.blocks : m.blocks[a].valid BY <1>4 DEF Fresh, Grown
  <2>2. \A q \in DOMAIN m.ports : m.ports[q].valid BY <1>4 DEF Fresh, Grown
  <2>3. \A p \in DOMAIN m.pins : m.pins[p].valid /\ m.pins[p].net # 0
    BY <1>1, <1>4, ZeroIsNoId DEF Fresh, Grown
  <2>4. PortsFit(m)
    <3> SUFFICES ASSUME NEW q \in DOMAIN m.ports
                 PROVE  Fits(m.blocks[m.ports[q].block].model, m.ports[q].name)
      BY Zenon DEF PortsFit
    <3>1. CASE q \in DOMAIN n.ports
      <4>1. n.ports[q].block \in DOMAIN n.blocks BY <3>1, <1>1 DEF InRange
      <4>2. m.ports[q].block = n.ports[q].block /\ m.ports[q].name = n.ports[q].name
        BY <3>1 DEF Grown
      <4>3. m.blocks[m.ports[q].block].model = n.blocks[n.ports[q].block].model BY <4>1, <4>2 DEF Grown
      <4> QED BY <3>1, <4>2, <4>3, <1>4 DEF Fresh, PortsFit
    <3>2. CASE q \notin DOMAIN n.ports
      <4>1. m.ports[q].block = b BY <3>2 DEF Grown
      <4>2. m.blocks[b].model = n.blocks[b].model BY DEF Grown
      <4> QED BY <3>2, <4>1, <4>2
    <3> QED BY <3>1, <3>2
  <2>5. Plainly(m)
    <3>1. Plainly(n) BY <1>4 DEF Fresh
    <3>2. \A k \in DOMAIN n.nets : m.nets[k].name = n.nets[k].name BY DEF Grown
    <3> QED BY <3>1, <3>2 DEF Plainly
  <2> QED BY <2>1, <2>2, <2>3, <2>4, <2>5 DEF Fresh
<1>5. \A a \in DOMAIN n.blocks : n.blocks[a].pins # {} => m.blocks[a].pins # {}
  BY DEF Grown
<1> QED BY <1>3, <1>4, <1>5

\* The ports create_port() makes have the name asked for.
LEMMA PortsMade ==
  ASSUME NEW n, Good(n), NEW b, NEW pn, NEW m, m = CreatePort(n, b, pn),
         NEW q \in DOMAIN m.ports \ DOMAIN n.ports
  PROVE  m.ports[q].name = pn
<1> DEFINE r == [valid |-> TRUE, block |-> b, name |-> pn, pins |-> <<>>]
           t == Append(n.ports, r)
           g == [n.blocks EXCEPT ![b] = [n.blocks[b] EXCEPT !.ports = @ \cup {Len(n.ports) + 1}]]
<1>1. n \in Netlists BY DEF Good, Typed
<1>2. m # n OBVIOUS
<1>3. m = [n EXCEPT !.ports = t, !.blocks = g] BY <1>2 DEF CreatePort
<1>4. n.ports \in Seq(PortRecs) /\ Len(n.ports) \in Nat /\ DOMAIN n.ports = 1..Len(n.ports)
  BY <1>1, Shape DEF Netlists
<1>5. r.name = pn OBVIOUS
<1> HIDE DEF r, g
<1>6. DOMAIN t = DOMAIN n.ports \cup {Len(n.ports) + 1} /\ t[Len(n.ports) + 1] = r
  BY <1>4
<1> HIDE DEF t
<1>7. m.ports = t BY <1>1, <1>3 DEF Netlists
<1> QED BY <1>5, <1>6, <1>7

\* A port of the block being made.
LEMMA MakingPort ==
  ASSUME NEW n, NEW b, MakingOK(n, b), NEW pn \in PortName, NEW m, m = CreatePort(n, b, pn),
         n.error = "none" => Fits(n.blocks[b].model, pn)
  PROVE  /\ MakingOK(m, b)
         /\ m.error = "none" => /\ n.error = "none"
                                /\ m.blocks[b].model = n.blocks[b].model
                                /\ m.blocks[b].name = n.blocks[b].name
<1>1. CASE n.error # "none"
  <2>1. m = n BY <1>1 DEF CreatePort
  <2> QED BY <2>1, <1>1
<1>2. CASE n.error = "none"
  <2>1. b \in DOMAIN n.blocks /\ n.blocks[b].valid /\ Good(n) /\ PadsNamed(n) /\ Fresh(n)
        /\ \A a \in DOMAIN n.blocks : a # b => n.blocks[a].pins # {}
    BY <1>2 DEF MakingOK, Fresh
  <2>2. Good(m) /\ Grown(n, m, b) /\ m.pins = n.pins /\ m.nets = n.nets
    BY <2>1, CreatePortEffect
  <2>3. \A p \in DOMAIN m.pins \ DOMAIN n.pins : m.nets[m.pins[p].net].name = n.blocks[b].name
    BY <2>2
  <2>4. /\ PadsNamed(m) /\ Fresh(m)
        /\ \A a \in DOMAIN n.blocks : n.blocks[a].pins # {} => m.blocks[a].pins # {}
    <3>1. \A q \in DOMAIN m.ports \ DOMAIN n.ports : Fits(n.blocks[b].model, m.ports[q].name)
      BY <1>2, <2>1, PortsMade
    <3> QED BY <1>2, <2>1, <2>2, <2>3, <3>1, GrowthKeeps
  <2>5. DOMAIN m.blocks = DOMAIN n.blocks /\ m.blocks[b].model = n.blocks[b].model
        /\ m.blocks[b].name = n.blocks[b].name
    BY <2>1, <2>2 DEF Grown
  <2> QED BY <1>2, <2>1, <2>2, <2>4, <2>5 DEF MakingOK
<1> QED BY <1>1, <1>2

\* Connect gives the block a pin on the net called x.
LEMMA ConnectEffect ==
  ASSUME NEW n, Good(n), NEW b, n.error = "none" => b \in DOMAIN n.blocks /\ n.blocks[b].valid,
         NEW pn \in PortName, NEW bit \in Nat, NEW x \in Base, NEW const \in BOOLEAN,
         NEW m, m = Connect(n, b, pn, bit, x, const)
  PROVE  /\ Good(m)
         /\ n.error # "none" => m = n
         /\ m.error = "none" =>
               /\ n.error = "none" /\ Grown(n, m, b) /\ m.blocks[b].pins # {}
               /\ \A p \in DOMAIN m.pins \ DOMAIN n.pins :
                     m.nets[m.pins[p].net].name = Plain(x)
               /\ \A y \in DOMAIN m.ports \ DOMAIN n.ports : m.ports[y].name = pn
               /\ \A y \in DOMAIN m.nets \ DOMAIN n.nets : m.nets[y].name = Plain(x)
<1> DEFINE p1 == CreatePort(n, b, pn)
           made == CreateNet(p1, Plain(x))
           q == FindPort(made, b, pn)
           k == made.netOf[Plain(x)]
<1>1. m = CreatePin(made, q, bit, k, const)
  BY DEF Connect
<1>2. CASE n.error # "none"
  <2>1. p1 = n BY <1>2 DEF CreatePort
  <2>2. made = n BY Zenon, <1>2, <2>1 DEF CreateNet
  <2>3. m = n BY <1>1, <1>2, <2>2 DEF CreatePin
  <2> QED BY <2>3, <1>2
<1>3. CASE n.error = "none"
  <2>0. b \in DOMAIN n.blocks /\ n.blocks[b].valid /\ Plain(x) \in Name BY <1>3, NamesAreNames
  <2>1. /\ Good(p1) /\ Grown(n, p1, b)
        /\ FindPort(p1, b, pn) \in DOMAIN p1.ports
        /\ p1.ports[FindPort(p1, b, pn)].block = b
        /\ p1.pins = n.pins /\ p1.nets = n.nets
    BY <1>3, <2>0, CreatePortEffect
  <2>p. \A y \in DOMAIN p1.ports \ DOMAIN n.ports : p1.ports[y].name = pn
    BY PortsMade
  <2>2. p1.error = "none" BY <1>3, <2>1 DEF Grown
  <2>3. /\ Good(made) /\ Grown(p1, made, b) /\ made.pins = p1.pins /\ made.ports = p1.ports
        /\ made.blocks = p1.blocks
    <3> HIDE DEF p1
    <3> QED BY <2>0, <2>1, CreateNetEffect
  <2>4. made.error = "none" BY <2>2, <2>3 DEF Grown
  <2>5. k \in DOMAIN made.nets /\ made.nets[k].valid /\ made.nets[k].name = Plain(x)
    <3> HIDE DEF p1
    <3> QED BY <2>0, <2>1, <2>4, CreateNetEffect
  <2>n. \A y \in DOMAIN made.nets \ DOMAIN n.nets : made.nets[y].name = Plain(x)
    <3> HIDE DEF p1
    <3> TAKE y \in DOMAIN made.nets \ DOMAIN n.nets
    <3>1. y \notin DOMAIN p1.nets /\ made.nets[y].valid BY <2>0, <2>1, <2>4, CreateNetEffect
    <3>2. made.netOf[made.nets[y].name] = y /\ made.nets[y].name \in Name
      BY <2>3, <2>4, <3>1, FieldTypes DEF Good, Refs, NetsNamed, Typed
    <3>3. p1 \in Netlists /\ InRange(p1) BY Zenon, <2>1 DEF Good, Typed
    <3>4. CASE made.nets[y].name # Plain(x)
      <4>1. made.netOf[made.nets[y].name] = p1.netOf[made.nets[y].name]
        BY <2>0, <2>1, <2>4, <3>2, <3>4, CreateNetEffect
      <4>2. y # 0 BY <2>3, <3>1, ZeroIsNoId DEF Good, Typed
      <4> QED BY Zenon, <3>1, <3>2, <3>3, <4>1, <4>2 DEF InRange
    <3> QED BY <3>4
  <2>6. q = FindPort(p1, b, pn) /\ q \in DOMAIN made.ports /\ made.ports[q].block = b
    BY <2>1, <2>3 DEF FindPort
  <2> HIDE DEF p1, made, q, k
  <2>7. Typed(n) /\ Typed(p1) /\ Typed(made) BY <2>1, <2>3 DEF Good
  <2>8. Grown(n, made, b) BY <2>1, <2>3, <2>7, GrownTransitive
  <2>9. /\ Good(m)
        /\ \/ m.error # "none"
           \/ /\ m = made
              /\ \E p \in DOMAIN made.pins : made.pins[p].valid /\ made.pins[p].port = q
           \/ \E p, j : PinMade(made, q, b, p, k, j, const, m)
    BY <1>1, <2>3, <2>4, <2>6, CreatePinEffect
  <2>10. ASSUME m = made, NEW p \in DOMAIN made.pins, made.pins[p].port = q
         PROVE  m.blocks[b].pins # {}
    <3>1. PinBlock(made, p) = b BY <2>6, <2>10 DEF PinBlock
    <3>2. b \in DOMAIN made.blocks BY <2>0, <2>8 DEF Grown
    <3>3. Structure(made) BY <2>3, <2>4 DEF Good, Refs
    <3>4. p \in made.blocks[b].pins BY <3>1, <3>2, <3>3 DEF Structure
    <3> QED BY <3>4, <2>10
  <2>11. ASSUME m = made, NEW p \in DOMAIN m.pins \ DOMAIN n.pins PROVE FALSE
    BY <2>1, <2>3, <2>11
  <2>13. ASSUME m = made PROVE \A y \in DOMAIN m.ports \ DOMAIN n.ports : m.ports[y].name = pn
    BY <2>3, <2>13, <2>p
  <2>14. ASSUME NEW p, NEW j, PinMade(made, q, b, p, k, j, const, m)
         PROVE  \A y \in DOMAIN m.ports \ DOMAIN n.ports : m.ports[y].name = pn
    BY <2>3, <2>14, <2>p DEF PinMade
  <2>15. ASSUME m = made PROVE \A y \in DOMAIN m.nets \ DOMAIN n.nets : m.nets[y].name = Plain(x)
    BY <2>15, <2>n
  <2>16. ASSUME NEW p, NEW j, PinMade(made, q, b, p, k, j, const, m)
         PROVE  \A y \in DOMAIN m.nets \ DOMAIN n.nets : m.nets[y].name = Plain(x)
    <3> TAKE y \in DOMAIN m.nets \ DOMAIN n.nets
    <3>1. y \in DOMAIN made.nets /\ (m.nets[y] = made.nets[y] \/ (y = k /\ m.nets[k].name = made.nets[k].name))
      BY <2>16 DEF PinMade
    <3> QED BY <3>1, <2>n
  <2>12. ASSUME NEW p, NEW j, PinMade(made, q, b, p, k, j, const, m)
         PROVE  /\ Grown(n, m, b) /\ m.blocks[b].pins # {}
                /\ \A y \in DOMAIN m.pins \ DOMAIN n.pins : m.nets[m.pins[y].net].name = Plain(x)
    <3>1. Grown(made, m, b) BY <2>6, <2>7, <2>12, MadeGrows
    <3>2. Typed(m) BY <2>9 DEF Good
    <3>3. Grown(n, m, b) BY <2>7, <2>8, <3>1, <3>2, GrownTransitive
    <3>4. m.blocks[b].pins # {} BY <2>12 DEF PinMade
    <3>5. \A y \in DOMAIN m.pins \ DOMAIN n.pins : m.nets[m.pins[y].net].name = Plain(x)
      <4> TAKE y \in DOMAIN m.pins \ DOMAIN n.pins
      <4>1. y = p BY <2>1, <2>3, <2>12 DEF PinMade
      <4> QED BY <4>1, <2>5, <2>12 DEF PinMade
    <3> QED BY <3>3, <3>4, <3>5
  <2> QED BY <1>3, <2>8, <2>9, <2>10, <2>11, <2>12, <2>13, <2>14, <2>15, <2>16
<1> QED BY <1>2, <1>3

\* A pin of the block being made: with it the block is made.
LEMMA MakingPin ==
  ASSUME NEW n, NEW b, MakingOK(n, b),
         NEW pn \in PortName, NEW bit \in Nat, NEW x \in Base, NEW const \in BOOLEAN,
         n.error = "none" /\ n.blocks[b].model = "input" => n.blocks[b].name = Plain(x),
         n.error = "none" => Fits(n.blocks[b].model, pn),
         NEW m, m = Connect(n, b, pn, bit, x, const)
  PROVE  /\ MakingOK(m, b) /\ ReadOK(m)
         /\ m.error = "none" => /\ n.error = "none"
                                /\ m.blocks[b].model = n.blocks[b].model
                                /\ m.blocks[b].name = n.blocks[b].name
<1>1. Good(n) /\ (n.error = "none" => b \in DOMAIN n.blocks /\ n.blocks[b].valid)
  BY DEF MakingOK, Fresh
<1>2. /\ Good(m)
      /\ m.error = "none" =>
               /\ n.error = "none" /\ Grown(n, m, b) /\ m.blocks[b].pins # {}
               /\ \A p \in DOMAIN m.pins \ DOMAIN n.pins :
                     m.nets[m.pins[p].net].name = Plain(x)
               /\ \A y \in DOMAIN m.ports \ DOMAIN n.ports : m.ports[y].name = pn
               /\ \A y \in DOMAIN m.nets \ DOMAIN n.nets : m.nets[y].name = Plain(x)
  BY <1>1, ConnectEffect
<1>3. CASE m.error # "none"
  BY <1>2, <1>3 DEF MakingOK, ReadOK
<1>4. CASE m.error = "none"
  <2>1. /\ n.error = "none" /\ PadsNamed(n) /\ Fresh(n) /\ b \in DOMAIN n.blocks
        /\ \A a \in DOMAIN n.blocks : a # b => n.blocks[a].pins # {}
    BY <1>2, <1>4 DEF MakingOK
  <2>2. /\ PadsNamed(m) /\ Fresh(m)
        /\ \A a \in DOMAIN n.blocks : n.blocks[a].pins # {} => m.blocks[a].pins # {}
    <3>1. \A q \in DOMAIN m.ports \ DOMAIN n.ports : Fits(n.blocks[b].model, m.ports[q].name)
      BY <1>2, <1>4
    <3> QED BY <1>1, <1>2, <1>4, <2>1, <3>1, GrowthKeeps
  <2>3. DOMAIN m.blocks = DOMAIN n.blocks /\ m.blocks[b].model = n.blocks[b].model
        /\ m.blocks[b].name = n.blocks[b].name
    BY <1>2, <1>4, <2>1 DEF Grown
  <2>4. Pinned(m)
    BY <1>2, <1>4, <2>1, <2>2, <2>3 DEF Pinned
  <2> QED BY <1>2, <1>4, <2>1, <2>2, <2>3, <2>4 DEF MakingOK, ReadOK, Pinned, Fresh
<1> QED BY <1>3, <1>4

\* Block b, of the model and the name given, is being made.
MakingOf(n, b, model, name) ==
  /\ MakingOK(n, b)
  /\ n.error = "none" => n.blocks[b].model = model /\ n.blocks[b].name = name

\* The block called x, if it was made, is one that .cname may rename.
Renamable(n, x) ==
  n.error = "none" => /\ n.blockOf[x] \in DOMAIN n.blocks /\ n.blocks[n.blockOf[x]].valid
                      /\ n.blocks[n.blockOf[x]].model # "input"

\* A block that is no input pad may be renamed.
LEMMA MadeIsRenamable ==
  ASSUME NEW n, NEW b, NEW model, model # "input", NEW name, MakingOf(n, b, model, name)
  PROVE  Renamable(n, name)
<1> SUFFICES ASSUME n.error = "none"
             PROVE  /\ n.blockOf[name] \in DOMAIN n.blocks /\ n.blocks[n.blockOf[name]].valid
                    /\ n.blocks[n.blockOf[name]].model # "input"
  BY DEF Renamable
<1>1. b \in DOMAIN n.blocks /\ n.blocks[b].valid /\ n.blocks[b].model = model
      /\ n.blocks[b].name = name /\ BlocksNamed(n)
  BY DEF MakingOf, MakingOK, Fresh, Good, Refs
<1>2. n.blockOf[name] = b
  BY <1>1 DEF BlocksNamed
<1> QED BY <1>1, <1>2

\* The three lemmas above, for a block of a given model and name.
LEMMA MakingBlock ==
  ASSUME NEW n, ReadOK(n), NEW name \in Name, NEW model \in Model, NEW table \in Table,
         NEW m, m = CreateBlock(n, name, model, table)
  PROVE  MakingOf(m, m.blockOf[name], model, name)
BY MakingBegins DEF MakingOf

\* ... a port of it
LEMMA MakingPortOf ==
  ASSUME NEW n, NEW b, NEW model, NEW name, MakingOf(n, b, model, name), NEW pn \in PortName,
         Fits(model, pn), NEW m, m = CreatePort(n, b, pn)
  PROVE  MakingOf(m, b, model, name)
BY MakingPort DEF MakingOf

\* The block is no input pad.
LEMMA MakingPinOf ==
  ASSUME NEW n, NEW b, NEW model, NEW name, MakingOf(n, b, model, name), model # "input",
         NEW pn \in PortName, Fits(model, pn),
         NEW bit \in Nat, NEW x \in Base, NEW const \in BOOLEAN, NEW m, m = Connect(n, b, pn, bit, x, const)
  PROVE  MakingOf(m, b, model, name) /\ ReadOK(m)
<1>0. MakingOK(n, b) /\ (n.error = "none" => n.blocks[b].model = model /\ n.blocks[b].name = name)
  BY DEF MakingOf
<1>1. n.error = "none" /\ n.blocks[b].model = "input" => n.blocks[b].name = Plain(x)
  BY <1>0
<1>2. /\ MakingOK(m, b) /\ ReadOK(m)
      /\ m.error = "none" => /\ n.error = "none"
                             /\ m.blocks[b].model = n.blocks[b].model
                             /\ m.blocks[b].name = n.blocks[b].name
  BY <1>0, <1>1, MakingPin
<1> QED BY <1>0, <1>2 DEF MakingOf

\* A statement of the file, of the kinds read_blif.cpp has callbacks for
IsStatement(s) == /\ s.op \in Ops /\ s.ins \in Seq(Base) /\ s.out \in Base /\ s.table \in Table
                  /\ s.op \in {"outputs", "subckt", "conn"} => Len(s.ins) >= 1
                  /\ s.op = "latch" => Len(s.ins) >= 2
                  /\ s.op = "conn" => s.out # s.ins[1]

\* A file's statements.
LEMMA StatementFacts ==
  ASSUME NEW i \in DOMAIN Statements
  PROVE  IsStatement(Statements[i])
<1> DEFINE R == [op : Ops, ins : Seq(Base), out : Base, table : Table]
<1>1. Statements \in Seq(R) BY StatementsAssumption DEF StatementsAssumption
<1>2. Statements[i] \in R
  <2> HIDE DEF R
  <2>1. i \in 1..Len(Statements) BY <1>1, LenProperties
  <2> QED BY <1>1, <2>1, ElementOfSeq
<1>3. /\ Statements[i].op \in Ops /\ Statements[i].ins \in Seq(Base)
      /\ Statements[i].out \in Base /\ Statements[i].table \in Table
  BY <1>2
<1> HIDE DEF R
<1>4. /\ Statements[i].op \in {"outputs", "subckt", "conn"} => Len(Statements[i].ins) >= 1
      /\ Statements[i].op = "latch" => Len(Statements[i].ins) >= 2
      /\ Statements[i].op = "conn" => Statements[i].out # Statements[i].ins[1]
  BY StatementsAssumption DEF StatementsAssumption
<1> QED BY <1>3, <1>4 DEF IsStatement

\* A statement's inputs.
LEMMA InsAreNames ==
  ASSUME NEW s, IsStatement(s)
  PROVE  /\ Len(s.ins) \in Nat /\ DOMAIN s.ins = 1..Len(s.ins)
         /\ \A i \in 1..Len(s.ins) : s.ins[i] \in Base
<1>1. s.ins \in Seq(Base) BY DEF IsStatement
<1> QED BY <1>1, LenProperties, ElementOfSeq

\* .inputs keeps it.
LEMMA InputsRead ==
  ASSUME NEW n, ReadOK(n), NEW s, IsStatement(s)
  PROVE  ReadOK(Inputs(n, s))
<1> DEFINE c == FALSE
           made == CreateBlock(n, Plain(s.out), "input", "other")
           b == made.blockOf[Plain(s.out)]
<1>1. s.out \in Base /\ Plain(s.out) \in Name
  BY NamesAreNames DEF IsStatement
<1>2. /\ MakingOK(made, b)
      /\ made.error = "none" => made.blocks[b].name = Plain(s.out) /\ made.blocks[b].model = "input"
  BY <1>1, MakingBegins DEF Model, Table
<1>3. Inputs(n, s) = Connect(made, b, "out", 0, s.out, c)
  BY DEF Inputs
<1>a. c \in BOOLEAN /\ "in" \in PortName /\ "out" \in PortName /\ "clk" \in PortName /\ 0 \in Nat
      /\ Fits("input", "out")
  BY DEF PortName, Fits
<1> HIDE DEF made, b, c
<1> QED BY <1>1, <1>2, <1>3, <1>a, MakingPin

\* .outputs keeps it.
LEMMA OutputsRead ==
  ASSUME NEW n, ReadOK(n), NEW s, IsStatement(s), s.op = "outputs"
  PROVE  ReadOK(Outputs(n, s))
<1> DEFINE c == FALSE
           made == CreateBlock(n, OutPad(s.ins[1]), "output", "other")
           b == made.blockOf[OutPad(s.ins[1])]
<1>1. s.ins[1] \in Base /\ OutPad(s.ins[1]) \in Name
  <2>1. Len(s.ins) >= 1 BY DEF IsStatement
  <2> QED BY <2>1, InsAreNames, NamesAreNames
<1>2. MakingOf(made, b, "output", OutPad(s.ins[1]))
  BY <1>1, MakingBlock DEF Model, Table
<1>3. Outputs(n, s) = Connect(made, b, "in", 0, s.ins[1], c)
  BY DEF Outputs
<1>a. c \in BOOLEAN /\ "in" \in PortName /\ "out" \in PortName /\ "clk" \in PortName /\ 0 \in Nat
      /\ Fits("output", "in")
  BY DEF PortName, Fits
<1> DEFINE x == s.ins[1]
<1>4. x \in Base /\ Outputs(n, s) = Connect(made, b, "in", 0, x, c)
  BY <1>1, <1>3
<1> HIDE DEF made, b, c, x
<1> QED BY <1>2, <1>4, <1>a, MakingPinOf

\* .subckt keeps it.
LEMMA SubcktRead ==
  ASSUME NEW n, ReadOK(n), NEW s, IsStatement(s), s.op = "subckt"
  PROVE  ReadOK(Subckt(n, s)) /\ Renamable(Subckt(n, s), Plain(s.out))
<1> DEFINE c == FALSE
           made == CreateBlock(n, Plain(s.out), "subckt", "other")
           b == made.blockOf[Plain(s.out)]
           d == Connect(made, b, "in", 0, s.ins[1], c)
<1>1. s.ins[1] \in Base /\ s.out \in Base /\ Plain(s.out) \in Name
  <2>1. Len(s.ins) >= 1 /\ s.out \in Base BY DEF IsStatement
  <2> QED BY <2>1, InsAreNames, NamesAreNames
<1>2. MakingOf(made, b, "subckt", Plain(s.out))
  BY <1>1, MakingBlock DEF Model, Table
<1>3. Subckt(n, s) = Connect(d, b, "out", 0, s.out, c)
  BY DEF Subckt
<1>a. c \in BOOLEAN /\ "in" \in PortName /\ "out" \in PortName /\ "clk" \in PortName /\ 0 \in Nat
      /\ Fits("subckt", "in") /\ Fits("subckt", "out")
  BY DEF PortName, Fits
<1> HIDE DEF made, b, c
<1> DEFINE x == s.ins[1]
           z == 0
<1>b. x \in Base /\ z \in Nat /\ d = Connect(made, b, "in", z, x, c) BY <1>1
<1> HIDE DEF d, x, z
<1>4. MakingOf(d, b, "subckt", Plain(s.out))
  BY <1>2, <1>a, <1>b, MakingPinOf
<1> QED BY <1>1, <1>3, <1>4, <1>a, MakingPinOf, MadeIsRenamable

\* .latch keeps it.
LEMMA LatchRead ==
  ASSUME NEW n, ReadOK(n), NEW s, IsStatement(s), s.op = "latch"
  PROVE  ReadOK(Latch(n, s)) /\ Renamable(Latch(n, s), Plain(s.out))
<1> DEFINE c == FALSE
           x == s.ins[1]
           y == s.ins[2]
           made == CreateBlock(n, Plain(s.out), "latch", "other")
           b == made.blockOf[Plain(s.out)]
           d == Connect(made, b, "in", 0, x, c)
           o == Connect(d, b, "out", 0, s.out, c)
<1>1. x \in Base /\ y \in Base /\ s.out \in Base /\ Plain(s.out) \in Name
  <2>1. Len(s.ins) >= 2 /\ s.out \in Base BY DEF IsStatement
  <2> QED BY <2>1, InsAreNames, NamesAreNames
<1>2. MakingOf(made, b, "latch", Plain(s.out))
  BY <1>1, MakingBlock DEF Model, Table
<1>3. Latch(n, s) = Connect(o, b, "clk", 0, y, c)
  BY DEF Latch
<1>a. c \in BOOLEAN /\ "in" \in PortName /\ "out" \in PortName /\ "clk" \in PortName /\ 0 \in Nat
      /\ Fits("latch", "in") /\ Fits("latch", "out") /\ Fits("latch", "clk")
  BY DEF PortName, Fits
<1> HIDE DEF made, b, c, x, y
<1>4. MakingOf(d, b, "latch", Plain(s.out))
  BY <1>1, <1>2, <1>a, MakingPinOf, MadeIsRenamable
<1> HIDE DEF d
<1>5. MakingOf(o, b, "latch", Plain(s.out))
  BY <1>1, <1>4, <1>a, MakingPinOf, MadeIsRenamable
<1> HIDE DEF o
<1> QED BY <1>1, <1>3, <1>5, <1>a, MakingPinOf, MadeIsRenamable

\* f is the circuit after each of the inputs of a .names, and Names the one
\* after its output.
NamesLoop(n, s, made, b, f) ==
  /\ f[0] = CreatePort(made, b, "in")
  /\ \A i \in 1..Len(s.ins) : f[i] = Connect(f[i - 1], b, "in", i - 1, s.ins[i], FALSE)
  /\ Names(n, s) = IF Len(s.ins) > LutInputs THEN Fail(n, "throw")
                   ELSE Connect(f[Len(s.ins)], b, "out", 0, s.out,
                                s.table = "empty" \/ s.ins = <<>>)

\* The loop over the inputs of a .names, step by step
LEMMA NamesSteps ==
  ASSUME NEW n, NEW s, IsStatement(s), NEW made, NEW b,
         made = CreateBlock(n, Plain(s.out), "names", s.table), b = made.blockOf[Plain(s.out)]
  PROVE  \E f : NamesLoop(n, s, made, b, f)
<1> DEFINE L == Len(s.ins)
           p0 == CreatePort(made, b, "in")
           G(x, i) == Connect(x, b, "in", i - 1, s.ins[i], FALSE)
           Is(f, k) == f = [i \in 0..k |-> IF i = 0 THEN p0 ELSE G(f[i - 1], i)]
           All == {k \in Nat : \E f : Is(f, k)}
<1>0. L \in Nat BY InsAreNames
<1> HIDE DEF p0, G
<1>1. 0 \in All
  <2>1. Is([i \in 0..0 |-> p0], 0)
    OBVIOUS
  <2> HIDE DEF Is
  <2> QED BY <2>1
<1>2. \A k \in Nat : k \in All => k + 1 \in All
  <2> SUFFICES ASSUME NEW k \in Nat, k \in All PROVE \E f : Is(f, k + 1)
    <3> HIDE DEF Is
    <3> QED OBVIOUS
  <2>1. PICK f : Is(f, k)
    <3> HIDE DEF Is
    <3> QED OBVIOUS
  <2> DEFINE g == [i \in 0..(k + 1) |-> IF i = k + 1 THEN G(f[k], k + 1) ELSE f[i]]
  <2>2. ASSUME NEW i \in 0..(k + 1)
        PROVE  g[i] = IF i = 0 THEN p0 ELSE G(g[i - 1], i)
    <3>1. CASE i = k + 1
      <4>1. g[i] = G(f[k], k + 1) /\ g[i - 1] = f[k] /\ i # 0
        BY <3>1
      <4> HIDE DEF g
      <4> QED BY <3>1, <4>1
    <3>2. CASE i # k + 1
      <4>1. i \in 0..k /\ g[i] = f[i]
        BY <3>2
      <4>2. f[i] = IF i = 0 THEN p0 ELSE G(f[i - 1], i)
        BY <2>1, <4>1
      <4>3. i # 0 => g[i - 1] = f[i - 1]
        BY <4>1
      <4> HIDE DEF g
      <4> QED BY <4>1, <4>2, <4>3
    <3> QED BY <3>1, <3>2
  <2>3. g = [i \in 0..(k + 1) |-> g[i]]
    OBVIOUS
  <2>4. Is(g, k + 1)
    <3> HIDE DEF g
    <3> QED BY <2>2, <2>3
  <2> HIDE DEF Is, g
  <2> QED BY <2>4
<1>3. L \in All
  <2> HIDE DEF All, L
  <2>1. Nat \subseteq All
    BY <1>1, <1>2, NatSetInduction
  <2> QED BY <2>1, <1>0
<1>4. \E f : Is(f, L)
  <2> HIDE DEF Is
  <2> QED BY <1>3
<1> DEFINE h == CHOOSE f : Is(f, L)
<1>5. Is(h, L)
  <2> HIDE DEF Is
  <2> QED BY <1>4
<1>6. Names(n, s) = IF Len(s.ins) > LutInputs THEN Fail(n, "throw")
                    ELSE Connect(h[L], b, "out", 0, s.out, s.table = "empty" \/ s.ins = <<>>)
  BY DEF Names, p0, G
<1> HIDE DEF h
<1>7. 0 \in 0..L /\ \A i \in 1..L : i \in 0..L /\ i # 0
  BY <1>0
<1>8. h[0] = p0 /\ \A i \in 1..L : h[i] = G(h[i - 1], i)
  BY <1>5, <1>7
<1>9. NamesLoop(n, s, made, b, h)
  BY <1>6, <1>8 DEF NamesLoop, p0, G
<1> QED BY <1>9

\* .names keeps it: pins are made one after the other.
LEMMA NamesRead ==
  ASSUME NEW n, ReadOK(n), NEW s, IsStatement(s), s.op = "names"
  PROVE  ReadOK(Names(n, s)) /\ Renamable(Names(n, s), Plain(s.out))
<1> DEFINE made == CreateBlock(n, Plain(s.out), "names", s.table)
           b == made.blockOf[Plain(s.out)]
           L == Len(s.ins)
<1>1. s.out \in Base /\ Plain(s.out) \in Name /\ s.table \in Table
  BY NamesAreNames DEF IsStatement
<1>2. MakingOf(made, b, "names", Plain(s.out))
  BY <1>1, MakingBlock DEF Model
<1>m. made = CreateBlock(n, Plain(s.out), "names", s.table) /\ b = made.blockOf[Plain(s.out)]
  OBVIOUS
<1> HIDE DEF made, b
<1>f. PICK f : NamesLoop(n, s, made, b, f)
  BY <1>m, NamesSteps
<1>3. /\ f[0] = CreatePort(made, b, "in")
      /\ \A i \in 1..L : f[i] = Connect(f[i - 1], b, "in", i - 1, s.ins[i], FALSE)
      /\ Names(n, s) = IF L > LutInputs THEN Fail(n, "throw")
                       ELSE Connect(f[L], b, "out", 0, s.out,
                                             s.table = "empty" \/ s.ins = <<>>)
  BY <1>f DEF NamesLoop
<1>4. L \in Nat /\ \A i \in 1..L : s.ins[i] \in Base
  BY InsAreNames
<1> HIDE DEF L
<1> DEFINE OK(m) == MakingOf(m, b, "names", Plain(s.out))
           All == {i \in Nat : i <= L => OK(f[i])}
<1>5. 0 \in All
  <2>1. Fits("names", "in") /\ "in" \in PortName BY DEF Fits, PortName
  <2> QED BY <1>2, <1>3, <2>1, MakingPortOf
<1>6. \A i \in Nat : i \in All => i + 1 \in All
  <2> SUFFICES ASSUME NEW i \in Nat, OK(f[i]), i + 1 <= L PROVE OK(f[i + 1])
    <3>1. \A i \in Nat : i + 1 <= L => i <= L BY <1>4
    <3> HIDE DEF OK
    <3> QED BY <3>1
  <2>1. i + 1 \in 1..L /\ (i + 1) - 1 = i BY <1>4
  <2>2. f[i + 1] = Connect(f[i], b, "in", i, s.ins[i + 1], FALSE)
    BY <1>3, <2>1
  <2> DEFINE c == FALSE
             x == s.ins[i + 1]
  <2>3. c \in BOOLEAN /\ "in" \in PortName /\ x \in Base /\ f[i + 1] = Connect(f[i], b, "in", i, x, c)
        /\ Fits("names", "in")
    BY <1>4, <2>1, <2>2 DEF PortName, Fits
  <2> HIDE DEF c, x
  <2> QED BY <2>3, MakingPinOf, MadeIsRenamable
<1>7. L \in All
  <2> HIDE DEF All
  <2>1. Nat \subseteq All
    BY <1>5, <1>6, NatSetInduction
  <2> QED BY <2>1, <1>4
<1>8. OK(f[L])
  BY <1>4, <1>7
<1>9. CASE L > LutInputs
  <2>1. Names(n, s) = Fail(n, "throw") BY <1>3, <1>9
  <2>2. Typed(n) BY DEF ReadOK, Good
  <2>3. Good(Fail(n, "throw")) /\ Fail(n, "throw").error # "none" BY <2>2, FailIsGood
  <2> QED BY <2>1, <2>3 DEF ReadOK, Renamable
<1>10. CASE ~(L > LutInputs)
  <2>1. Names(n, s) = Connect(f[L], b, "out", 0, s.out, s.table = "empty" \/ s.ins = <<>>)
    BY <1>3, <1>10
  <2> DEFINE c == s.table = "empty" \/ s.ins = <<>>
             x == s.out
             z == 0
             y == f[L]
  <2>2. c \in BOOLEAN /\ "out" \in PortName /\ x \in Base /\ z \in Nat /\ OK(y)
        /\ Names(n, s) = Connect(y, b, "out", z, x, c)
        /\ Fits("names", "out")
    BY <1>1, <1>8, <2>1 DEF PortName, Fits
  <2> HIDE DEF c, x, y, z
  <2> QED BY <2>2, MakingPinOf, MadeIsRenamable
<1> QED BY <1>9, <1>10

-----------------------------------------------------------------------------
(* .cname: a block gets another name.                                      *)

\* set_block_name() on a valid block
LEMMA SetBlockNameEffect ==
  ASSUME NEW n, Good(n), NEW b, n.error = "none" => b \in DOMAIN n.blocks /\ n.blocks[b].valid,
         NEW name \in Name, NEW m, m = SetBlockName(n, b, name)
  PROVE  /\ Good(m)
         /\ m.error = "none" =>
              /\ n.error = "none"
              /\ m.ports = n.ports /\ m.pins = n.pins /\ m.nets = n.nets /\ m.netOf = n.netOf
              /\ m.dirty = n.dirty
              /\ DOMAIN m.blocks = DOMAIN n.blocks
              /\ \A x \in DOMAIN n.blocks :
                    /\ m.blocks[x].valid = n.blocks[x].valid /\ m.blocks[x].model = n.blocks[x].model
                    /\ m.blocks[x].table = n.blocks[x].table /\ m.blocks[x].ports = n.blocks[x].ports
                    /\ m.blocks[x].pins = n.blocks[x].pins
                    /\ m.blocks[x].name = IF x = b THEN name ELSE n.blocks[x].name
<1>1. n \in Netlists /\ InRange(n) /\ Typed(n)
  BY DEF Good, Typed
<1>2. CASE n.error # "none"
  <2>1. m = n BY <1>2 DEF SetBlockName
  <2> QED BY <2>1, <1>2
<1>3. CASE n.error = "none" /\ n.blockOf[name] # 0
  <2>1. m = Fail(n, "throw") BY <1>3 DEF SetBlockName
  <2> QED BY <2>1, <1>1, FailIsGood
<1>4. CASE n.error = "none" /\ n.blockOf[name] = 0
  <2> DEFINE old == n.blocks[b]
             rb == [old EXCEPT !.name = name]
             g == [n.blocks EXCEPT ![b] = rb]
             h == [[n.blockOf EXCEPT ![old.name] = 0] EXCEPT ![name] = b]
  <2>0. b \in DOMAIN n.blocks /\ n.blocks[b].valid /\ Refs(n) BY <1>4 DEF Good
  <2>1. old \in BlockRecs /\ old.name \in Name /\ b \in Nat /\ b # 0
    BY <2>0, <1>1, Shape, FieldTypes
  <2>2. n.blockOf[old.name] = b /\ old.name # name
    BY <2>0, <2>1, <1>4 DEF Refs, BlocksNamed
  <2>3. m = [n EXCEPT !.blocks = g, !.blockOf = h]
    <3>1. m = [n EXCEPT !.blockOf[n.blocks[b].name] = 0, !.blockOf[name] = b,
                        !.blocks[b].name = name]
      BY <1>4 DEF SetBlockName
    <3> QED BY <3>1, <1>1, <2>0 DEF Netlists, BlockRecs
  <2>4. /\ h \in [Name -> Nat] /\ h[name] = b /\ h[old.name] = 0
        /\ \A x \in Name : x # name /\ x # old.name => h[x] = n.blockOf[x]
    <3>1. n.blockOf \in [Name -> Nat] BY <1>1, Shape
    <3> HIDE DEF old
    <3> QED BY <3>1, <2>1, <2>2
  <2>5. rb \in BlockRecs /\ rb.name = name /\ rb.valid = old.valid /\ rb.model = old.model
        /\ rb.table = old.table /\ rb.ports = old.ports /\ rb.pins = old.pins
    <3> HIDE DEF old
    <3> QED BY <2>1 DEF BlockRecs
  <2> HIDE DEF rb, h
  <2>6. /\ g \in Seq(BlockRecs) /\ DOMAIN g = DOMAIN n.blocks /\ g[b] = rb
        /\ \A x \in DOMAIN n.blocks : x # b => g[x] = n.blocks[x]
    <3>1. n.blocks \in [1..Len(n.blocks) -> BlockRecs] /\ Len(n.blocks) \in Nat /\ DOMAIN n.blocks = 1..Len(n.blocks)
      <4>1. n.blocks \in Seq(BlockRecs) BY <1>1 DEF Netlists
      <4> QED BY <4>1, LenProperties
    <3>2. g \in [1..Len(n.blocks) -> BlockRecs]
      BY <3>1, <2>5
    <3>3. g \in Seq(BlockRecs) BY <3>1, <3>2, WholeSeq
    <3> QED BY <3>1, <3>2, <3>3, <2>0
  <2> HIDE DEF g
  <2>7. /\ m \in Netlists /\ m.blocks = g /\ m.blockOf = h
        /\ m.ports = n.ports /\ m.pins = n.pins /\ m.nets = n.nets
        /\ m.netOf = n.netOf /\ m.error = n.error /\ m.dirty = n.dirty
    BY <1>1, <2>3, <2>4, <2>6 DEF Netlists
  <2>8. \A x \in DOMAIN n.blocks :
          /\ m.blocks[x].valid = n.blocks[x].valid /\ m.blocks[x].model = n.blocks[x].model
          /\ m.blocks[x].table = n.blocks[x].table /\ m.blocks[x].ports = n.blocks[x].ports
          /\ m.blocks[x].pins = n.blocks[x].pins
          /\ m.blocks[x].name = IF x = b THEN name ELSE n.blocks[x].name
    BY <2>5, <2>6, <2>7
  <2>9. SameShape(n, m)
    BY <2>6, <2>7, <2>8 DEF SameShape
  <2>10. Structure(m) /\ \A p \in DOMAIN n.pins : IsSink(m, p) = IsSink(n, p)
    BY <1>1, <2>0, <2>9, ShapeKeepsStructure DEF Refs
  <2>11. InRange(m)
    <3>1. \A x \in Name : m.blockOf[x] # 0 => m.blockOf[x] \in DOMAIN m.blocks
      <4> TAKE x \in Name
      <4>1. h[x] = b \/ h[x] = 0 \/ h[x] = n.blockOf[x] BY <2>4
      <4> QED BY <4>1, <1>1, <2>0, <2>6, <2>7 DEF InRange
    <3>2. \A x \in Name : m.netOf[x] # 0 => m.netOf[x] \in DOMAIN m.nets
      BY <1>1, <2>7 DEF InRange
    <3>3. /\ \A x \in DOMAIN m.blocks : /\ m.blocks[x].ports \subseteq DOMAIN m.ports
                                        /\ m.blocks[x].pins \subseteq DOMAIN m.pins
          /\ \A q \in DOMAIN m.ports :
                /\ m.ports[q].block \in DOMAIN m.blocks
                /\ \A i \in DOMAIN m.ports[q].pins : m.ports[q].pins[i] \in DOMAIN m.pins
      BY <1>1, <2>6, <2>7, <2>8 DEF InRange
    <3> QED BY <1>1, <2>7, <3>1, <3>2, <3>3 DEF InRange
  <2>12. Owned(m) BY <1>1, <2>0, <2>6, <2>7, <2>8 DEF Refs, Owned, InRange
  <2>13. Netted(m) BY <1>1, <2>0, <2>7, <2>10, NettedKept DEF Refs
  <2>14. NetsNamed(m) /\ Indexed(m)
    BY <2>0, <2>7 DEF Refs, NetsNamed, Indexed, IndicesAgree, Valid
  <2>15. BlocksNamed(m)
    <3>1. ASSUME NEW x \in Name, m.blockOf[x] # 0
          PROVE  m.blocks[m.blockOf[x]].valid /\ m.blocks[m.blockOf[x]].name = x
      <4>1. CASE x = name
        BY <4>1, <2>0, <2>4, <2>7, <2>8
      <4>2. CASE x # name
        <5>1. x # old.name /\ m.blockOf[x] = n.blockOf[x] /\ n.blockOf[x] \in DOMAIN n.blocks
          BY <4>2, <3>1, <1>1, <2>4, <2>7 DEF InRange
        <5>2. n.blocks[n.blockOf[x]].valid /\ n.blocks[n.blockOf[x]].name = x
          BY <5>1, <3>1, <2>0 DEF Refs, BlocksNamed
        <5>3. n.blockOf[x] # b BY <5>1, <5>2
        <5> QED BY <5>1, <5>2, <5>3, <2>8
      <4> QED BY <4>1, <4>2
    <3>2. ASSUME NEW x \in DOMAIN m.blocks, m.blocks[x].valid
          PROVE  m.blockOf[m.blocks[x].name] = x
      <4>1. CASE x = b
        BY <4>1, <2>4, <2>7, <2>8, <2>0
      <4>2. CASE x # b
        <5>1. x \in DOMAIN n.blocks /\ n.blocks[x].valid /\ m.blocks[x].name = n.blocks[x].name
          BY <4>2, <3>2, <2>6, <2>7, <2>8
        <5>2. n.blockOf[n.blocks[x].name] = x /\ n.blocks[x].name \in Name /\ x # 0
          BY <5>1, <2>0, <1>1, FieldTypes, ZeroIsNoId DEF Refs, BlocksNamed
        <5>3. n.blocks[x].name # name /\ n.blocks[x].name # old.name
          BY <5>2, <4>2, <1>4, <2>2
        <5> QED BY <5>1, <5>2, <5>3, <2>4, <2>7
      <4> QED BY <4>1, <4>2
    <3> QED BY <3>1, <3>2 DEF BlocksNamed
  <2>16. Good(m)
    BY <2>7, <2>10, <2>11, <2>12, <2>13, <2>14, <2>15 DEF Good, Typed, Refs
  <2> QED BY <1>4, <2>6, <2>7, <2>8, <2>16
<1> QED BY <1>2, <1>3, <1>4

\* curr is the block that .cname renames: one that is there, and no input pad.
CurrOK(n, c) ==
  n.error = "none" /\ c # 0 => c \in DOMAIN n.blocks /\ n.blocks[c].valid /\ n.blocks[c].model # "input"

\* .cname keeps it, since the block renamed is no input pad.
LEMMA CnameRead ==
  ASSUME ReadOK(nl), CurrOK(nl, cur), NEW s, IsStatement(s), nl.error = "none"
  PROVE  ReadOK(Cname(nl, s)) /\ CurrOK(Cname(nl, s), cur)
<1> DEFINE m == Cname(nl, s)
<1>1. Good(nl) /\ Fresh(nl) /\ PadsNamed(nl) /\ Pinned(nl) /\ Typed(nl) BY DEF ReadOK, Good
<1>2. CASE cur = 0
  <2>1. m = Fail(nl, "assert") BY <1>2 DEF Cname
  <2>2. Good(m) /\ m.error # "none" BY <1>1, <2>1, FailIsGood
  <2> QED BY <2>2 DEF ReadOK, CurrOK
<1>3. CASE cur # 0
  <2>1. m = SetBlockName(nl, cur, Plain(s.out)) BY <1>3 DEF Cname
  <2>2. Plain(s.out) \in Name BY NamesAreNames DEF IsStatement
  <2>3. cur \in DOMAIN nl.blocks /\ nl.blocks[cur].valid /\ nl.blocks[cur].model # "input"
    BY <1>3 DEF CurrOK
  <2> HIDE DEF m
  <2>4. /\ Good(m)
        /\ m.error = "none" =>
              /\ m.ports = nl.ports /\ m.pins = nl.pins /\ m.nets = nl.nets
              /\ DOMAIN m.blocks = DOMAIN nl.blocks
              /\ \A x \in DOMAIN nl.blocks :
                    /\ m.blocks[x].valid = nl.blocks[x].valid /\ m.blocks[x].model = nl.blocks[x].model
                    /\ m.blocks[x].pins = nl.blocks[x].pins
                    /\ m.blocks[x].name = IF x = cur THEN Plain(s.out) ELSE nl.blocks[x].name
    BY <1>1, <2>1, <2>2, <2>3, SetBlockNameEffect
  <2>5. ASSUME m.error = "none" PROVE Fresh(m) /\ PadsNamed(m) /\ Pinned(m)
    <3>1. \A p \in DOMAIN nl.pins : PinBlock(m, p) = PinBlock(nl, p) /\ IsSink(m, p) = IsSink(nl, p)
                                    /\ PinBlock(nl, p) \in DOMAIN nl.blocks
      BY <1>1, <2>4, <2>5 DEF PinBlock, IsSink, Typed, InRange
    <3>5. PortsFit(m)
      <4>1. PortsFit(nl) /\ Typed(nl) BY <1>1 DEF Fresh
      <4> QED BY <4>1, <2>4, <2>5, FitKept
    <3>2. Fresh(m) BY <1>1, <2>4, <2>5, <3>5 DEF Fresh, Plainly
    <3>3. Pinned(m) BY <1>1, <2>4, <2>5 DEF Pinned
    <3>4. PadsNamed(m)
      <4> SUFFICES ASSUME NEW p \in DOMAIN m.pins, m.pins[p].valid, m.blocks[PinBlock(m, p)].model = "input",
                          ~IsSink(m, p), m.pins[p].net # 0
                   PROVE  m.nets[m.pins[p].net].name = m.blocks[PinBlock(m, p)].name
        BY DEF PadsNamed
      <4>1. PinBlock(nl, p) # cur /\ nl.blocks[PinBlock(nl, p)].model = "input"
        BY <2>3, <2>4, <2>5, <3>1
      <4> QED BY <4>1, <1>1, <2>4, <2>5, <3>1 DEF PadsNamed
    <3> QED BY <3>2, <3>3, <3>4
  <2>6. CurrOK(m, cur) BY <2>3, <2>4 DEF CurrOK
  <2> QED BY <2>4, <2>5, <2>6 DEF m, ReadOK
<1> QED BY <1>2, <1>3

\* A net more, and all that is true of a circuit being read stays so.
LEMMA NetRead ==
  ASSUME NEW n, ReadOK(n), NEW x \in Base, NEW m, m = CreateNet(n, Plain(x))
  PROVE  ReadOK(m)
<1> DEFINE name == Plain(x)
<1>0. name \in Name BY NamesAreNames
<1> HIDE DEF name
<1>5. m = CreateNet(n, name) BY DEF name
<1>1. Good(n) BY DEF ReadOK
<1>2. /\ Good(m) /\ Grown(n, m, 0) /\ m.pins = n.pins /\ m.ports = n.ports /\ m.blocks = n.blocks
  BY <1>0, <1>1, <1>5, CreateNetEffect
<1>3. CASE m.error # "none"
  BY <1>2, <1>3 DEF ReadOK
<1>4. CASE m.error = "none"
  <2>1. n.error = "none" BY <1>2, <1>4 DEF Grown
  <2>2. Fresh(n) /\ PadsNamed(n) /\ Pinned(n) BY <2>1 DEF ReadOK
  <2>3. \A p \in DOMAIN n.pins : /\ PinBlock(m, p) = PinBlock(n, p) /\ IsSink(m, p) = IsSink(n, p)
                                 /\ n.pins[p].net # 0 => m.nets[n.pins[p].net].name = n.nets[n.pins[p].net].name
    <3> TAKE p \in DOMAIN n.pins
    <3>1. PinBlock(m, p) = PinBlock(n, p) /\ IsSink(m, p) = IsSink(n, p) BY <1>2 DEF PinBlock, IsSink
    <3>2. n.pins[p].net # 0 => n.pins[p].net \in DOMAIN n.nets BY <1>1 DEF Good, Typed, InRange
    <3> QED BY <3>1, <3>2, <1>2 DEF Grown
  <2>4. PadsNamed(m) BY <1>2, <2>2, <2>3 DEF PadsNamed
  <2>6. PortsFit(m)
    <3>1. PortsFit(n) /\ Typed(n) BY <1>1, <2>2 DEF Fresh, Good
    <3> QED BY <3>1, <1>2, FitKept
  <2>7. Plainly(m)
    <3> SUFFICES ASSUME NEW y \in DOMAIN m.nets PROVE \E z \in Base : m.nets[y].name = Plain(z)
      BY DEF Plainly
    <3>1. CASE y \in DOMAIN n.nets
      <4>1. m.nets[y].name = n.nets[y].name /\ Plainly(n) BY <3>1, <1>2, <2>2 DEF Grown, Fresh
      <4> QED BY <3>1, <4>1 DEF Plainly
    <3>2. CASE y \notin DOMAIN n.nets
      <4>1. m.nets[y].valid BY <3>2, <1>0, <1>1, <1>4, <1>5, CreateNetEffect
      <4>2. m.netOf[m.nets[y].name] = y /\ m.nets[y].name \in Name /\ y # 0
        BY SMTT(30), <1>2, <1>4, <4>1, FieldTypes, ZeroIsNoId DEF Good, Refs, NetsNamed, Typed
      <4>3. CASE m.nets[y].name # name
        <5>1. m.netOf[m.nets[y].name] = n.netOf[m.nets[y].name]
          BY <1>0, <1>1, <1>4, <1>5, <4>2, <4>3, CreateNetEffect
        <5> QED BY Zenon, <3>2, <4>2, <5>1, <1>1 DEF Good, Typed, InRange
      <4> QED BY <4>3 DEF name
    <3> QED BY <3>1, <3>2
  <2>5. Fresh(m) /\ Pinned(m) BY <1>2, <2>2, <2>6, <2>7 DEF Fresh, Pinned
  <2> QED BY <1>2, <2>4, <2>5 DEF ReadOK
<1> QED BY <1>3, <1>4

\* Merging two nets of the file keeps it.
LEMMA MergeRead ==
  ASSUME NEW n, ReadOK(n), n.error = "none", NEW k, NEW l,
         k \in DOMAIN n.nets, n.nets[k].valid, l \in DOMAIN n.nets, n.nets[l].valid, k # l,
         NEW m, m = MergeNets(n, k, l)
  PROVE  ReadOK(m)
<1>1. Good(n) /\ Typed(n) /\ Refs(n) /\ n \in Netlists /\ InRange(n) /\ Fresh(n) /\ PadsNamed(n) /\ Pinned(n)
  BY DEF ReadOK, Good, Typed
<1>2. Good(m) /\ (m.error = "none" => \E v : MovedFrom(n.nets[l].pins, v) /\ Merged(n, k, l, v, m))
  BY <1>1, MergeNetsEffect
<1>3. ASSUME NEW v, MovedFrom(n.nets[l].pins, v), Merged(n, k, l, v, m)
      PROVE  Fresh(m) /\ PadsNamed(m) /\ Pinned(m)
  <2>1. Fresh(m) /\ Pinned(m)
    <3>1. k # 0 BY <1>1, ZeroIsNoId
    <3>2. \A p \in DOMAIN m.pins : m.pins[p].valid /\ m.pins[p].net # 0
      <4> TAKE p \in DOMAIN m.pins
      <4>1. p \in DOMAIN n.pins /\ n.pins[p].valid /\ n.pins[p].net # 0 BY <1>1, <1>3 DEF Merged, Fresh
      <4>2. CASE \E i \in DOMAIN v : v[i] = p
        BY <4>1, <4>2, <1>3, <3>1 DEF Merged
      <4>3. CASE \A i \in DOMAIN v : v[i] # p
        BY <4>1, <4>3, <1>3 DEF Merged
      <4> QED BY <4>2, <4>3
    <3>3. PortsFit(m)
      <4>1. PortsFit(n) BY <1>1 DEF Fresh
      <4>2. m.ports = n.ports /\ m.blocks = n.blocks BY <1>3 DEF Merged
      <4> QED BY <4>1, <4>2, <1>1, FitKept
    <3>4. Plainly(m)
      <4>1. Plainly(n) BY <1>1 DEF Fresh
      <4>2. DOMAIN m.nets = DOMAIN n.nets /\ \A y \in DOMAIN n.nets : m.nets[y].name = n.nets[y].name
        BY <1>3 DEF Merged
      <4> QED BY <4>1, <4>2 DEF Plainly
    <3> QED BY <1>1, <1>3, <3>2, <3>3, <3>4 DEF Merged, Fresh, Pinned
  <2>2. \A p \in DOMAIN n.pins : PinBlock(m, p) = PinBlock(n, p) /\ IsSink(m, p) = IsSink(n, p)
    BY <1>3 DEF PinBlock, IsSink, Merged
  <2>3. PadsNamed(m)
    <3> SUFFICES ASSUME NEW p \in DOMAIN m.pins, m.pins[p].valid, m.blocks[PinBlock(m, p)].model = "input",
                        ~IsSink(m, p), m.pins[p].net # 0
                 PROVE  m.nets[m.pins[p].net].name = m.blocks[PinBlock(m, p)].name
      BY DEF PadsNamed
    <3>1. p \in DOMAIN n.pins /\ ~IsSink(n, p) BY <1>3, <2>2 DEF Merged
    <3>2. \A i \in DOMAIN v : v[i] # p
      <4> SUFFICES ASSUME NEW i \in DOMAIN v, v[i] = p PROVE FALSE
        OBVIOUS
      <4>1. PICK j \in DOMAIN n.nets[l].pins : j > 1 /\ n.nets[l].pins[j] = p BY <1>3 DEF MovedFrom
      <4>2. PlaceOK(n, l, j) BY <1>1, <4>1 DEF Refs, Netted
      <4>3. j # 1 BY <4>1
      <4> QED BY <4>1, <4>2, <4>3, <3>1 DEF PlaceOK
    <3>3. m.pins[p] = n.pins[p] BY <1>3, <3>1, <3>2 DEF Merged
    <3>4. n.pins[p].net \in DOMAIN n.nets BY <1>1, <3>1, <3>3 DEF InRange
    <3>5. m.nets[n.pins[p].net].name = n.nets[n.pins[p].net].name /\ m.blocks = n.blocks
      BY <1>3, <3>4 DEF Merged
    <3>6. n.nets[n.pins[p].net].name = n.blocks[PinBlock(n, p)].name
      BY <1>1, <2>2, <3>1, <3>3, <3>5 DEF PadsNamed, Fresh
    <3> QED BY <2>2, <3>1, <3>3, <3>5, <3>6
  <2> QED BY <2>1, <2>3
<1> QED BY <1>2, <1>3 DEF ReadOK

\* .conn keeps it.
LEMMA ConnRead ==
  ASSUME NEW n, ReadOK(n), NEW s, IsStatement(s), s.op = "conn"
  PROVE  ReadOK(Conn(n, s))
<1> DEFINE x == s.ins[1]
           y == s.out
           a == CreateNet(n, Plain(x))
           b == CreateNet(a, Plain(y))
           k == b.netOf[Plain(x)]
           l == b.netOf[Plain(y)]
           m == Conn(n, s)
<1>1. x \in Base /\ y \in Base /\ x # y
  <2>1. Len(s.ins) >= 1 /\ y \in Base /\ x # y BY DEF IsStatement
  <2>2. x \in Base BY <2>1, InsAreNames
  <2> QED BY <2>1, <2>2
<1>2. m = MergeNets(b, k, l) BY DEF Conn
<1> HIDE DEF x, y
<1>3. Plain(x) \in Name /\ Plain(y) \in Name /\ Plain(x) # Plain(y)
  BY <1>1, NamesAreNames DEF Plain
<1>4. ReadOK(a) BY <1>1, NetRead
<1> HIDE DEF a
<1>5. ReadOK(b) BY <1>1, <1>4, NetRead
<1>6. CASE b.error # "none"
  <2>1. m = b
    <3> HIDE DEF b, k, l
    <3> QED BY <1>2, <1>6 DEF MergeNets
  <2> QED BY <2>1, <1>5
<1>7. CASE b.error = "none"
  <2>1. Good(n) /\ Good(a) BY <1>4 DEF ReadOK
  <2>2. /\ Grown(a, b, 0) /\ l \in DOMAIN b.nets /\ b.nets[l].valid /\ b.nets[l].name = Plain(y)
        /\ b.netOf[Plain(x)] = a.netOf[Plain(x)]
    BY <1>3, <1>7, <2>1, CreateNetEffect
  <2>3. a.error = "none" BY <1>7, <2>2 DEF Grown
  <2>4. a.netOf[Plain(x)] \in DOMAIN a.nets /\ a.nets[a.netOf[Plain(x)]].valid
        /\ a.nets[a.netOf[Plain(x)]].name = Plain(x)
    BY <1>3, <2>1, <2>3, CreateNetEffect DEF a
  <2>5. k = a.netOf[Plain(x)] BY <2>2
  <2> HIDE DEF b, k, l
  <2>6. k \in DOMAIN b.nets /\ b.nets[k].valid /\ b.nets[k].name = Plain(x)
    BY <2>2, <2>4, <2>5 DEF Grown
  <2>7. k # l BY <2>2, <2>6, <1>3
  <2> HIDE DEF m
  <2> QED BY <1>2, <1>5, <1>7, <2>2, <2>6, <2>7, MergeRead DEF m
<1> QED BY <1>6, <1>7

\* Any statement
LEMMA CallbackRead ==
  ASSUME ReadOK(nl), CurrOK(nl, cur), nl.error = "none", NEW s, IsStatement(s)
  PROVE  ReadOK(Callback(nl, s)) /\ CurrOK(Callback(nl, s), CurrBlock(Callback(nl, s), s))
<1> DEFINE m == Callback(nl, s)
<1>0. s.op \in Ops BY DEF IsStatement
<1>1. CASE s.op = "inputs"
  <2>1. m = Inputs(nl, s) BY <1>1 DEF Callback
  <2>2. ReadOK(Inputs(nl, s)) BY InputsRead
  <2>3. CurrBlock(m, s) = 0 BY <1>1 DEF CurrBlock
  <2> QED BY <2>1, <2>2, <2>3 DEF CurrOK
<1>2. CASE s.op = "outputs"
  <2>1. m = Outputs(nl, s) BY <1>2 DEF Callback
  <2>2. ReadOK(Outputs(nl, s)) BY <1>2, OutputsRead
  <2>3. CurrBlock(m, s) = 0 BY <1>2 DEF CurrBlock
  <2> QED BY <2>1, <2>2, <2>3 DEF CurrOK
<1>3. CASE s.op = "names"
  <2>1. m = Names(nl, s) BY <1>3 DEF Callback
  <2>2. ReadOK(Names(nl, s)) /\ Renamable(Names(nl, s), Plain(s.out)) BY <1>3, NamesRead
  <2>3. CurrBlock(m, s) = m.blockOf[Plain(s.out)] BY <1>3 DEF CurrBlock
  <2> QED BY <2>1, <2>2, <2>3 DEF CurrOK, Renamable
<1>4. CASE s.op = "latch"
  <2>1. m = Latch(nl, s) BY <1>4 DEF Callback
  <2>2. ReadOK(Latch(nl, s)) /\ Renamable(Latch(nl, s), Plain(s.out)) BY <1>4, LatchRead
  <2>3. CurrBlock(m, s) = m.blockOf[Plain(s.out)] BY <1>4 DEF CurrBlock
  <2> QED BY <2>1, <2>2, <2>3 DEF CurrOK, Renamable
<1>5. CASE s.op = "subckt"
  <2>1. m = Subckt(nl, s) BY <1>5 DEF Callback
  <2>2. ReadOK(Subckt(nl, s)) /\ Renamable(Subckt(nl, s), Plain(s.out)) BY <1>5, SubcktRead
  <2>3. CurrBlock(m, s) = m.blockOf[Plain(s.out)] BY <1>5 DEF CurrBlock
  <2> QED BY <2>1, <2>2, <2>3 DEF CurrOK, Renamable
<1>6. CASE s.op = "conn"
  <2>1. m = Conn(nl, s) BY <1>6 DEF Callback
  <2>2. ReadOK(Conn(nl, s)) BY <1>6, ConnRead
  <2>3. CurrBlock(m, s) = 0 BY <1>6 DEF CurrBlock
  <2> QED BY <2>1, <2>2, <2>3 DEF CurrOK
<1>7. CASE s.op = "cname"
  <2>1. m = Cname(nl, s) BY <1>7 DEF Callback
  <2>2. ReadOK(Cname(nl, s)) /\ CurrOK(Cname(nl, s), cur) BY <1>7, CnameRead
  <2>3. CurrBlock(m, s) = cur BY <1>7 DEF CurrBlock
  <2> QED BY <2>1, <2>2, <2>3
<1> QED BY <1>0, <1>1, <1>2, <1>3, <1>4, <1>5, <1>6, <1>7 DEF Ops

-----------------------------------------------------------------------------
(* The end of the file: constant generators are marked.                    *)

\* A circuit just read has no removed entries and no pin without a net.
LEMMA FreshIsWhole ==
  ASSUME NEW n, Typed(n), Fresh(n)
  PROVE  Owning(n) /\ Connected(n) /\ PortsFit(n) /\ Plainly(n)
BY DEF Fresh, Owning, Connected, Typed, InRange

\* What of a netlist is no output's const is the same in m.
Marked(n, m) ==
  /\ m \in Netlists
  /\ m.blocks = n.blocks /\ m.ports = n.ports /\ m.nets = n.nets
  /\ m.blockOf = n.blockOf /\ m.netOf = n.netOf /\ m.error = n.error /\ m.dirty = n.dirty
  /\ DOMAIN m.pins = DOMAIN n.pins
  /\ \A p \in DOMAIN n.pins :
        /\ m.pins[p].valid = n.pins[p].valid /\ m.pins[p].port = n.pins[p].port
        /\ m.pins[p].bit = n.pins[p].bit /\ m.pins[p].net = n.pins[p].net
        /\ m.pins[p].idx = n.pins[p].idx

\* Marking constant generators changes nothing but pins' const.
LEMMA MarkConstantsMarks ==
  ASSUME NEW n \in Netlists, NEW m, m = MarkConstants(n)
  PROVE  Marked(n, m)
<1> DEFINE C(p) == ~IsSink(n, p) /\ PinBlock(n, p) \in ConstantSubckts(n)
           e(p) == [n.pins[p] EXCEPT !.const = TRUE]
           f == [p \in DOMAIN n.pins |-> IF C(p) THEN e(p) ELSE n.pins[p]]
<1>1. m = [n EXCEPT !.pins = f]
  BY DEF MarkConstants, Netlists
<1>2. n.pins \in Seq(PinRecs) /\ Len(n.pins) \in Nat /\ DOMAIN n.pins = 1..Len(n.pins)
      /\ \A p \in DOMAIN n.pins : n.pins[p] \in PinRecs
  BY Shape DEF Netlists
<1>3. \A p \in DOMAIN n.pins :
        /\ e(p) \in PinRecs /\ e(p).valid = n.pins[p].valid /\ e(p).port = n.pins[p].port
        /\ e(p).bit = n.pins[p].bit /\ e(p).net = n.pins[p].net /\ e(p).idx = n.pins[p].idx
  BY <1>2 DEF PinRecs
<1> HIDE DEF C, e
<1>4. \A p \in DOMAIN n.pins : f[p] = e(p) \/ f[p] = n.pins[p]
  OBVIOUS
<1>5. f \in [1..Len(n.pins) -> PinRecs] /\ DOMAIN f = DOMAIN n.pins
  BY <1>2, <1>3
<1> HIDE DEF f
<1>6. f \in Seq(PinRecs) BY <1>2, <1>5, WholeSeq
<1>7. /\ m \in Netlists /\ m.pins = f
      /\ m.blocks = n.blocks /\ m.ports = n.ports /\ m.nets = n.nets
      /\ m.blockOf = n.blockOf /\ m.netOf = n.netOf /\ m.error = n.error /\ m.dirty = n.dirty
  BY <1>1, <1>6 DEF Netlists
<1>8. \A p \in DOMAIN n.pins :
        /\ m.pins[p].valid = n.pins[p].valid /\ m.pins[p].port = n.pins[p].port
        /\ m.pins[p].bit = n.pins[p].bit /\ m.pins[p].net = n.pins[p].net
        /\ m.pins[p].idx = n.pins[p].idx
  <2> TAKE p \in DOMAIN n.pins
  <2>1. m.pins[p] = e(p) \/ m.pins[p] = n.pins[p] BY <1>4, <1>7
  <2> QED BY <2>1, <1>3
<1> QED BY <1>5, <1>7, <1>8 DEF Marked

\* ... and keeps a netlist good.
LEMMA MarkedIsGood ==
  ASSUME NEW n, Good(n), NEW m, Marked(n, m)
  PROVE  /\ Good(m)
         /\ \A p \in DOMAIN n.pins : IsSink(m, p) = IsSink(n, p) /\ PinBlock(m, p) = PinBlock(n, p)
<1>1. n \in Netlists /\ InRange(n) /\ (n.error = "none" => Refs(n))
  BY DEF Good, Typed
<1>2. \A p \in DOMAIN n.pins : IsSink(m, p) = IsSink(n, p) /\ PinBlock(m, p) = PinBlock(n, p)
  BY DEF IsSink, PinBlock, Marked
<1>3. InRange(m)
  BY <1>1 DEF InRange, Marked
<1>4. ASSUME n.error = "none" PROVE Refs(m)
  <2>0. Refs(n) BY <1>1, <1>4
  <2>1. Structure(m)
    <3>1. \A b \in DOMAIN n.blocks, q \in DOMAIN n.ports : q \in n.blocks[b].ports <=> n.ports[q].block = b
      BY <2>0 DEF Refs, Structure
    <3>2. \A q \in DOMAIN n.ports, p \in DOMAIN n.pins :
            (\E i \in DOMAIN n.ports[q].pins : n.ports[q].pins[i] = p) <=> m.pins[p].port = q
      BY <2>0 DEF Refs, Structure, Marked
    <3>3. \A b \in DOMAIN n.blocks, p \in DOMAIN n.pins : p \in n.blocks[b].pins <=> PinBlock(m, p) = b
      BY <1>2, <2>0 DEF Refs, Structure
    <3>4. \A q \in DOMAIN n.ports : \A i, j \in DOMAIN n.ports[q].pins :
            i < j => m.pins[n.ports[q].pins[i]].bit < m.pins[n.ports[q].pins[j]].bit
      <4> TAKE q \in DOMAIN n.ports
      <4>1. \A i \in DOMAIN n.ports[q].pins : n.ports[q].pins[i] \in DOMAIN n.pins BY <1>1 DEF InRange
      <4>2. \A i, j \in DOMAIN n.ports[q].pins :
              i < j => n.pins[n.ports[q].pins[i]].bit < n.pins[n.ports[q].pins[j]].bit
        BY <2>0 DEF Refs, Structure
      <4> QED BY <4>1, <4>2 DEF Marked
    <3>5. \A q, r \in DOMAIN n.ports :
            n.ports[q].block = n.ports[r].block /\ n.ports[q].name = n.ports[r].name => q = r
      BY <2>0 DEF Refs, Structure
    <3>6. m.blocks = n.blocks /\ m.ports = n.ports /\ DOMAIN m.pins = DOMAIN n.pins BY DEF Marked
    <3> QED BY <3>1, <3>2, <3>3, <3>4, <3>5, <3>6 DEF Structure
  <2>2. Owned(m) BY <2>0 DEF Refs, Owned, Marked
  <2>3. Netted(m)
    <3>1. \A k \in DOMAIN n.nets : n.nets[k].valid =>
            Len(n.nets[k].pins) >= 1 /\ Single(n.nets[k].pins)
      BY Zenon, <2>0 DEF Refs, Netted
    <3>2. \A k \in DOMAIN n.nets : n.nets[k].valid => \A i \in DOMAIN n.nets[k].pins : PlaceOK(m, k, i)
      <4> SUFFICES ASSUME NEW k \in DOMAIN n.nets, n.nets[k].valid, NEW i \in DOMAIN n.nets[k].pins
                   PROVE  PlaceOK(m, k, i)
        OBVIOUS
      <4>1. PlaceOK(n, k, i) BY Zenon, <2>0 DEF Refs, Netted
      <4> QED BY <4>1, <1>2 DEF PlaceOK, Marked
    <3>3. \A p \in DOMAIN n.pins : n.pins[p].valid => PinOK(m, p)
      <4> SUFFICES ASSUME NEW p \in DOMAIN n.pins, n.pins[p].valid PROVE PinOK(m, p)
        OBVIOUS
      <4>1. PinOK(n, p) BY <2>0 DEF Refs, Netted
      <4> QED BY Zenon, <4>1 DEF PinOK, Marked
    <3>4. m.nets = n.nets BY DEF Marked
    <3>5. \A p \in DOMAIN m.pins : m.pins[p].valid => PinOK(m, p)
      BY <3>3 DEF Marked
    <3> QED BY <3>1, <3>2, <3>4, <3>5 DEF Netted
  <2>4. BlocksNamed(m) /\ NetsNamed(m) BY <2>0 DEF Refs, BlocksNamed, NetsNamed, Marked
  <2>5. Indexed(m)
    <3> SUFFICES ASSUME ~m.dirty PROVE IndicesAgree(m) BY DEF Indexed
    <3>1. IndicesAgree(n) BY <2>0 DEF Refs, Indexed, Marked
    <3>2. \A k \in DOMAIN n.nets : \A i \in DOMAIN n.nets[k].pins :
             n.nets[k].pins[i] # 0 => n.nets[k].pins[i] \in DOMAIN n.pins
      BY <1>1 DEF InRange
    <3>3. m.nets = n.nets BY DEF Marked
    <3> SUFFICES ASSUME NEW k \in Valid(n.nets), NEW i \in DOMAIN n.nets[k].pins, n.nets[k].pins[i] # 0
                 PROVE  m.pins[n.nets[k].pins[i]].idx = i - 1
      BY <3>3 DEF IndicesAgree
    <3>4. n.nets[k].pins[i] \in DOMAIN n.pins BY <3>2 DEF Valid
    <3>5. n.pins[n.nets[k].pins[i]].idx = i - 1 BY <3>1 DEF IndicesAgree
    <3> QED BY <3>4, <3>5 DEF Marked
  <2> QED BY <2>1, <2>2, <2>3, <2>4, <2>5 DEF Refs
<1> QED BY <1>2, <1>3, <1>4 DEF Good, Typed, Marked

\* What the clean-up starts with
LEMMA MarkConstantsEffect ==
  ASSUME NEW n, ReadOK(n), n.error = "none", NEW m, m = MarkConstants(n)
  PROVE  /\ Good(m) /\ m.error = "none" /\ DOMAIN m.blocks = DOMAIN n.blocks
         /\ Owning(m) /\ Connected(m) /\ PortsFit(m) /\ PadsNamed(m) /\ Pinned(m) /\ Plainly(m)
<1>1. Good(n) /\ Typed(n) /\ n \in Netlists /\ Fresh(n) /\ PadsNamed(n) /\ Pinned(n)
  BY DEF ReadOK, Good, Typed
<1>2. Marked(n, m) BY <1>1, MarkConstantsMarks
<1>3. Good(m) /\ \A p \in DOMAIN n.pins : IsSink(m, p) = IsSink(n, p) /\ PinBlock(m, p) = PinBlock(n, p)
  BY <1>1, <1>2, MarkedIsGood
<1>4. Fresh(m) BY <1>1, <1>2 DEF Marked, Fresh, PortsFit, Plainly
<1>5. Owning(m) /\ Connected(m) /\ PortsFit(m) /\ Plainly(m) BY <1>3, <1>4, FreshIsWhole DEF Good
<1>6. PadsNamed(m) BY <1>1, <1>2, <1>3 DEF Marked, PadsNamed
<1>7. Pinned(m) BY <1>1, <1>2 DEF Marked, Pinned
<1> QED BY <1>2, <1>3, <1>5, <1>6, <1>7 DEF Marked

-----------------------------------------------------------------------------
(* Absorbing a buffer.                                                     *)

\* A buffer has two pins, one on each of its ports.
LEMMA BufferPinFacts ==
  ASSUME NEW n, Typed(n), Refs(n), Owning(n), Connected(n), PortsFit(n), NEW b \in Buffers(n),
         NEW i, i = BufferPin(n, b, "in"), NEW o, o = BufferPin(n, b, "out")
  PROVE  /\ b \in DOMAIN n.blocks /\ n.blocks[b].valid
         /\ i \in DOMAIN n.pins /\ n.pins[i].valid /\ n.pins[i].net # 0 /\ IsSink(n, i) /\ PinBlock(n, i) = b
         /\ o \in DOMAIN n.pins /\ n.pins[o].valid /\ n.pins[o].net # 0 /\ ~IsSink(n, o) /\ PinBlock(n, o) = b
         /\ PinsOfBlocks(n, {b}) = {i, o}
         /\ n.nets[n.pins[i].net].name \in Name /\ n.nets[n.pins[o].net].name \in Name
<1>1. n \in Netlists /\ InRange(n) /\ Structure(n) BY DEF Typed, Refs
<1>2. b \in DOMAIN n.blocks /\ n.blocks[b].valid /\ OneInOneOut(n, b) /\ n.blocks[b].model = "names"
  BY DEF Buffers, Valid, IsBufferLut, OneInOneOut
<1>3. \A p \in n.blocks[b].pins : /\ p \in DOMAIN n.pins /\ PinBlock(n, p) = b
                                 /\ n.pins[p].valid /\ n.pins[p].net # 0
                                 /\ n.ports[n.pins[p].port].name \in {"in", "out"}
  <2> TAKE p \in n.blocks[b].pins
  <2>1. p \in DOMAIN n.pins /\ PinBlock(n, p) = b BY <1>1, <1>2 DEF InRange, Structure
  <2>2. n.pins[p].port \in DOMAIN n.ports /\ n.ports[n.pins[p].port].block = b
    BY <2>1, <1>1 DEF InRange, PinBlock
  <2>3. n.ports[n.pins[p].port].valid /\ n.pins[p].valid BY <2>1, <2>2, <1>2 DEF Owning
  <2>4. n.ports[n.pins[p].port].name \in PortName BY <2>2, <1>1, FieldTypes
  <2>5. n.ports[n.pins[p].port].name # "clk" BY <2>2, <1>2 DEF PortsFit, Fits
  <2> QED BY <2>1, <2>3, <2>4, <2>5 DEF Connected, PortName
<1>4. \A pn \in {"in", "out"} : BlockPins(n, b, pn) = {BufferPin(n, b, pn)}
  <2> TAKE pn \in {"in", "out"}
  <2> DEFINE S == BlockPins(n, b, pn)
  <2>1. {p \in S : n.pins[p].net # 0} = S BY <1>3 DEF BlockPins
  <2>2. Cardinality(S) = 1 BY <2>1, <1>2 DEF OneInOneOut
  <2>3. S \subseteq 1..Len(n.pins) BY <1>1, <1>3, Shape DEF BlockPins
  <2>4. IsFiniteSet(S) BY <2>3, <1>1, Shape, PositionsFinite
  <2>5. \E x : S = {x} BY <2>2, <2>4, FS_Singleton
  <2>6. BufferPin(n, b, pn) = CHOOSE p \in S : TRUE BY DEF BufferPin
  <2> HIDE DEF S
  <2> QED BY <2>5, <2>6 DEF S
<1>5. BlockPins(n, b, "in") = {i} /\ BlockPins(n, b, "out") = {o}
  BY <1>4
<1>6. i \in n.blocks[b].pins /\ n.ports[n.pins[i].port].name = "in"
  BY <1>5 DEF BlockPins
<1>7. o \in n.blocks[b].pins /\ n.ports[n.pins[o].port].name = "out"
  BY <1>5 DEF BlockPins
<1>8. PinsOfBlocks(n, {b}) = {i, o}
  <2>1. n.blocks[b].pins = {i, o}
    <3>1. \A p \in n.blocks[b].pins : p \in BlockPins(n, b, "in") \/ p \in BlockPins(n, b, "out")
      BY <1>3 DEF BlockPins
    <3> QED BY <3>1, <1>5, <1>6, <1>7
  <2>2. \A p \in DOMAIN n.pins : PinBlock(n, p) = b <=> p \in n.blocks[b].pins
    BY <1>1, <1>2 DEF Structure
  <2> QED BY <2>1, <2>2, <1>3 DEF PinsOfBlocks, Valid
<1>9. n.pins[i].net \in DOMAIN n.nets /\ n.pins[o].net \in DOMAIN n.nets
  BY <1>1, <1>3, <1>6, <1>7 DEF InRange
<1> QED BY <1>1, <1>2, <1>3, <1>6, <1>7, <1>8, <1>9, FieldTypes DEF IsSink

\* A failure leaves the blocks.
LEMMA FailKeepsBlocks ==
  ASSUME NEW n \in Netlists, NEW how
  PROVE  Fail(n, how).blocks = n.blocks
BY DEF Fail, Netlists

\* The netlist without buffer b, of the pins i and o, and without its two nets.
Bare(n, b, i, o, m) ==
  /\ Typed(m) /\ Refs(m) /\ m.error = "none" /\ SameShape(n, m)
  /\ n.nets[n.pins[i].net].valid /\ n.nets[n.pins[o].net].valid /\ n.pins[i].net # n.pins[o].net
  /\ \A a \in DOMAIN n.blocks : /\ (m.blocks[a].valid <=> n.blocks[a].valid /\ a # b)
                                /\ m.blocks[a].name = n.blocks[a].name
  /\ \A q \in DOMAIN n.ports : (m.ports[q].valid <=> n.ports[q].valid /\ n.ports[q].block # b)
  /\ ~m.pins[i].valid /\ ~m.pins[o].valid
  /\ \A p \in DOMAIN n.pins \ {i, o} :
        IF n.pins[p].valid /\ n.pins[p].net \in {n.pins[i].net, n.pins[o].net}
        THEN m.pins[p] = Unlink(n.pins[p]) ELSE m.pins[p] = n.pins[p]
  /\ DOMAIN m.nets = DOMAIN n.nets
  /\ \A x \in DOMAIN n.nets :
        /\ (m.nets[x].valid <=> n.nets[x].valid /\ x \notin {n.pins[i].net, n.pins[o].net})
        /\ m.nets[x].name = n.nets[x].name
  /\ m.netOf[n.nets[n.pins[i].net].name] = 0 /\ m.netOf[n.nets[n.pins[o].net].name] = 0

\* Removing a buffer and its two nets leaves the netlist bare of them.
LEMMA BareEffect ==
  ASSUME NEW n, Typed(n), Refs(n), Owning(n), Connected(n), PortsFit(n), n.error = "none",
         NEW b \in Buffers(n), NEW i, i = BufferPin(n, b, "in"), NEW o, o = BufferPin(n, b, "out"),
         NEW m, m = RemoveNets(RemoveNets(RemoveBlocks(n, {b}), {n.pins[i].net}), {n.pins[o].net})
  PROVE  Good(m) /\ DOMAIN m.blocks = DOMAIN n.blocks /\ (m.error = "none" => Bare(n, b, i, o, m))
<1> DEFINE x == n.pins[i].net
           y == n.pins[o].net
           r == RemoveBlocks(n, {b})
           s == RemoveNets(r, {x})
<1>1. /\ b \in DOMAIN n.blocks /\ n.blocks[b].valid
      /\ i \in DOMAIN n.pins /\ n.pins[i].valid /\ x # 0
      /\ o \in DOMAIN n.pins /\ n.pins[o].valid /\ y # 0
      /\ PinsOfBlocks(n, {b}) = {i, o} /\ n.nets[x].name \in Name /\ n.nets[y].name \in Name
  BY BufferPinFacts
<1>2. x \in DOMAIN n.nets /\ y \in DOMAIN n.nets BY <1>1 DEF Typed, InRange
<1>3. Good(r) /\ r.error = "none" /\ BlocksRemoved(n, {b}, r)
  <2>1. \A q \in DOMAIN n.ports : n.ports[q].block = b => n.ports[q].valid BY <1>1 DEF Owning
  <2> QED BY <1>1, <2>1, RemoveBlocksEffect
<1>4. m = RemoveNets(s, {y}) OBVIOUS
<1> HIDE DEF x, y, r, s
<1>5. /\ DOMAIN r.nets = DOMAIN n.nets /\ SameShape(n, r)
      /\ \A k \in DOMAIN n.nets : r.nets[k].valid = n.nets[k].valid /\ r.nets[k].name = n.nets[k].name
  BY <1>3 DEF BlocksRemoved, NetsCut
<1>6. CASE ~n.nets[x].valid
  <2>1. s = Fail(r, "assert") BY Zenon, <1>2, <1>3, <1>5, <1>6 DEF s, RemoveNets, ValidId, Valid
  <2>2. Good(s) /\ s.error = "assert" BY Zenon, <2>1, <1>3, FailIsGood DEF Good
  <2>3. m = s BY Zenon, <1>4, <2>2 DEF RemoveNets
  <2>4. DOMAIN m.blocks = DOMAIN n.blocks BY <2>1, <2>3, <1>3, <1>5, FailKeepsBlocks DEF SameShape, Good, Typed
  <2> QED BY Zenon, <2>2, <2>3, <2>4
<1>7. CASE n.nets[x].valid
  <2>1. Good(s) /\ s.error = "none" /\ NetsRemoved(r, {x}, s) /\ SameShape(r, s)
    BY <1>2, <1>3, <1>5, <1>7, RemoveNetsEffect DEF Good, s
  <2>2. /\ DOMAIN s.nets = DOMAIN n.nets
        /\ \A k \in DOMAIN n.nets : /\ (s.nets[k].valid <=> n.nets[k].valid /\ k # x)
                                    /\ s.nets[k].name = n.nets[k].name
    BY <2>1, <1>5 DEF NetsRemoved
  <2>3. CASE ~n.nets[y].valid \/ x = y
    <3>1. m = Fail(s, "assert") BY Zenon, <1>2, <1>4, <2>1, <2>2, <2>3 DEF RemoveNets, ValidId, Valid
    <3>2. DOMAIN m.blocks = DOMAIN n.blocks BY SMTT(30), <3>1, <1>5, <2>1, FailKeepsBlocks DEF SameShape, Good, Typed
    <3> QED BY Zenon, <3>1, <3>2, <2>1, FailIsGood DEF Good
  <2>4. CASE n.nets[y].valid /\ x # y
    <3>1. Good(m) /\ m.error = "none" /\ NetsRemoved(s, {y}, m) /\ SameShape(s, m)
      BY <1>2, <1>4, <2>1, <2>2, <2>4, RemoveNetsEffect DEF Good
    <3>2. SameShape(n, m) BY Zenon, <1>5, <2>1, <3>1, ShapeTransitive
    <3>3. /\ m.blocks = r.blocks /\ m.ports = r.ports BY ZenonT(40), <2>1, <3>1 DEF NetsRemoved
    <3>4. /\ \A a \in DOMAIN n.blocks : /\ (m.blocks[a].valid <=> n.blocks[a].valid /\ a # b)
                                        /\ m.blocks[a].name = n.blocks[a].name
          /\ \A q \in DOMAIN n.ports : (m.ports[q].valid <=> n.ports[q].valid /\ n.ports[q].block # b)
      <4>1. \A a \in DOMAIN n.blocks : r.blocks[a].valid <=> n.blocks[a].valid /\ a # b
        BY <1>3 DEF BlocksRemoved
      <4>2. \A a \in DOMAIN n.blocks : r.blocks[a].name = n.blocks[a].name
        BY <1>3 DEF BlocksRemoved
      <4>3. \A q \in DOMAIN n.ports : r.ports[q].valid <=> n.ports[q].valid /\ n.ports[q].block # b
        BY <1>3 DEF BlocksRemoved
      <4> QED BY <3>3, <4>1, <4>2, <4>3
    <3>5. /\ DOMAIN r.pins = DOMAIN n.pins /\ ~r.pins[i].valid /\ ~r.pins[o].valid
          /\ \A p \in DOMAIN n.pins \ {i, o} : r.pins[p] = n.pins[p]
      BY <1>1, <1>3 DEF BlocksRemoved, PinsRemoved
    <3>6. /\ DOMAIN s.pins = DOMAIN n.pins
          /\ \A p \in DOMAIN n.pins : IF r.pins[p].valid /\ r.pins[p].net # 0 /\ r.pins[p].net = x
                                      THEN s.pins[p] = Unlink(r.pins[p]) ELSE s.pins[p] = r.pins[p]
      BY <2>1, <3>5 DEF NetsRemoved
    <3>7. \A p \in DOMAIN n.pins : IF s.pins[p].valid /\ s.pins[p].net # 0 /\ s.pins[p].net = y
                                   THEN m.pins[p] = Unlink(s.pins[p]) ELSE m.pins[p] = s.pins[p]
      BY <3>1, <3>6 DEF NetsRemoved
    <3>8. ~m.pins[i].valid /\ ~m.pins[o].valid BY <1>1, <3>5, <3>6, <3>7
    <3>9. ASSUME NEW p \in DOMAIN n.pins \ {i, o}
          PROVE  IF n.pins[p].valid /\ n.pins[p].net \in {x, y}
                 THEN m.pins[p] = Unlink(n.pins[p]) ELSE m.pins[p] = n.pins[p]
      <4>0. n.pins[p] \in PinRecs BY Shape DEF Typed
      <4>1. r.pins[p] = n.pins[p] BY <3>5
      <4>2. CASE n.pins[p].valid /\ n.pins[p].net = x
        <5>1. s.pins[p] = Unlink(n.pins[p]) BY <1>1, <3>6, <4>1, <4>2
        <5>2. s.pins[p].net = 0 BY <4>0, <5>1, UnlinkFacts
        <5> QED BY <3>7, <4>2, <5>1, <5>2
      <4>3. CASE ~(n.pins[p].valid /\ n.pins[p].net = x)
        <5>1. s.pins[p] = n.pins[p] BY <3>6, <4>1, <4>3
        <5> QED BY <1>1, <3>7, <4>3, <5>1
      <4> QED BY <4>2, <4>3
    <3>10. /\ DOMAIN m.nets = DOMAIN n.nets
           /\ \A k \in DOMAIN n.nets : /\ (m.nets[k].valid <=> n.nets[k].valid /\ k \notin {x, y})
                                       /\ m.nets[k].name = n.nets[k].name
      <4>1. DOMAIN m.nets = DOMAIN s.nets BY Zenon, <3>1 DEF NetsRemoved
      <4>2. \A k \in DOMAIN s.nets : m.nets[k].valid <=> s.nets[k].valid /\ k # y
        BY ZenonT(40), <3>1 DEF NetsRemoved
      <4>3. \A k \in DOMAIN s.nets : m.nets[k].name = s.nets[k].name
        BY Zenon, <3>1 DEF NetsRemoved
      <4> QED BY <2>2, <4>1, <4>2, <4>3
    <3>11. m.netOf[n.nets[x].name] = 0 /\ m.netOf[n.nets[y].name] = 0
      <4>1. s.netOf[n.nets[x].name] = 0 BY Zenon, <1>1, <1>2, <1>5, <2>1 DEF NetsRemoved
      <4>2. m.netOf[n.nets[x].name] = 0 BY ZenonT(40), <1>1, <4>1, <3>1 DEF NetsRemoved
      <4>3. m.netOf[n.nets[y].name] = 0 BY ZenonT(40), <1>1, <1>2, <2>2, <3>1 DEF NetsRemoved
      <4> QED BY <4>2, <4>3
    <3>12. Typed(m) /\ Refs(m) BY <3>1 DEF Good
    <3>13. DOMAIN m.blocks = DOMAIN n.blocks BY <3>2 DEF SameShape
    <3> QED BY Zenon, <1>7, <2>4, <3>13, <3>1, <3>2, <3>4, <3>8, <3>9, <3>10, <3>11, <3>12 DEF Bare, x, y
  <2> QED BY <2>3, <2>4
<1> QED BY <1>6, <1>7

\* The pins of the two nets of a buffer, but for the buffer's own
BufferNetPins(n, i, o, v) ==
  /\ v \in Seq(Nat) /\ Len(v) >= 1 /\ Single(v)
  /\ \A j \in DOMAIN v : /\ v[j] \in DOMAIN n.pins \ {i, o} /\ n.pins[v[j]].valid
                         /\ n.pins[v[j]].net \in {n.pins[i].net, n.pins[o].net}
                         /\ IsSink(n, v[j]) <=> j > 1
  /\ \A p \in DOMAIN n.pins \ {i, o} :
        n.pins[p].valid /\ n.pins[p].net \in {n.pins[i].net, n.pins[o].net}
        => \E j \in DOMAIN v : v[j] = p

\* Two pins that a buffer joins are on two valid nets.
Joinable(n, i, o) ==
  /\ i \in DOMAIN n.pins /\ n.pins[i].valid /\ IsSink(n, i)
  /\ o \in DOMAIN n.pins /\ n.pins[o].valid /\ ~IsSink(n, o)
  /\ n.pins[i].net \in DOMAIN n.nets /\ n.pins[o].net \in DOMAIN n.nets
  /\ n.nets[n.pins[i].net].valid /\ n.nets[n.pins[o].net].valid
  /\ n.pins[i].net # n.pins[o].net

\* The pins remove_buffer_lut() puts on the new net are those of the two old ones
\* but for the buffer's own, the upstream driver first.
LEMMA MergedSinksFacts ==
  ASSUME NEW n, Typed(n), Refs(n), NEW i, NEW o, Joinable(n, i, o),
         NEW d, d = Driver(n, n.pins[i].net), d # 0,
         NEW v, v = <<d>> \o MergedSinks(n, i, o)
  PROVE  BufferNetPins(n, i, o, v)
<1> DEFINE x == n.pins[i].net
           y == n.pins[o].net
           f == n.nets[x].pins
           g == n.nets[y].pins
           h == Tail(f)
           c == Tail(g)
           a == Without(h, {i})
           w == a \o c
<1>1. n \in Netlists /\ Netted(n) BY DEF Typed, Refs
<1>2. f \in Seq(Nat) /\ g \in Seq(Nat) BY <1>1, FieldTypes DEF Joinable
<1>3. Len(f) >= 1 /\ Len(g) >= 1 /\ Single(f) /\ Single(g) BY <1>1 DEF Joinable, Netted
<1>4. \A j \in DOMAIN f : PlaceOK(n, x, j) BY <1>1 DEF Joinable, Netted
<1>5. \A j \in DOMAIN g : PlaceOK(n, y, j) BY Zenon, <1>1 DEF Joinable, Netted
<1>6. d = f[1] BY ZenonT(40), <1>2, <1>3 DEF Driver
<1>7. MergedSinks(n, i, o) = w
  <2>1. f # <<>> /\ g # <<>> BY Zenon, <1>2, <1>3, TailFacts
  <2>2. Sinks(n, x) = Tail(f) /\ Sinks(n, y) = Tail(g) BY <2>1 DEF Sinks
  <2> QED BY ZenonT(40), <2>2 DEF MergedSinks
<1>8. x # y /\ x # 0 /\ y # 0 BY Zenon, <1>1, ZeroIsNoId DEF Joinable
<1>9. \A j \in DOMAIN f : j > 1 \/ f[1] # 0 =>
         /\ f[j] \in DOMAIN n.pins /\ n.pins[f[j]].valid /\ n.pins[f[j]].net = x
         /\ IsSink(n, f[j]) <=> j > 1
  <2> TAKE j \in DOMAIN f
  <2>1. PlaceOK(n, x, j) BY Zenon, <1>4
  <2> QED BY ZenonT(40), <2>1, <1>6 DEF PlaceOK
<1>10. \A j \in DOMAIN g : j > 1 =>
         /\ g[j] \in DOMAIN n.pins /\ n.pins[g[j]].valid /\ n.pins[g[j]].net = y
         /\ IsSink(n, g[j])
  <2> SUFFICES ASSUME NEW j \in DOMAIN g, j > 1
               PROVE  /\ g[j] \in DOMAIN n.pins /\ n.pins[g[j]].valid /\ n.pins[g[j]].net = y
                      /\ IsSink(n, g[j])
    BY Zenon
  <2>1. PlaceOK(n, y, j) BY <1>5
  <2>2. j # 1 /\ (j > 1) = TRUE BY SMTT(30), <1>2
  <2> QED BY ZenonT(40), <2>1, <2>2 DEF PlaceOK
<1>11. \E j \in DOMAIN f : f[j] = i /\ j > 1
  <2>1. PinOK(n, i) BY Zenon, <1>1 DEF Joinable, Netted
  <2>2. PICK j \in DOMAIN f : f[j] = i BY Zenon, <2>1, <1>8 DEF PinOK, Joinable
  <2>3. PlaceOK(n, x, j) BY <1>4
  <2>4. i # 0 BY <1>1, ZeroIsNoId DEF Joinable
  <2> QED BY <2>2, <2>3, <2>4 DEF PlaceOK, Joinable
<1>12. g[1] = o
  <2>1. PinOK(n, o) BY Zenon, <1>1 DEF Joinable, Netted
  <2>2. PICK j \in DOMAIN g : g[j] = o BY Zenon, <2>1, <1>8 DEF PinOK, Joinable
  <2>3. PlaceOK(n, y, j) BY <1>5
  <2>4. o # 0 BY <1>1, ZeroIsNoId DEF Joinable
  <2>5. ~(j > 1) BY Zenon, <2>2, <2>3, <2>4 DEF PlaceOK, Joinable
  <2> QED BY <2>2, <2>5, <1>2
<1>13. \A p \in DOMAIN n.pins : n.pins[p].valid /\ n.pins[p].net = x => \E j \in DOMAIN f : f[j] = p
  <2> TAKE p \in DOMAIN n.pins
  <2>1. n.pins[p].valid => PinOK(n, p) BY Zenon, <1>1 DEF Netted
  <2> QED BY Zenon, <2>1, <1>8 DEF PinOK, Joinable
<1>14. \A p \in DOMAIN n.pins : n.pins[p].valid /\ n.pins[p].net = y => \E j \in DOMAIN g : g[j] = p
  <2> TAKE p \in DOMAIN n.pins
  <2>1. n.pins[p].valid => PinOK(n, p) BY <1>1 DEF Netted
  <2> QED BY Zenon, <2>1, <1>8 DEF PinOK, Joinable
<1>15. n.pins[i].net = x /\ n.pins[o].net = y BY Zenon
<1>16. v = <<d>> \o w BY Zenon, <1>7
<1>17. IsSink(n, i) /\ ~IsSink(n, o) BY DEF Joinable
<1>18. 0 \notin DOMAIN n.pins BY <1>1, ZeroIsNoId
<1> HIDE DEF x, y, f, g, a, w
<1>20. h \in Seq(Nat) /\ c \in Seq(Nat) /\ d \in Nat
  BY <1>2, <1>3, <1>6, TailFacts
<1>21. /\ DOMAIN f = 1..Len(f) /\ Len(f) \in Nat /\ Len(h) = Len(f) - 1
       /\ DOMAIN h = 1..(Len(f) - 1)
       /\ \A j \in 1..(Len(f) - 1) : h[j] = f[j + 1]
       /\ Single(h)
  BY <1>2, <1>3, TailFacts
<1>22. /\ DOMAIN g = 1..Len(g) /\ Len(g) \in Nat /\ Len(c) = Len(g) - 1
       /\ DOMAIN c = 1..(Len(g) - 1)
       /\ \A j \in 1..(Len(g) - 1) : c[j] = g[j + 1]
       /\ Single(c)
  BY <1>2, <1>3, TailFacts
<1> HIDE DEF h, c
<1>24. /\ a \in Seq(Nat)
       /\ \A k \in DOMAIN a : \E j \in DOMAIN h : a[k] = h[j] /\ h[j] # i
       /\ \A j \in DOMAIN h : h[j] # i => \E k \in DOMAIN a : a[k] = h[j]
       /\ Single(a)
  <2> DEFINE I == {i}
  <2>1. a = Without(h, I) BY DEF a
  <2>2. \A z : z \in I <=> z = i OBVIOUS
  <2> HIDE DEF I
  <2>3. /\ a \in Seq(Nat)
        /\ \A k \in DOMAIN a : \E j \in DOMAIN h : a[k] = h[j] /\ h[j] \notin I
        /\ \A j \in DOMAIN h : h[j] \notin I => \E k \in DOMAIN a : a[k] = h[j]
        /\ Single(h) => Single(a)
    BY <2>1, <1>20, WithoutFacts
  <2> QED BY <2>2, <2>3, <1>21
<1>25. \A k \in DOMAIN a : \E j \in DOMAIN f : j > 1 /\ a[k] = f[j] /\ f[j] # i
  <2> TAKE k \in DOMAIN a
  <2>1. PICK j \in DOMAIN h : a[k] = h[j] /\ h[j] # i BY <1>24
  <2>2. j + 1 \in DOMAIN f /\ j + 1 > 1 /\ h[j] = f[j + 1] BY <1>21
  <2> QED BY <2>1, <2>2
<1>26. \A j \in DOMAIN f : j > 1 /\ f[j] # i => \E k \in DOMAIN a : a[k] = f[j]
  <2> TAKE j \in DOMAIN f
  <2>1. j > 1 => j - 1 \in DOMAIN h /\ h[j - 1] = f[j] BY <1>21
  <2> QED BY <2>1, <1>24
<1>27. \A k \in DOMAIN a : /\ a[k] \in DOMAIN n.pins \ {i, o} /\ n.pins[a[k]].valid /\ n.pins[a[k]].net = x
                           /\ IsSink(n, a[k])
  BY <1>25, <1>9, <1>15, <1>8
<1>28. \A k \in DOMAIN c : /\ c[k] \in DOMAIN n.pins \ {i, o} /\ n.pins[c[k]].valid
                                 /\ n.pins[c[k]].net = y /\ IsSink(n, c[k])
  <2> TAKE k \in DOMAIN c
  <2>1. k + 1 \in DOMAIN g /\ k + 1 > 1 /\ c[k] = g[k + 1] BY <1>22
  <2> QED BY <2>1, <1>10, <1>15, <1>8, <1>17
<1>29. /\ d \in DOMAIN n.pins \ {i, o} /\ n.pins[d].valid /\ n.pins[d].net = x /\ ~IsSink(n, d)
  <2>1. 1 \in DOMAIN f BY <1>21, <1>3
  <2> QED BY <2>1, <1>6, <1>9, <1>15, <1>8, <1>17
<1>31. v = <<d>> \o w /\ w = a \o c
  BY <1>16 DEF w
<1>32. \A p \in DOMAIN n.pins : n.pins[p].valid /\ n.pins[p].net = y /\ p # o => \E k \in DOMAIN c : c[k] = p
  <2> SUFFICES ASSUME NEW p \in DOMAIN n.pins, n.pins[p].valid, n.pins[p].net = y, p # o
               PROVE  \E k \in DOMAIN c : c[k] = p
    OBVIOUS
  <2>1. PICK j \in DOMAIN g : g[j] = p BY <1>14
  <2>2. j # 1 BY <2>1, <1>12
  <2>3. j - 1 \in DOMAIN c /\ c[j - 1] = p BY <2>1, <2>2, <1>22
  <2> QED BY <2>3
<1>33. \A p \in DOMAIN n.pins : n.pins[p].valid /\ n.pins[p].net = x /\ p # i /\ p # d => \E k \in DOMAIN a : a[k] = p
  <2> SUFFICES ASSUME NEW p \in DOMAIN n.pins, n.pins[p].valid, n.pins[p].net = x, p # i, p # d
               PROVE  \E k \in DOMAIN a : a[k] = p
    OBVIOUS
  <2>1. PICK j \in DOMAIN f : f[j] = p BY <1>13
  <2>2. j # 1 BY <2>1, <1>6
  <2>3. j > 1 BY <2>1, <2>2, <1>21
  <2> QED BY <2>1, <2>3, <1>26
<1>34. /\ w \in Seq(Nat) /\ Len(a) \in Nat /\ DOMAIN a = 1..Len(a)
       /\ Len(w) = Len(a) + Len(c) /\ Len(c) \in Nat /\ DOMAIN c = 1..Len(c)
       /\ DOMAIN w = 1..(Len(a) + Len(c))
       /\ \A j \in 1..Len(a) : w[j] = a[j]
       /\ \A j \in 1..(Len(a) + Len(c)) : j > Len(a) => w[j] = c[j - Len(a)]
  BY <1>20, <1>31, <1>24, ConcatFacts
<1>35. /\ v \in Seq(Nat) /\ Len(v) = 1 + Len(w) /\ Len(w) \in Nat /\ DOMAIN v = 1..(1 + Len(w))
       /\ DOMAIN w = 1..Len(w)
       /\ \A j \in 1..(1 + Len(w)) : j > 1 => v[j] = w[j - 1]
       /\ v[1] = d
  <2>1. ASSUME NEW u, u = <<d>> \o w
        PROVE  /\ u \in Seq(Nat) /\ Len(u) = 1 + Len(w) /\ Len(w) \in Nat /\ DOMAIN u = 1..(1 + Len(w))
               /\ DOMAIN w = 1..Len(w)
               /\ \A j \in 1..(1 + Len(w)) : j > 1 => u[j] = w[j - 1]
               /\ u[1] = d
    <3>1. w \in Seq(Nat) BY <1>34
    <3> QED BY <2>1, <3>1, <1>20, ConsFacts
  <2> QED BY ONLY <2>1, <1>31
<1>36. v[1] = d BY <1>35
<1>37. Single(w)
  <2> SUFFICES ASSUME NEW j \in DOMAIN w, NEW k \in DOMAIN w, w[j] = w[k], w[j] # 0 PROVE j = k
    BY DEF Single
  <2>1. CASE j =< Len(a) /\ k =< Len(a)
    <3>1. w[j] = a[j] /\ w[k] = a[k] /\ j \in DOMAIN a /\ k \in DOMAIN a BY <2>1, <1>34
    <3> QED BY <3>1, <1>24 DEF Single
  <2>2. CASE j > Len(a) /\ k > Len(a)
    <3>1. w[j] = c[j - Len(a)] /\ w[k] = c[k - Len(a)] /\ j - Len(a) \in DOMAIN c /\ k - Len(a) \in DOMAIN c
      BY SMTT(30), <2>2, <1>34
    <3>2. j - Len(a) = k - Len(a) BY <3>1, <1>22 DEF Single
    <3>3. j \in Int /\ k \in Int /\ Len(a) \in Int BY <1>34
    <3> QED BY ONLY <3>2, <3>3
  <2>3. CASE j =< Len(a) /\ k > Len(a)
    <3>1. w[j] = a[j] /\ w[k] = c[k - Len(a)] /\ j \in DOMAIN a /\ k - Len(a) \in DOMAIN c BY <2>3, <1>34
    <3>2. n.pins[w[j]].net = x /\ n.pins[w[k]].net = y BY <3>1, <1>27, <1>28
    <3> QED BY <3>2, <1>8
  <2>4. CASE j > Len(a) /\ k =< Len(a)
    <3>1. w[k] = a[k] /\ w[j] = c[j - Len(a)] /\ k \in DOMAIN a /\ j - Len(a) \in DOMAIN c BY <2>4, <1>34
    <3>2. n.pins[w[k]].net = x /\ n.pins[w[j]].net = y BY <3>1, <1>27, <1>28
    <3> QED BY <3>2, <1>8
  <2>5. j \in Nat /\ k \in Nat BY <1>34
  <2> QED BY <2>1, <2>2, <2>3, <2>4, <2>5, <1>34
<1>38. \A j \in DOMAIN w : /\ w[j] \in DOMAIN n.pins \ {i, o} /\ n.pins[w[j]].valid
                           /\ n.pins[w[j]].net \in {x, y} /\ IsSink(n, w[j])
  <2> TAKE j \in DOMAIN w
  <2>1. CASE j =< Len(a)
    <3>1. w[j] = a[j] /\ j \in DOMAIN a BY <2>1, <1>34
    <3> QED BY <3>1, <1>27
  <2>2. CASE j > Len(a)
    <3>1. w[j] = c[j - Len(a)] /\ j - Len(a) \in DOMAIN c BY <2>2, <1>34
    <3> QED BY <3>1, <1>28
  <2>3. j \in Nat BY <1>34
  <2> QED BY <2>1, <2>2, <2>3, <1>34
<1>39. \A p \in DOMAIN n.pins : n.pins[p].valid /\ n.pins[p].net \in {x, y} /\ p # i /\ p # o /\ p # d
         => \E j \in DOMAIN w : w[j] = p
  <2> SUFFICES ASSUME NEW p \in DOMAIN n.pins, n.pins[p].valid, n.pins[p].net \in {x, y}, p # i, p # o, p # d
               PROVE  \E j \in DOMAIN w : w[j] = p
    OBVIOUS
  <2>1. CASE n.pins[p].net = x
    <3>1. PICK k \in DOMAIN a : a[k] = p BY <2>1, <1>33
    <3>2. k \in DOMAIN w /\ w[k] = p BY <3>1, <1>34
    <3> QED BY <3>2
  <2>2. CASE n.pins[p].net = y
    <3>1. PICK k \in DOMAIN c : c[k] = p BY <2>2, <1>32
    <3>2. Len(a) + k \in DOMAIN w /\ Len(a) + k > Len(a) /\ (Len(a) + k) - Len(a) = k BY <1>34
    <3>3. w[Len(a) + k] = p BY <3>1, <3>2, <1>34
    <3> QED BY <3>2, <3>3
  <2> QED BY <2>1, <2>2
<1>40. Single(v)
  <2> SUFFICES ASSUME NEW j \in DOMAIN v, NEW k \in DOMAIN v, v[j] = v[k], v[j] # 0 PROVE j = k
    BY DEF Single
  <2>1. \A l \in DOMAIN v : l # 1 => l - 1 \in DOMAIN w /\ v[l] = w[l - 1] BY <1>35
  <2>2. \A l \in DOMAIN v : l # 1 => v[l] # d BY <2>1, <1>29, <1>38
  <2>3. CASE j = 1 \/ k = 1
    BY <2>2, <2>3, <1>36
  <2>4. CASE j # 1 /\ k # 1
    <3>1. j - 1 = k - 1 BY <2>1, <2>4, <1>37 DEF Single
    <3>2. j \in Int /\ k \in Int BY <1>35
    <3> QED BY ONLY <3>1, <3>2
  <2> QED BY <2>3, <2>4
<1>41. \A j \in DOMAIN v : /\ v[j] \in DOMAIN n.pins \ {i, o} /\ n.pins[v[j]].valid
                           /\ n.pins[v[j]].net \in {x, y}
                           /\ IsSink(n, v[j]) <=> j > 1
  <2> TAKE j \in DOMAIN v
  <2>1. CASE j = 1 BY <2>1, <1>29, <1>36
  <2>2. CASE j # 1
    <3>1. j \in 1..(1 + Len(w)) /\ Len(w) \in Nat BY <1>35
    <3>2. j \in Nat /\ j > 1 /\ j - 1 \in 1..Len(w) BY ONLY <3>1, <2>2
    <3>3. j - 1 \in DOMAIN w /\ v[j] = w[j - 1] BY <3>1, <3>2, <1>35
    <3> QED BY <3>2, <3>3, <1>38
  <2> QED BY <2>1, <2>2
<1>42. \A p \in DOMAIN n.pins \ {i, o} : n.pins[p].valid /\ n.pins[p].net \in {x, y}
         => \E j \in DOMAIN v : v[j] = p
  <2> SUFFICES ASSUME NEW p \in DOMAIN n.pins \ {i, o}, n.pins[p].valid, n.pins[p].net \in {x, y}
               PROVE  \E j \in DOMAIN v : v[j] = p
    OBVIOUS
  <2>1. CASE p = d
    <3>1. 1 \in DOMAIN v BY <1>35
    <3> QED BY <2>1, <3>1, <1>36
  <2>2. CASE p # d
    <3>1. PICK k \in DOMAIN w : w[k] = p BY <2>2, <1>39
    <3>2. k + 1 \in DOMAIN v /\ k + 1 > 1 /\ (k + 1) - 1 = k BY <1>34, <1>35
    <3>3. v[k + 1] = p BY <3>1, <3>2, <1>35
    <3> QED BY <3>2, <3>3
  <2> QED BY <2>1, <2>2
<1>43. Len(v) >= 1 BY <1>35
<1> QED BY <1>15, <1>35, <1>40, <1>41, <1>42, <1>43 DEF BufferNetPins

\* What a circuit is while buffers are absorbed
Absorbable(n) == /\ Owning(n) /\ Connected(n) /\ PortsFit(n)
                 /\ PadsNamed(n) /\ Pinned(n) /\ Plainly(n)

\* A buffer stays one as long as its pins stay on nets.
LEMMA BuffersStay ==
  ASSUME NEW n, Typed(n), Refs(n), Owning(n), Connected(n), NEW m, SameShape(n, m), Connected(m),
         NEW a \in Buffers(n), m.blocks[a].valid,
         \A p \in DOMAIN n.pins : n.pins[p].valid /\ PinBlock(n, p) = a => m.pins[p].valid
  PROVE  a \in Buffers(m)
<1>1. n \in Netlists /\ InRange(n) /\ Structure(n) BY DEF Typed, Refs
<1>2. /\ a \in DOMAIN n.blocks /\ n.blocks[a].valid /\ OneInOneOut(n, a)
      /\ n.blocks[a].model = "names" /\ n.blocks[a].table = "identity"
  BY DEF Buffers, Valid, IsBufferLut, OneInOneOut
<1>3. /\ a \in DOMAIN m.blocks /\ m.blocks[a].model = "names" /\ m.blocks[a].table = "identity"
  BY <1>2 DEF SameShape
<1>4. \A pn : BlockPins(m, a, pn) = BlockPins(n, a, pn)
  BY <1>1, <1>2, ShapeKeepsStructure
<1>5. \A p \in n.blocks[a].pins : p \in DOMAIN n.pins /\ n.pins[p].net # 0 /\ m.pins[p].net # 0
  <2> TAKE p \in n.blocks[a].pins
  <2>1. p \in DOMAIN n.pins /\ PinBlock(n, p) = a BY <1>1, <1>2 DEF InRange, Structure
  <2>2. n.pins[p].port \in DOMAIN n.ports /\ n.ports[n.pins[p].port].block = a
    BY <2>1, <1>1 DEF InRange, PinBlock
  <2>3. n.ports[n.pins[p].port].valid /\ n.pins[p].valid BY <2>1, <2>2, <1>2 DEF Owning
  <2>4. m.pins[p].valid /\ p \in DOMAIN m.pins BY <2>1, <2>3 DEF SameShape
  <2> QED BY <2>1, <2>3, <2>4 DEF Connected
<1>6. ASSUME NEW pn \in {"in", "out"}
      PROVE  Cardinality({p \in BlockPins(m, a, pn) : m.pins[p].net # 0}) = 1
  <2>1. {p \in BlockPins(m, a, pn) : m.pins[p].net # 0} = {p \in BlockPins(n, a, pn) : n.pins[p].net # 0}
    BY <1>4, <1>5 DEF BlockPins
  <2>2. Cardinality({p \in BlockPins(n, a, pn) : n.pins[p].net # 0}) = 1 BY <1>2 DEF OneInOneOut
  <2> QED BY <2>1, <2>2
<1> QED BY <1>3, <1>6 DEF Buffers, Valid, IsBufferLut, OneInOneOut

\* What stays true when the two nets of a buffer become one.
LEMMA JoinedNetsKeep ==
  ASSUME NEW n, Good(n), n.error = "none", Absorbable(n), NEW b \in Buffers(n),
         NEW i, i = BufferPin(n, b, "in"), NEW o, o = BufferPin(n, b, "out"),
         NEW r, Bare(n, b, i, o, r), NEW v, BufferNetPins(n, i, o, v),
         NEW name \in Name, NEW k, NEW m, NetAdded(r, name, k, v, m),
         name \in {n.nets[n.pins[i].net].name, n.nets[n.pins[o].net].name},
         Typed(m), Refs(m), SameShape(r, m),
         n.blocks[PinBlock(n, v[1])].model = "input" => name = n.nets[n.pins[i].net].name,
         n.pins[v[1]].net = n.pins[i].net
  PROVE  Absorbable(m) /\ Buffers(n) \ {b} \subseteq Buffers(m) /\ (Whole(n) => Whole(m))
<1>1. /\ Typed(n) /\ Refs(n) /\ Owning(n) /\ Connected(n) /\ PortsFit(n) /\ PadsNamed(n) /\ Pinned(n) /\ Plainly(n)
  BY DEF Good, Absorbable
<1>2. /\ b \in DOMAIN n.blocks
      /\ i \in DOMAIN n.pins /\ PinBlock(n, i) = b /\ o \in DOMAIN n.pins /\ PinBlock(n, o) = b
      /\ PinsOfBlocks(n, {b}) = {i, o}
  BY <1>1, BufferPinFacts
<1>3. SameShape(n, m)
  <2>1. SameShape(n, r) BY DEF Bare
  <2> QED BY Zenon, <2>1, ShapeTransitive
<1>4. /\ DOMAIN m.pins = DOMAIN n.pins /\ DOMAIN m.ports = DOMAIN n.ports /\ DOMAIN m.blocks = DOMAIN n.blocks
  BY <1>3 DEF SameShape
<1>5. /\ \A a \in DOMAIN n.blocks : (m.blocks[a].valid <=> n.blocks[a].valid /\ a # b)
      /\ \A a \in DOMAIN n.blocks : m.blocks[a].name = n.blocks[a].name
      /\ \A q \in DOMAIN n.ports : (m.ports[q].valid <=> n.ports[q].valid /\ n.ports[q].block # b)
  <2>1. m.blocks = r.blocks /\ m.ports = r.ports BY Zenon DEF NetAdded
  <2>2. /\ \A a \in DOMAIN n.blocks : (r.blocks[a].valid <=> n.blocks[a].valid /\ a # b)
        /\ \A q \in DOMAIN n.ports : (r.ports[q].valid <=> n.ports[q].valid /\ n.ports[q].block # b)
    BY Zenon DEF Bare
  <2>3. \A a \in DOMAIN n.blocks : r.blocks[a].name = n.blocks[a].name BY DEF Bare
  <2> QED BY <2>1, <2>2, <2>3
<1>6. \A p \in DOMAIN n.pins : /\ m.pins[p].valid = r.pins[p].valid
                               /\ (\E j \in DOMAIN v : v[j] = p) => m.pins[p].net = k
                               /\ (\A j \in DOMAIN v : v[j] # p) => m.pins[p] = r.pins[p]
  <2>1. DOMAIN r.pins = DOMAIN n.pins BY Zenon DEF Bare, SameShape
  <2> QED BY Zenon, <2>1 DEF NetAdded
<1>7. ~m.pins[i].valid /\ ~m.pins[o].valid
  BY <1>2, <1>6 DEF Bare
<1>8. \A p \in DOMAIN n.pins : p \notin {i, o} => r.pins[p].valid = n.pins[p].valid
  <2> SUFFICES ASSUME NEW p \in DOMAIN n.pins \ {i, o} PROVE r.pins[p].valid = n.pins[p].valid
    OBVIOUS
  <2>1. n.pins[p] \in PinRecs BY <1>1, Shape DEF Typed
  <2>2. Unlink(n.pins[p]).valid = n.pins[p].valid BY Zenon, <2>1, UnlinkFacts
  <2>3. r.pins[p] = Unlink(n.pins[p]) \/ r.pins[p] = n.pins[p] BY DEF Bare
  <2> QED BY <2>2, <2>3
<1>9. \A p \in DOMAIN n.pins : (m.pins[p].valid <=> n.pins[p].valid /\ p \notin {i, o})
  BY <1>6, <1>7, <1>8
<1>10. \A p \in DOMAIN n.pins : m.pins[p].valid =>
         \/ \E j \in DOMAIN v : v[j] = p
         \/ m.pins[p] = n.pins[p] /\ n.pins[p].net \notin {n.pins[i].net, n.pins[o].net}
  <2> SUFFICES ASSUME NEW p \in DOMAIN n.pins, m.pins[p].valid, \A j \in DOMAIN v : v[j] # p
               PROVE  m.pins[p] = n.pins[p] /\ n.pins[p].net \notin {n.pins[i].net, n.pins[o].net}
    OBVIOUS
  <2>1. n.pins[p].valid /\ p \notin {i, o} BY <1>9
  <2>2. n.pins[p].net \notin {n.pins[i].net, n.pins[o].net} BY Zenon, <2>1 DEF BufferNetPins
  <2>3. r.pins[p] = n.pins[p] BY Zenon, <2>1, <2>2 DEF Bare
  <2> QED BY <2>2, <2>3, <1>6
<1>11. k # 0 /\ m.nets[k].valid /\ m.nets[k].name = name /\ k \notin DOMAIN n.nets
  BY DEF NetAdded, Bare
<1>12. \A x \in DOMAIN n.nets : x \notin {n.pins[i].net, n.pins[o].net} =>
          (m.nets[x].valid = n.nets[x].valid /\ m.nets[x].name = n.nets[x].name)
  <2>0. n.nets \in Seq(NetRecs) /\ r.nets \in Seq(NetRecs) BY Zenon, <1>1 DEF Typed, Netlists, Bare
  <2>1. DOMAIN r.nets = DOMAIN n.nets BY DEF Bare
  <2>2. \A x \in DOMAIN n.nets : m.nets[x] = r.nets[x] BY Zenon, <2>1 DEF NetAdded
  <2>3. \A x \in DOMAIN n.nets : x \notin {n.pins[i].net, n.pins[o].net} =>
          (r.nets[x].valid <=> n.nets[x].valid)
    BY Zenon DEF Bare
  <2>4. \A x \in DOMAIN n.nets : r.nets[x].name = n.nets[x].name BY Zenon DEF Bare
  <2>5. \A x \in DOMAIN n.nets : r.nets[x].valid \in BOOLEAN /\ n.nets[x].valid \in BOOLEAN
    BY <2>1, <1>1, FieldTypes DEF Typed, Bare
  <2> QED BY Zenon, <2>2, <2>3, <2>4, <2>5
<1>13. Connected(m)
  <2> SUFFICES ASSUME NEW p \in DOMAIN n.pins, m.pins[p].valid PROVE m.pins[p].net # 0
    BY <1>4 DEF Connected
  <2>1. n.pins[p].net # 0 BY <1>1, <1>9 DEF Connected
  <2> QED BY <2>1, <1>6, <1>10, <1>11
<1>14. Owning(m)
  <2>1. ASSUME NEW q \in DOMAIN m.ports, m.blocks[m.ports[q].block].valid PROVE m.ports[q].valid
    <3>1. q \in DOMAIN n.ports /\ m.ports[q].block = n.ports[q].block BY <1>3 DEF SameShape
    <3>2. n.ports[q].block \in DOMAIN n.blocks BY <3>1, <1>1 DEF Typed, InRange
    <3>3. n.blocks[n.ports[q].block].valid /\ n.ports[q].block # b BY <2>1, <3>1, <3>2, <1>5
    <3> QED BY <3>1, <3>3, <1>1, <1>5 DEF Owning
  <2>2. ASSUME NEW p \in DOMAIN m.pins, m.ports[m.pins[p].port].valid PROVE m.pins[p].valid
    <3>1. p \in DOMAIN n.pins /\ m.pins[p].port = n.pins[p].port BY <1>3 DEF SameShape
    <3>2. n.pins[p].port \in DOMAIN n.ports BY <3>1, <1>1 DEF Typed, InRange
    <3>3. n.ports[n.pins[p].port].valid /\ n.ports[n.pins[p].port].block # b BY Zenon, <2>2, <3>1, <3>2, <1>5
    <3>4. n.pins[p].valid /\ p \notin {i, o} BY Zenon, <3>1, <3>3, <1>1, <1>2 DEF Owning, PinBlock
    <3> QED BY <3>1, <3>4, <1>9
  <2> QED BY <2>1, <2>2 DEF Owning
<1>15. PortsFit(m)
  <2>1. \A q \in DOMAIN n.ports : m.ports[q].block = n.ports[q].block /\ m.ports[q].name = n.ports[q].name
    BY <1>3 DEF SameShape
  <2>2. \A a \in DOMAIN n.blocks : m.blocks[a].model = n.blocks[a].model BY <1>3 DEF SameShape
  <2> QED BY <2>1, <2>2, <1>1, <1>4, FitKept
<1>16. Pinned(m)
  <2>1. \A a \in DOMAIN n.blocks : m.blocks[a].pins = n.blocks[a].pins BY <1>3 DEF SameShape
  <2> QED BY <2>1, <1>1, <1>4, <1>5 DEF Pinned
<1>17. \A p \in DOMAIN n.pins : IsSink(m, p) = IsSink(n, p) /\ PinBlock(m, p) = PinBlock(n, p)
  BY Zenon, <1>1, <1>3, ShapeKeepsStructure DEF Refs
<1>18. \A p \in DOMAIN n.pins : PinBlock(n, p) \in DOMAIN n.blocks /\ (n.pins[p].net # 0 => n.pins[p].net \in DOMAIN n.nets)
  BY Zenon, <1>1 DEF Typed, InRange, PinBlock
<1>19. \A a \in DOMAIN n.blocks : m.blocks[a].model = n.blocks[a].model BY <1>3 DEF SameShape
<1>20. PadsNamed(m)
  <2> SUFFICES ASSUME NEW p \in DOMAIN n.pins, m.pins[p].valid, m.blocks[PinBlock(m, p)].model = "input",
                      ~IsSink(m, p)
               PROVE  m.nets[m.pins[p].net].name = m.blocks[PinBlock(m, p)].name
    BY <1>4 DEF PadsNamed
  <2>1. /\ n.pins[p].valid /\ n.blocks[PinBlock(n, p)].model = "input" /\ ~IsSink(n, p)
        /\ n.pins[p].net # 0 /\ n.pins[p].net \in DOMAIN n.nets
    BY <1>9, <1>17, <1>18, <1>19, <1>1 DEF Connected
  <2>2. n.nets[n.pins[p].net].name = n.blocks[PinBlock(n, p)].name BY <2>1, <1>1 DEF PadsNamed
  <2>3. m.blocks[PinBlock(m, p)].name = n.blocks[PinBlock(n, p)].name BY Zenon, <1>5, <1>17, <1>18
  <2>4. CASE \E j \in DOMAIN v : v[j] = p
    <3>1. PICK j \in DOMAIN v : v[j] = p BY <2>4
    <3>2. ~(j > 1) /\ j \in 1..Len(v) BY <2>1, <3>1 DEF BufferNetPins
    <3>3. v[1] = p BY <3>1, <3>2 DEF BufferNetPins
    <3>4. name = n.nets[n.pins[p].net].name BY <2>1, <3>3
    <3> QED BY <2>2, <2>3, <2>4, <3>4, <1>6, <1>11
  <2>5. CASE m.pins[p] = n.pins[p] /\ n.pins[p].net \notin {n.pins[i].net, n.pins[o].net}
    BY <2>1, <2>2, <2>3, <2>5, <1>12
  <2> QED BY <2>4, <2>5, <1>10
<1>21. Buffers(n) \ {b} \subseteq Buffers(m)
  <2> SUFFICES ASSUME NEW a \in Buffers(n), a # b PROVE a \in Buffers(m)
    OBVIOUS
  <2>1. a \in DOMAIN n.blocks /\ n.blocks[a].valid BY DEF Buffers, Valid
  <2>2. m.blocks[a].valid BY <2>1, <1>5
  <2>3. \A p \in DOMAIN n.pins : n.pins[p].valid /\ PinBlock(n, p) = a => m.pins[p].valid
    BY <1>2, <1>9
  <2> QED BY <1>1, <1>3, <1>13, <2>2, <2>3, BuffersStay
<1>22. Whole(n) => Whole(m)
  <2> SUFFICES ASSUME Whole(n), NEW p \in DOMAIN n.pins, m.pins[p].valid
               PROVE  m.nets[m.pins[p].net].valid
    BY <1>4 DEF Whole
  <2>1. CASE \E j \in DOMAIN v : v[j] = p
    BY <2>1, <1>6, <1>11
  <2>2. CASE m.pins[p] = n.pins[p] /\ n.pins[p].net \notin {n.pins[i].net, n.pins[o].net}
    <3>1. n.pins[p].valid /\ n.pins[p].net # 0 BY <1>9, <1>1 DEF Connected
    <3>2. n.nets[n.pins[p].net].valid BY <3>1 DEF Whole
    <3> QED BY <2>2, <3>1, <3>2, <1>12, <1>18
  <2> QED BY <2>1, <2>2, <1>10
<1>23. Plainly(m)
  <2> SUFFICES ASSUME NEW x \in DOMAIN m.nets PROVE \E y \in Base : m.nets[x].name = Plain(y)
    BY DEF Plainly
  <2>0. n.pins[i].net \in DOMAIN n.nets /\ n.pins[o].net \in DOMAIN n.nets
    BY <1>1, <1>2, <1>18, BufferPinFacts
  <2>1. CASE x = k
    BY <2>0, <2>1, <1>1, <1>11 DEF Plainly
  <2>2. CASE x # k
    <3>1. x \in DOMAIN n.nets /\ m.nets[x] = r.nets[x] BY SMTT(30), <2>2 DEF NetAdded, Bare
    <3>2. r.nets[x].name = n.nets[x].name BY <3>1 DEF Bare
    <3> QED BY Zenon, <3>1, <3>2, <1>1 DEF Plainly
  <2> QED BY <2>1, <2>2
<1> QED BY <1>13, <1>14, <1>15, <1>16, <1>20, <1>21, <1>22, <1>23 DEF Absorbable

\* remove_buffer_lut()
LEMMA RemoveBufferLutEffect ==
  ASSUME NEW n, Good(n), n.error = "none", Absorbable(n), NEW b \in Buffers(n),
         NEW m, m = RemoveBufferLut(n, b)
  PROVE  /\ Good(m) /\ DOMAIN m.blocks = DOMAIN n.blocks
         /\ m.error = "none" => /\ Absorbable(m) /\ Buffers(n) \ {b} \subseteq Buffers(m)
                                /\ Whole(n) => Whole(m)
<1> DEFINE i == BufferPin(n, b, "in")
           o == BufferPin(n, b, "out")
           x == n.pins[i].net
           y == n.pins[o].net
           d == Driver(n, x)
           sinks == MergedSinks(n, i, o)
           fromPad == PadIn(n, {d}, "input")
           toPad == PadIn(n, ToSet(sinks), "output")
           name == n.nets[NamingNet(x, y, fromPad, toPad)].name
           r == RemoveNets(RemoveNets(RemoveBlocks(n, {b}), {x}), {y})
           a == AddNet(r, name, d, sinks)
<1>0. i = BufferPin(n, b, "in") /\ o = BufferPin(n, b, "out") OBVIOUS
<1>1. /\ Typed(n) /\ Refs(n) /\ Owning(n) /\ Connected(n) /\ PortsFit(n)
  BY Zenon DEF Good, Absorbable
<1>2. /\ d = 0 => m = Fail(n, "range")
      /\ d # 0 /\ fromPad /\ toPad => m = n
      /\ d # 0 /\ ~(fromPad /\ toPad) => m = a
  BY DEF RemoveBufferLut
<1> HIDE DEF i, o
<1>3. /\ i \in DOMAIN n.pins /\ n.pins[i].valid /\ IsSink(n, i)
      /\ o \in DOMAIN n.pins /\ n.pins[o].valid /\ ~IsSink(n, o)
      /\ n.nets[x].name \in Name /\ n.nets[y].name \in Name
      /\ x # 0 /\ y # 0
  <2>1. \A p, q : p = BufferPin(n, b, "in") /\ q = BufferPin(n, b, "out") =>
           /\ p \in DOMAIN n.pins /\ n.pins[p].valid /\ n.pins[p].net # 0 /\ IsSink(n, p)
           /\ q \in DOMAIN n.pins /\ n.pins[q].valid /\ n.pins[q].net # 0 /\ ~IsSink(n, q)
           /\ n.nets[n.pins[p].net].name \in Name /\ n.nets[n.pins[q].net].name \in Name
    BY <1>1, BufferPinFacts
  <2> QED BY <1>0, <2>1
<1>4. x \in DOMAIN n.nets /\ y \in DOMAIN n.nets BY <1>1, <1>3 DEF Typed, InRange
<1>5. Good(r) /\ DOMAIN r.blocks = DOMAIN n.blocks /\ (r.error = "none" => Bare(n, b, i, o, r))
  BY SMTT(30), <1>0, <1>1, BareEffect
<1>6. name \in {n.nets[x].name, n.nets[y].name} BY DEF NamingNet
<1>7. fromPad /\ ~toPad => name = n.nets[x].name BY DEF NamingNet
<1>8. fromPad <=> n.blocks[PinBlock(n, d)].model = "input" BY DEF PadIn
<1>9. n \in Netlists BY <1>1 DEF Typed
<1> DEFINE v == <<d>> \o sinks
<1>10. ASSUME d # 0, r.error = "none"
       PROVE  BufferNetPins(n, i, o, v) /\ v[1] = d /\ n.pins[d].net = x
  <2>1. Joinable(n, i, o) BY Zenon, <1>3, <1>4, <1>5, <1>10 DEF Joinable, Bare
  <2>2. BufferNetPins(n, i, o, v) BY <1>1, <1>10, <2>1, MergedSinksFacts
  <2>3. sinks \in Seq(Nat) /\ d \in Nat
    <3>1. n.nets[x].pins \in Seq(Nat) /\ n.nets[y].pins \in Seq(Nat) BY <1>4, <1>9, FieldTypes
    <3>2. Len(n.nets[x].pins) >= 1 /\ Len(n.nets[y].pins) >= 1
      BY <1>1, <1>4, <2>1 DEF Refs, Netted, Joinable
    <3> DEFINE f == n.nets[x].pins
               g == n.nets[y].pins
    <3>3. f # <<>> /\ g # <<>> /\ Tail(f) \in Seq(Nat) /\ Tail(g) \in Seq(Nat) BY <3>1, <3>2, TailFacts
    <3>4. Sinks(n, x) = Tail(f) /\ Sinks(n, y) = Tail(g) /\ d = f[1] BY <3>3 DEF Sinks, Driver
    <3>5. sinks = Without(Tail(f), {i}) \o Tail(g) BY <3>4 DEF MergedSinks
    <3>6. d \in Nat
      <4> HIDE DEF f, d
      <4>1. f \in Seq(Nat) /\ Len(f) >= 1 BY <3>1, <3>2 DEF f
      <4>2. f[1] \in Nat BY <4>1
      <4> QED BY <3>4, <4>2
    <3> HIDE DEF f, g, sinks, d
    <3>7. Without(Tail(f), {i}) \in Seq(Nat) BY <3>3, WithoutFacts
    <3> DEFINE e == Without(Tail(f), {i})
               h == Tail(g)
    <3>8. e \in Seq(Nat) /\ h \in Seq(Nat) /\ sinks = e \o h BY <3>3, <3>5, <3>7
    <3> HIDE DEF e, h
    <3>9. sinks \in Seq(Nat) BY <3>8
    <3> QED BY <3>6, <3>9
  <2> HIDE DEF d, sinks
  <2>4. v[1] = d BY <2>3, ConsFacts
  <2>5. v \in Seq(Nat) /\ Len(v) >= 1 /\ 1 \in DOMAIN v BY <2>2 DEF BufferNetPins
  <2>6. ~IsSink(n, d) /\ d \in DOMAIN n.pins /\ n.pins[d].net \in {x, y}
    BY SMTT(30), <2>2, <2>4, <2>5 DEF BufferNetPins
  <2>7. n.pins[d].net = x
    <3>1. x # 0 /\ n.nets[x].valid BY <2>1, <1>3 DEF Joinable
    <3>2. PlaceOK(n, x, 1) /\ d = n.nets[x].pins[1]
      <4>1. Len(n.nets[x].pins) >= 1 BY <1>1, <1>4, <3>1 DEF Refs, Netted
      <4>2. n.nets[x].pins \in Seq(Nat) BY <1>4, <1>9, FieldTypes
      <4>3. n.nets[x].pins # <<>> /\ 1 \in DOMAIN n.nets[x].pins BY <4>1, <4>2, TailFacts
      <4>4. PlaceOK(n, x, 1) BY <1>1, <1>4, <3>1, <4>3 DEF Refs, Netted
      <4> QED BY <4>3, <4>4 DEF Driver, d
    <3> QED BY Zenon, <3>2, <1>10 DEF PlaceOK
  <2> QED BY Zenon, <2>2, <2>4, <2>7
<1>11. CASE d = 0
  <2>1. m = Fail(n, "range") BY <1>2, <1>11
  <2> QED BY <2>1, <1>1, <1>9, FailIsGood, FailKeepsBlocks
<1>12. CASE d # 0 /\ fromPad /\ toPad
  BY <1>2, <1>12
<1>13. CASE d # 0 /\ ~(fromPad /\ toPad)
  <2>1. m = AddNet(r, name, d, sinks) BY Zenon, <1>2, <1>13
  <2>2. CASE r.error # "none"
    <3>1. m = r BY Zenon, <2>1, <2>2 DEF AddNet
    <3> QED BY Zenon, <3>1, <2>2, <1>5
  <2>3. CASE r.error = "none"
    <3>1. Bare(n, b, i, o, r) BY <1>5, <2>3
    <3>2. BufferNetPins(n, i, o, v) /\ v[1] = d /\ n.pins[d].net = x BY Zenon, <1>10, <1>13, <2>3
    <3>3. name \in Name /\ r.netOf[name] = 0 BY Zenon, <1>3, <1>6, <3>1 DEF Bare
    <3>4. n.blocks[PinBlock(n, v[1])].model = "input" => name = n.nets[x].name
      BY <1>7, <1>8, <1>13, <3>2
    <3> HIDE DEF r, d, sinks, name
    <3>5. Takes(r, v)
      <4>1. v \in Seq(Nat) /\ Len(v) >= 1 /\ Single(v) BY <3>2 DEF BufferNetPins
      <4>2. ASSUME NEW j \in DOMAIN v
            PROVE  /\ v[j] \in DOMAIN r.pins /\ r.pins[v[j]].valid /\ r.pins[v[j]].net = 0
                   /\ IsSink(r, v[j]) <=> j > 1
        <5> DEFINE p == v[j]
        <5>1. /\ p \in DOMAIN n.pins \ {i, o} /\ n.pins[p].valid /\ n.pins[p].net \in {x, y}
              /\ IsSink(n, p) <=> j > 1
          BY Zenon, <3>2 DEF BufferNetPins
        <5>2. r.pins[p] = Unlink(n.pins[p]) BY <5>1, <3>1 DEF Bare
        <5>3. n.pins[p] \in PinRecs BY <5>1, <1>9, Shape
        <5>4. r.pins[p].valid /\ r.pins[p].net = 0 BY Zenon, <5>1, <5>2, <5>3, UnlinkFacts
        <5>5. SameShape(n, r) BY <3>1 DEF Bare
        <5>6. p \in DOMAIN r.pins BY <5>1, <5>5 DEF SameShape
        <5>7. IsSink(r, p) = IsSink(n, p) BY Zenon, <5>1, <5>5, <1>1, ShapeKeepsStructure DEF Refs
        <5> QED BY <5>1, <5>4, <5>6, <5>7
      <4> QED BY <4>1, <4>2 DEF Takes
    <3>6. Typed(r) /\ Refs(r) /\ r \in Netlists BY <3>1 DEF Bare, Typed
    <3>7. PICK k : NetAdded(r, name, k, v, m) BY <2>1, <2>3, <3>3, <3>5, <3>6, AddNetAdds
    <3>8. Typed(m) /\ Refs(m) /\ SameShape(r, m) BY <3>3, <3>5, <3>6, <3>7, NetAddedIsGood
    <3>9. Absorbable(m) /\ Buffers(n) \ {b} \subseteq Buffers(m) /\ (Whole(n) => Whole(m))
      <4>1. n.blocks[PinBlock(n, v[1])].model = "input" => name = n.nets[n.pins[i].net].name BY <3>4
      <4>2. n.pins[v[1]].net = n.pins[i].net BY <3>2
      <4>3. name \in {n.nets[n.pins[i].net].name, n.nets[n.pins[o].net].name} BY <1>6
      <4> HIDE DEF v, x
      <4> QED BY <1>0, <4>1, <4>2, <4>3, <3>1, <3>2, <3>3, <3>7, <3>8, JoinedNetsKeep
    <3>10. Good(m) BY <3>8 DEF Good
    <3>11. DOMAIN m.blocks = DOMAIN n.blocks BY <3>8, <1>5 DEF SameShape
    <3> QED BY <3>9, <3>10, <3>11
  <2> QED BY Zenon, <2>2, <2>3
<1> QED BY <1>11, <1>12, <1>13

-----------------------------------------------------------------------------
(* Sweeping.                                                               *)

\* What a circuit is while it is cleaned
Clean(n) == Owning(n) /\ PortsFit(n) /\ PadsNamed(n) /\ Pinned(n)

\* Removing blocks keeps what the clean-up needs.
LEMMA BlocksRemovedKeep ==
  ASSUME NEW n, Typed(n), Refs(n), Clean(n), NEW B \in SUBSET DOMAIN n.blocks, \A b \in B : n.blocks[b].valid,
         NEW m, BlocksRemoved(n, B, m)
  PROVE  /\ Clean(m) /\ (Whole(n) => Whole(m)) /\ (Plainly(n) => Plainly(m))
         /\ DOMAIN m.blocks = DOMAIN n.blocks
<1>1. /\ n \in Netlists /\ InRange(n) /\ Structure(n) /\ Owning(n) /\ PortsFit(n) /\ PadsNamed(n) /\ Pinned(n)
      /\ SameShape(n, m)
  BY DEF Typed, Refs, Clean, BlocksRemoved
<1>2. /\ DOMAIN m.pins = DOMAIN n.pins /\ DOMAIN m.ports = DOMAIN n.ports /\ DOMAIN m.blocks = DOMAIN n.blocks
      /\ \A a \in DOMAIN n.blocks : m.blocks[a].model = n.blocks[a].model /\ m.blocks[a].pins = n.blocks[a].pins
      /\ \A q \in DOMAIN n.ports : m.ports[q].block = n.ports[q].block /\ m.ports[q].name = n.ports[q].name
      /\ \A p \in DOMAIN n.pins : m.pins[p].port = n.pins[p].port
  BY <1>1 DEF SameShape
<1>3. \A a \in DOMAIN n.blocks : (m.blocks[a].valid <=> n.blocks[a].valid /\ a \notin B)
  BY DEF BlocksRemoved
<1>4. \A a \in DOMAIN n.blocks : m.blocks[a].name = n.blocks[a].name
  BY DEF BlocksRemoved
<1>5. \A q \in DOMAIN n.ports : (m.ports[q].valid <=> n.ports[q].valid /\ n.ports[q].block \notin B)
  BY DEF BlocksRemoved
<1>6. \A p \in DOMAIN n.pins : IF p \in PinsOfBlocks(n, B) THEN ~m.pins[p].valid ELSE m.pins[p] = n.pins[p]
  BY DEF BlocksRemoved, PinsRemoved
<1>7. \A k \in DOMAIN n.nets : m.nets[k].valid = n.nets[k].valid /\ m.nets[k].name = n.nets[k].name
  BY DEF BlocksRemoved, NetsCut
<1>8. \A p \in DOMAIN n.pins : m.pins[p].valid =>
         n.pins[p].valid /\ m.pins[p] = n.pins[p] /\ (n.pins[p].net # 0 => n.pins[p].net \in DOMAIN n.nets)
  BY <1>1, <1>6 DEF PinsOfBlocks, InRange
<1>9. \A p \in DOMAIN n.pins : PinBlock(m, p) = PinBlock(n, p) /\ IsSink(m, p) = IsSink(n, p)
                               /\ PinBlock(n, p) \in DOMAIN n.blocks
  BY <1>1, ShapeKeepsStructure DEF InRange, PinBlock
<1>10. Owning(m)
  <2>1. ASSUME NEW q \in DOMAIN n.ports, m.blocks[m.ports[q].block].valid PROVE m.ports[q].valid
    <3>1. n.ports[q].block \in DOMAIN n.blocks BY <1>1 DEF InRange
    <3> QED BY <2>1, <3>1, <1>1, <1>2, <1>3, <1>5 DEF Owning
  <2>2. ASSUME NEW p \in DOMAIN n.pins, m.ports[m.pins[p].port].valid PROVE m.pins[p].valid
    <3>1. n.pins[p].port \in DOMAIN n.ports BY <1>1 DEF InRange
    <3>2. n.ports[n.pins[p].port].valid /\ n.ports[n.pins[p].port].block \notin B BY <2>2, <3>1, <1>2, <1>5
    <3>3. n.pins[p].valid /\ p \notin PinsOfBlocks(n, B) BY <3>2, <1>1 DEF Owning, PinsOfBlocks, PinBlock
    <3> QED BY <3>3, <1>6
  <2> QED BY <2>1, <2>2, <1>2 DEF Owning
<1>11. PortsFit(m) BY <1>1, <1>2, FitKept
<1>12. PadsNamed(m)
  BY <1>1, <1>2, <1>4, <1>7, <1>8, <1>9 DEF PadsNamed
<1>13. Pinned(m) BY <1>1, <1>2, <1>3 DEF Pinned
<1>14. Whole(n) => Whole(m) BY <1>2, <1>7, <1>8 DEF Whole
<1>15. DOMAIN m.nets = DOMAIN n.nets BY DEF BlocksRemoved, NetsCut
<1>16. Plainly(n) => Plainly(m) BY <1>7, <1>15 DEF Plainly
<1> QED BY <1>2, <1>10, <1>11, <1>12, <1>13, <1>14, <1>16 DEF Clean

\* Removing nets keeps it too.
LEMMA NetsRemovedKeep ==
  ASSUME NEW n, Typed(n), Refs(n), Clean(n), NEW N \in SUBSET DOMAIN n.nets,
         NEW m, NetsRemoved(n, N, m), SameShape(n, m)
  PROVE  /\ Clean(m) /\ (Whole(n) => Whole(m)) /\ (Plainly(n) => Plainly(m))
         /\ DOMAIN m.blocks = DOMAIN n.blocks
<1>1. /\ n \in Netlists /\ InRange(n) /\ Structure(n) /\ Owning(n) /\ PortsFit(n) /\ PadsNamed(n) /\ Pinned(n)
  BY DEF Typed, Refs, Clean
<1>2. m.blocks = n.blocks /\ m.ports = n.ports /\ DOMAIN m.pins = DOMAIN n.pins
  BY DEF NetsRemoved
<1>3. \A p \in DOMAIN n.pins :
         /\ m.pins[p].valid = n.pins[p].valid /\ m.pins[p].port = n.pins[p].port
         /\ m.pins[p].valid /\ m.pins[p].net # 0
            => n.pins[p].net # 0 /\ m.pins[p].net = n.pins[p].net /\ n.pins[p].net \in DOMAIN n.nets
               /\ n.pins[p].net \notin N
  <2> TAKE p \in DOMAIN n.pins
  <2>1. n.pins[p] \in PinRecs BY <1>1, Shape
  <2>2. Unlink(n.pins[p]).net = 0 /\ Unlink(n.pins[p]).valid = n.pins[p].valid /\ Unlink(n.pins[p]).port = n.pins[p].port
    BY <2>1, UnlinkFacts
  <2>3. IF n.pins[p].valid /\ n.pins[p].net # 0 /\ n.pins[p].net \in N
        THEN m.pins[p] = Unlink(n.pins[p]) ELSE m.pins[p] = n.pins[p]
    BY DEF NetsRemoved
  <2> QED BY <2>2, <2>3, <1>1 DEF InRange
<1>4. /\ \A k \in DOMAIN n.nets : (m.nets[k].valid <=> n.nets[k].valid /\ k \notin N)
  BY DEF NetsRemoved
<1>5. /\ \A k \in DOMAIN n.nets : m.nets[k].name = n.nets[k].name
  BY DEF NetsRemoved
<1>6. \A p \in DOMAIN n.pins : PinBlock(m, p) = PinBlock(n, p) /\ IsSink(m, p) = IsSink(n, p)
  BY <1>1, ShapeKeepsStructure
<1>7. Owning(m) BY <1>1, <1>2, <1>3 DEF Owning
<1>8. PortsFit(m) BY <1>1, <1>2 DEF PortsFit
<1>9. PadsNamed(m) BY <1>1, <1>2, <1>3, <1>5, <1>6 DEF PadsNamed
<1>10. Pinned(m) BY <1>1, <1>2 DEF Pinned
<1>11. Whole(n) => Whole(m) BY <1>2, <1>3, <1>4 DEF Whole
<1>12. DOMAIN m.nets = DOMAIN n.nets BY DEF NetsRemoved
<1>13. Plainly(n) => Plainly(m) BY <1>5, <1>12 DEF Plainly
<1> QED BY <1>2, <1>7, <1>8, <1>9, <1>10, <1>11, <1>13 DEF Clean

\* The sinks that stay keep the driver they had.
DriversKept(n, m) ==
  /\ DOMAIN m.pins = DOMAIN n.pins
  /\ \A q \in DOMAIN n.pins : m.pins[q].valid /\ IsSink(m, q) =>
        /\ n.pins[q].valid /\ IsSink(n, q)
        /\ n.pins[q].net # 0 /\ Driver(n, n.pins[q].net) # 0 =>
              m.pins[q].net = n.pins[q].net /\ Driver(m, n.pins[q].net) = Driver(n, n.pins[q].net)

\* What a part of a sweep leaves of circuit n
Swept(n, m) ==
  /\ Good(m) /\ m.error = "none" /\ Clean(m)
  /\ Whole(n) => Whole(m)
  /\ Plainly(n) => Plainly(m)
  /\ DOMAIN m.blocks = DOMAIN n.blocks /\ DriversKept(n, m)

\* Nothing swept.
LEMMA SweptByNothing ==
  ASSUME NEW n, Good(n), n.error = "none", Clean(n)
  PROVE  Swept(n, n)
BY DEF Swept, DriversKept

\* Sweeping twice.
LEMMA SweptTransitive ==
  ASSUME NEW n, NEW m, NEW l, Swept(n, m), Swept(m, l)
  PROVE  Swept(n, l)
<1>1. DriversKept(n, m) /\ DriversKept(m, l) BY DEF Swept
<1>2. DriversKept(n, l) BY <1>1 DEF DriversKept
<1> QED BY <1>2 DEF Swept

\* Removing blocks that drive no net
LEMMA IdleBlocksSwept ==
  ASSUME NEW n, Good(n), n.error = "none", Clean(n), NEW B \in SUBSET Valid(n.blocks),
         \A p \in DOMAIN n.pins : n.pins[p].valid /\ ~IsSink(n, p) /\ n.pins[p].net # 0 => PinBlock(n, p) \notin B,
         NEW m, m = RemoveBlocks(n, B)
  PROVE  Swept(n, m)
<1>1. Typed(n) /\ Refs(n) /\ n \in Netlists /\ InRange(n) /\ Structure(n) /\ Netted(n) /\ Owning(n)
  BY DEF Good, Typed, Refs, Clean
<1>2. B \subseteq DOMAIN n.blocks /\ \A b \in B : n.blocks[b].valid BY DEF Valid
<1>3. \A q \in DOMAIN n.ports : n.ports[q].block \in B => n.ports[q].valid BY <1>1, <1>2 DEF Owning
<1>4. Good(m) /\ m.error = "none" /\ BlocksRemoved(n, B, m)
  BY <1>1, <1>2, <1>3, RemoveBlocksEffect
<1>5. Clean(m) /\ (Whole(n) => Whole(m)) /\ (Plainly(n) => Plainly(m)) /\ DOMAIN m.blocks = DOMAIN n.blocks
  BY <1>1, <1>2, <1>4, BlocksRemovedKeep
<1>6. DOMAIN m.pins = DOMAIN n.pins /\ SameShape(n, m) BY <1>4 DEF BlocksRemoved, SameShape
<1>7. ASSUME NEW q \in DOMAIN n.pins, m.pins[q].valid, IsSink(m, q)
      PROVE  /\ n.pins[q].valid /\ IsSink(n, q)
             /\ n.pins[q].net # 0 /\ Driver(n, n.pins[q].net) # 0 =>
                  m.pins[q].net = n.pins[q].net /\ Driver(m, n.pins[q].net) = Driver(n, n.pins[q].net)
  <2>1. m.pins[q] = n.pins[q] /\ n.pins[q].valid
    BY <1>4, <1>7 DEF BlocksRemoved, PinsRemoved, PinsOfBlocks, Valid
  <2>2. IsSink(n, q) BY <1>1, <1>6, <1>7, ShapeKeepsStructure
  <2>3. ASSUME n.pins[q].net # 0, Driver(n, n.pins[q].net) # 0
        PROVE  Driver(m, n.pins[q].net) = Driver(n, n.pins[q].net)
    <3> DEFINE x == n.pins[q].net
    <3>1. x \in DOMAIN n.nets BY Zenon, <2>3, <1>1 DEF InRange
    <3>2. n.nets[x].valid
      <4>1. PinOK(n, q) BY <2>1, <1>1 DEF Netted
      <4> QED BY Zenon, <4>1, <2>3 DEF PinOK, Driver
    <3>3. /\ n.nets[x].pins \in Seq(Nat) /\ Len(n.nets[x].pins) >= 1 /\ PlaceOK(n, x, 1)
      <4>1. n.nets[x].pins \in Seq(Nat) /\ Len(n.nets[x].pins) >= 1
        BY <3>1, <3>2, <1>1, FieldTypes DEF Netted
      <4>2. 1 \in DOMAIN n.nets[x].pins BY <4>1, TailFacts
      <4> QED BY <4>1, <4>2, <3>1, <3>2, <1>1 DEF Netted
    <3> DEFINE s == n.nets[x].pins
               t == m.nets[x].pins
    <3>4. s # <<>> BY <3>3, TailFacts
    <3>5. Driver(n, x) = s[1] BY Zenon, <3>4 DEF Driver
    <3>6. ~IsSink(n, s[1]) /\ s[1] \in DOMAIN n.pins /\ n.pins[s[1]].valid /\ n.pins[s[1]].net = x
      <4> DEFINE d == s[1]
                 one == 1
      <4>1. d # 0 BY <3>5, <2>3
      <4>2. one = 1 /\ ~(one > 1) /\ n.nets[x].pins[one] = d /\ PlaceOK(n, x, one) BY <3>3
      <4> HIDE DEF one, d
      <4>3. ~IsSink(n, d) /\ d \in DOMAIN n.pins /\ n.pins[d].valid /\ n.pins[d].net = x
        BY Zenon, <4>1, <4>2 DEF PlaceOK
      <4> QED BY Zenon, <4>3 DEF d
    <3>7. s[1] \notin PinsOfBlocks(n, B) BY Zenon, <3>6, <2>3 DEF PinsOfBlocks
    <3>8. Shortened(s, t, PinsOfBlocks(n, B))
      BY Zenon, <3>1, <3>2, <1>4 DEF BlocksRemoved, NetsCut
    <3>9. t \in Seq(Nat) /\ Len(t) >= 1 /\ t[1] = s[1] BY Zenon, <3>7, <3>8 DEF Shortened
    <3>10. t # <<>> BY <3>9, TailFacts
    <3>11. Driver(m, x) = t[1] BY <3>10 DEF Driver
    <3> QED BY <3>5, <3>9, <3>11
  <2> QED BY <2>1, <2>2, <2>3
<1>8. DriversKept(n, m) BY <1>6, <1>7 DEF DriversKept
<1> QED BY <1>4, <1>5, <1>8 DEF Swept

\* Removing nets that have no driver or no sink
LEMMA IdleNetsSwept ==
  ASSUME NEW n, Good(n), n.error = "none", Clean(n), NEW N \in SUBSET Valid(n.nets),
         \A k \in N : Driver(n, k) = 0 \/ Sinks(n, k) = <<>>,
         NEW m, m = RemoveNets(n, N)
  PROVE  Swept(n, m)
<1>1. Typed(n) /\ Refs(n) /\ n \in Netlists /\ InRange(n) /\ Structure(n) /\ Netted(n) /\ Owning(n)
  BY DEF Good, Typed, Refs, Clean
<1>2. N \subseteq DOMAIN n.nets /\ \A k \in N : n.nets[k].valid BY DEF Valid
<1>4. Good(m) /\ m.error = "none" /\ NetsRemoved(n, N, m) /\ SameShape(n, m)
  BY <1>1, <1>2, RemoveNetsEffect
<1>5. Clean(m) /\ (Whole(n) => Whole(m)) /\ (Plainly(n) => Plainly(m)) /\ DOMAIN m.blocks = DOMAIN n.blocks
  BY <1>1, <1>2, <1>4, NetsRemovedKeep
<1>6. DOMAIN m.pins = DOMAIN n.pins /\ \A k \in DOMAIN n.nets : m.nets[k].pins = n.nets[k].pins
  BY <1>4 DEF NetsRemoved
<1>7. ASSUME NEW q \in DOMAIN n.pins, m.pins[q].valid, IsSink(m, q)
      PROVE  /\ n.pins[q].valid /\ IsSink(n, q)
             /\ n.pins[q].net # 0 /\ Driver(n, n.pins[q].net) # 0 =>
                  m.pins[q].net = n.pins[q].net /\ Driver(m, n.pins[q].net) = Driver(n, n.pins[q].net)
  <2>1. n.pins[q].valid
    <3>1. Unlink(n.pins[q]).valid = n.pins[q].valid BY <1>1, Shape, UnlinkFacts
    <3>2. m.pins[q] = Unlink(n.pins[q]) \/ m.pins[q] = n.pins[q] BY <1>4 DEF NetsRemoved
    <3> QED BY <3>1, <3>2, <1>7
  <2>2. IsSink(n, q) BY <1>1, <1>4, <1>7, ShapeKeepsStructure
  <2>3. ASSUME n.pins[q].net # 0, Driver(n, n.pins[q].net) # 0
        PROVE  m.pins[q].net = n.pins[q].net /\ Driver(m, n.pins[q].net) = Driver(n, n.pins[q].net)
    <3> DEFINE x == n.pins[q].net
               s == n.nets[x].pins
    <3>1. x \in DOMAIN n.nets BY <2>3, <1>1 DEF InRange
    <3>2. PinOK(n, q) BY Zenon, <2>1, <1>1 DEF Netted
    <3>3. n.nets[x].valid /\ \E i \in DOMAIN s : s[i] = q BY Zenon, <3>2, <2>3 DEF PinOK, Driver
    <3>4. PICK i \in DOMAIN s : s[i] = q BY <3>3
    <3>5. PlaceOK(n, x, i) BY <3>1, <3>3, <3>4, <1>1 DEF Netted
    <3>6. q # 0 BY <1>1, ZeroIsNoId
    <3>7. i > 1 BY <3>4, <3>5, <3>6, <2>2 DEF PlaceOK
    <3>8. s \in Seq(Nat) BY <3>1, <1>1, FieldTypes
    <3> HIDE DEF s
    <3>9. Len(s) >= 2 /\ DOMAIN s = 1..Len(s) BY <3>4, <3>7, <3>8
    <3>10. Tail(s) # <<>> /\ s # <<>>
      <4>1. s # <<>> /\ Len(Tail(s)) = Len(s) - 1 BY <3>8, <3>9, TailFacts
      <4> QED BY SMTT(30), <4>1, <3>9
    <3>11. Sinks(n, x) # <<>> BY Zenon, <3>10 DEF Sinks, s
    <3>12. x \notin N BY <3>11, <2>3
    <3>13. m.pins[q] = n.pins[q] BY <3>12, <1>4 DEF NetsRemoved
    <3>14. Driver(m, x) = Driver(n, x) BY <3>1, <1>6 DEF Driver
    <3> QED BY <3>13, <3>14
  <2> QED BY <2>1, <2>2, <2>3
<1>8. DriversKept(n, m) BY <1>6, <1>7 DEF DriversKept
<1> QED BY <1>4, <1>5, <1>8 DEF Swept

\* A valid block's pins of a name, from the pin
LEMMA PinAmongBlockPins ==
  ASSUME NEW n, Typed(n), Structure(n), NEW p \in DOMAIN n.pins, NEW pn, n.ports[n.pins[p].port].name = pn
  PROVE  p \in BlockPins(n, PinBlock(n, p), pn)
<1>1. n.pins[p].port \in DOMAIN n.ports /\ PinBlock(n, p) \in DOMAIN n.blocks
  BY DEF Typed, InRange, PinBlock
<1>2. p \in n.blocks[PinBlock(n, p)].pins BY <1>1 DEF Structure
<1> QED BY <1>2 DEF BlockPins

\* Blocks without fanout, of any model
LEMMA NoFanoutSwept ==
  ASSUME NEW n, Good(n), n.error = "none", Clean(n), NEW M,
         NEW m, m = RemoveBlocks(n, {b \in OfModel(n, M) : NoFanout(n, b)})
  PROVE  Swept(n, m)
<1> DEFINE B == {b \in OfModel(n, M) : NoFanout(n, b)}
<1>1. B \subseteq Valid(n.blocks) BY DEF OfModel
<1>2. Typed(n) /\ Structure(n) BY DEF Good, Refs
<1>3. ASSUME NEW p \in DOMAIN n.pins, n.pins[p].valid, ~IsSink(n, p), n.pins[p].net # 0
      PROVE  PinBlock(n, p) \notin B
  <2>1. n.ports[n.pins[p].port].name = "out" BY <1>3 DEF IsSink
  <2>2. p \in BlockPins(n, PinBlock(n, p), "out") BY <1>2, <2>1, PinAmongBlockPins
  <2> QED BY <2>2, <1>3 DEF NoFanout
<1> HIDE DEF B
<1>4. m = RemoveBlocks(n, B) BY DEF B
<1> QED BY <1>1, <1>3, <1>4, IdleBlocksSwept

\* Output pads drive nothing.
LEMMA OutputPadsSwept ==
  ASSUME NEW n, Good(n), n.error = "none", Clean(n),
         NEW B \in SUBSET OfModel(n, {"output"}), NEW m, m = RemoveBlocks(n, B)
  PROVE  Swept(n, m)
<1>1. B \subseteq Valid(n.blocks) BY DEF OfModel
<1>2. Typed(n) /\ PortsFit(n) BY DEF Good, Clean
<1>3. ASSUME NEW p \in DOMAIN n.pins, n.pins[p].valid, ~IsSink(n, p), n.pins[p].net # 0
      PROVE  PinBlock(n, p) \notin B
  <2>1. n.ports[n.pins[p].port].name = "out" BY <1>3 DEF IsSink
  <2>2. n.pins[p].port \in DOMAIN n.ports BY Zenon, <1>2 DEF Typed, InRange
  <2>3. Fits(n.blocks[n.ports[n.pins[p].port].block].model, "out") BY Zenon, <1>2, <2>1, <2>2 DEF PortsFit
  <2>4. n.blocks[PinBlock(n, p)].model # "output" BY Zenon, <2>3 DEF Fits, PinBlock
  <2> QED BY <2>4 DEF OfModel
<1> QED BY <1>1, <1>3, IdleBlocksSwept

\* Each part of a sweep pass leaves a swept circuit.
LEMMA SweepParts ==
  ASSUME NEW n, Good(n), n.error = "none", Clean(n)
  PROVE  /\ Swept(n, SweepInputs(n)) /\ Swept(n, SweepOutputs(n))
         /\ Swept(n, SweepBlocks(n)) /\ Swept(n, SweepNets(n))
         /\ Swept(n, SweepConstantOutputs(n))
<1>1. Swept(n, SweepInputs(n)) BY NoFanoutSwept DEF SweepInputs
<1>2. Swept(n, SweepBlocks(n)) BY NoFanoutSwept DEF SweepBlocks
<1>3. Swept(n, SweepOutputs(n))
  <2> DEFINE B == {b \in OfModel(n, {"output"}) : NoFanin(n, b)}
  <2>1. B \in SUBSET OfModel(n, {"output"}) OBVIOUS
  <2> HIDE DEF B
  <2>2. Swept(n, RemoveBlocks(n, B)) BY <2>1, OutputPadsSwept
  <2> QED BY <2>2 DEF SweepOutputs, B
<1>4. Swept(n, SweepConstantOutputs(n))
  <2> DEFINE B == {b \in OfModel(n, {"output"}) :
                     \A p \in BlockPins(n, b, "in") :
                        n.pins[p].net # 0 => IsConstant(n, n.pins[p].net)}
  <2>1. B \in SUBSET OfModel(n, {"output"}) OBVIOUS
  <2> HIDE DEF B
  <2>2. Swept(n, RemoveBlocks(n, B)) BY <2>1, OutputPadsSwept
  <2> QED BY <2>2 DEF SweepConstantOutputs, B
<1>5. Swept(n, SweepNets(n))
  <2> DEFINE N == {k \in Valid(n.nets) : Driver(n, k) = 0 \/ Sinks(n, k) = <<>>}
  <2>1. N \in SUBSET Valid(n.nets) /\ \A k \in N : Driver(n, k) = 0 \/ Sinks(n, k) = <<>> OBVIOUS
  <2> HIDE DEF N
  <2>2. Swept(n, RemoveNets(n, N)) BY <2>1, IdleNetsSwept
  <2> QED BY <2>2 DEF SweepNets, N
<1> QED BY <1>1, <1>2, <1>3, <1>4, <1>5

\* One pass of sweep_iterative()
LEMMA SweepPassEffect ==
  ASSUME NEW n, Good(n), n.error = "none", Clean(n)
  PROVE  Swept(n, SweepPass(n))
<1> DEFINE ios == IF opts.ios THEN SweepOutputs(SweepInputs(n)) ELSE n
           blks == IF opts.blocks THEN SweepBlocks(ios) ELSE ios
           nts == IF opts.nets THEN SweepNets(blks) ELSE blks
           all == IF opts.constants THEN SweepConstantOutputs(nts) ELSE nts
<1>0. \A x : Swept(n, x) => Good(x) /\ x.error = "none" /\ Clean(x) BY DEF Swept
<1>1. Swept(n, n) BY SweptByNothing
<1>2. Swept(n, SweepInputs(n)) BY SweepParts
<1>3. Swept(n, SweepOutputs(SweepInputs(n)))
  <2>1. Swept(SweepInputs(n), SweepOutputs(SweepInputs(n))) BY <1>0, <1>2, SweepParts
  <2> QED BY <1>2, <2>1, SweptTransitive
<1>4. Swept(n, ios) BY <1>1, <1>3
<1> HIDE DEF ios
<1>5. Swept(n, SweepBlocks(ios))
  <2>1. Swept(ios, SweepBlocks(ios)) BY <1>0, <1>4, SweepParts
  <2> QED BY <1>4, <2>1, SweptTransitive
<1>6. Swept(n, blks) BY <1>4, <1>5
<1> HIDE DEF blks
<1>7. Swept(n, SweepNets(blks))
  <2>1. Swept(blks, SweepNets(blks)) BY <1>0, <1>6, SweepParts
  <2> QED BY <1>6, <2>1, SweptTransitive
<1>8. Swept(n, nts) BY <1>6, <1>7
<1> HIDE DEF nts
<1>9. Swept(n, SweepConstantOutputs(nts))
  <2>1. Swept(nts, SweepConstantOutputs(nts)) BY <1>0, <1>8, SweepParts
  <2> QED BY <1>8, <2>1, SweptTransitive
<1>10. Swept(n, all) BY <1>8, <1>9
<1> QED BY <1>10 DEF SweepPass, all, nts, blks, ios

\* What a look-up finds under a name, if names like it can be
Found(id, x) == IF x \in Name THEN {id[x]} \ {0} ELSE {}

\* Dropping the net and the block called 'unconn', of the names that there are
LEMMA UnconnDropped ==
  ASSUME NEW n, Good(n), n.error = "none", Clean(n), NEW x,
         NEW bare, bare = RemoveNets(n, Found(n.netOf, x)),
         NEW m, m = RemoveBlocks(bare, Found(bare.blockOf, x))
  PROVE  /\ Good(m) /\ m.error = "none" /\ Clean(m) /\ DOMAIN m.blocks = DOMAIN n.blocks
         /\ Whole(n) => Whole(m)
         /\ Plainly(n) => Plainly(m)
<1> DEFINE N == Found(n.netOf, x)
           B == Found(bare.blockOf, x)
<1>1. Typed(n) /\ Refs(n) /\ NetsNamed(n) /\ InRange(n) BY DEF Good, Refs, Typed
<1>2. N \subseteq DOMAIN n.nets /\ \A k \in N : n.nets[k].valid BY <1>1 DEF InRange, NetsNamed, Found
<1> HIDE DEF N, B
<1>3. Good(bare) /\ bare.error = "none" /\ NetsRemoved(n, N, bare) /\ SameShape(n, bare)
  BY <1>1, <1>2, RemoveNetsEffect DEF N
<1>4. Clean(bare) /\ (Whole(n) => Whole(bare)) /\ (Plainly(n) => Plainly(bare)) /\ DOMAIN bare.blocks = DOMAIN n.blocks
  BY <1>1, <1>2, <1>3, NetsRemovedKeep
<1>5. Typed(bare) /\ Refs(bare) /\ BlocksNamed(bare) /\ InRange(bare) /\ Owning(bare)
  BY <1>3, <1>4 DEF Good, Refs, Typed, Clean
<1>6. B \in SUBSET DOMAIN bare.blocks /\ \A b \in B : bare.blocks[b].valid
  <2>1. CASE x \notin Name BY <2>1 DEF B, Found
  <2>2. CASE x \in Name
    <3>1. B = {bare.blockOf[x]} \ {0} BY <2>2 DEF B, Found
    <3>2. bare.blockOf[x] # 0 => bare.blockOf[x] \in DOMAIN bare.blocks BY <2>2, <1>5 DEF InRange
    <3>3. bare.blockOf[x] # 0 => bare.blocks[bare.blockOf[x]].valid BY <2>2, <1>5 DEF BlocksNamed
    <3> QED BY <3>1, <3>2, <3>3
  <2> QED BY <2>1, <2>2
<1>7. m = RemoveBlocks(bare, B) BY DEF B
<1>8. \A q \in DOMAIN bare.ports : bare.ports[q].block \in B => bare.ports[q].valid BY <1>5, <1>6 DEF Owning
<1>9. Good(m) /\ m.error = "none" /\ BlocksRemoved(bare, B, m) BY <1>3, <1>5, <1>6, <1>7, <1>8, RemoveBlocksEffect
<1>10. Clean(m) /\ (Whole(bare) => Whole(m)) /\ (Plainly(bare) => Plainly(m)) /\ DOMAIN m.blocks = DOMAIN bare.blocks
  <2>1. Typed(bare) /\ Refs(bare) /\ Clean(bare) /\ BlocksRemoved(bare, B, m) BY <1>4, <1>5, <1>9
  <2>2. \A b \in B : bare.blocks[b].valid BY <1>6
  <2> QED BY ONLY <1>6, <2>1, <2>2, BlocksRemovedKeep
<1> QED BY <1>4, <1>9, <1>10
-----------------------------------------------------------------------------
(* Clocks used as data.                                                    *)

\* Pin p went to net k, and all else stayed where it was.
Rewired(n, p, k, m) ==
  /\ m.blocks = n.blocks /\ m.ports = n.ports
  /\ m.blockOf = n.blockOf /\ m.netOf = n.netOf
  /\ DOMAIN m.pins = DOMAIN n.pins
  /\ \A x \in DOMAIN n.pins :
        /\ m.pins[x].valid = n.pins[x].valid /\ m.pins[x].port = n.pins[x].port
        /\ m.pins[x].net = IF x = p THEN k ELSE n.pins[x].net
  /\ DOMAIN m.nets = DOMAIN n.nets
  /\ \A l \in DOMAIN n.nets : m.nets[l].valid = n.nets[l].valid /\ m.nets[l].name = n.nets[l].name

\* set_pin_net() with a sink
LEMMA SetPinNetEffect ==
  ASSUME NEW n, Good(n), n.error = "none", NEW p \in DOMAIN n.pins, n.pins[p].valid, IsSink(n, p),
         NEW k \in DOMAIN n.nets, n.nets[k].valid, NEW m, m = SetPinNet(n, p, k)
  PROVE  Good(m) /\ m.error = "none" /\ Rewired(n, p, k, m)
<1> DEFINE P == {p}
           cut == IF n.pins[p].net = 0 THEN n ELSE Disconnect(n, P)
<1>1. Typed(n) /\ Refs(n) /\ Netted(n) /\ n \in Netlists BY DEF Good, Refs, Typed
<1>2. /\ Typed(cut) /\ Refs(cut) /\ SameShape(n, cut) /\ cut.error = "none"
      /\ cut.blocks = n.blocks /\ cut.ports = n.ports
      /\ cut.blockOf = n.blockOf /\ cut.netOf = n.netOf
      /\ \A x \in DOMAIN n.pins : x # p => cut.pins[x] = n.pins[x]
      /\ cut.pins[p].valid /\ cut.pins[p].port = n.pins[p].port /\ cut.pins[p].net = 0
      /\ DOMAIN cut.pins = DOMAIN n.pins /\ DOMAIN cut.nets = DOMAIN n.nets
      /\ \A l \in DOMAIN n.nets : cut.nets[l].valid = n.nets[l].valid /\ cut.nets[l].name = n.nets[l].name
  <2>1. CASE n.pins[p].net = 0
    <3>1. cut = n BY <2>1
    <3> HIDE DEF cut
    <3>2. SameShape(n, n) BY DEF SameShape
    <3> QED BY <1>1, <2>1, <3>1, <3>2
  <2>2. CASE n.pins[p].net # 0
    <3>1. cut = Disconnect(n, P) /\ P \in SUBSET DOMAIN n.pins /\ \A x \in P : n.pins[x].valid BY <2>2
    <3>2. p \in P /\ \A x : x # p => x \notin P OBVIOUS
    <3> HIDE DEF cut, P
    <3>3. Cut(n, P, cut) BY <1>1, <3>1, DisconnectCuts
    <3>4. Typed(cut) /\ Refs(cut) /\ SameShape(n, cut) BY <1>1, <3>1, <3>3, CutIsGood
    <3>5. cut.pins[p] = Unlink(n.pins[p]) /\ \A x \in DOMAIN n.pins : x # p => cut.pins[x] = n.pins[x]
      BY <3>2, <3>3 DEF Cut
    <3>6. n.pins[p] \in PinRecs BY <1>1, Shape
    <3>7. cut.pins[p].valid /\ cut.pins[p].port = n.pins[p].port /\ cut.pins[p].net = 0
      BY <3>5, <3>6, UnlinkFacts
    <3>8. /\ cut.blocks = n.blocks /\ cut.ports = n.ports
          /\ cut.blockOf = n.blockOf /\ cut.netOf = n.netOf /\ cut.error = "none"
          /\ DOMAIN cut.pins = DOMAIN n.pins /\ DOMAIN cut.nets = DOMAIN n.nets
          /\ \A l \in DOMAIN n.nets : cut.nets[l].valid = n.nets[l].valid /\ cut.nets[l].name = n.nets[l].name
      BY <3>3 DEF Cut
    <3> QED BY <3>4, <3>5, <3>7, <3>8
  <2> QED BY <2>1, <2>2
<1>3. m = JoinNet(cut, p, k)
  <2>1. m = IF cut.error # "none" THEN cut ELSE JoinNet(cut, p, k) BY DEF SetPinNet
  <2> HIDE DEF cut
  <2> QED BY <2>1, <1>2
<1> HIDE DEF cut, P
<1>4. Netted(cut) /\ k \in DOMAIN cut.nets /\ cut.nets[k].valid /\ p \in DOMAIN cut.pins BY <1>2 DEF Refs
<1>5. IsSink(cut, p) BY <1>2 DEF IsSink
<1>6. PICK j : Joined(cut, p, k, j, m) BY <1>2, <1>3, <1>4, <1>5, JoinNetJoins
<1>7. Typed(m) /\ Refs(m) BY <1>2, <1>4, <1>6, JoinedIsGood
<1>8. /\ m.error = "none" /\ m.blocks = n.blocks /\ m.ports = n.ports
      /\ m.blockOf = n.blockOf /\ m.netOf = n.netOf
      /\ DOMAIN m.pins = DOMAIN n.pins /\ DOMAIN m.nets = DOMAIN n.nets
  BY <1>2, <1>6 DEF Joined
<1>9. ASSUME NEW x \in DOMAIN n.pins
      PROVE  /\ m.pins[x].valid = n.pins[x].valid /\ m.pins[x].port = n.pins[x].port
             /\ m.pins[x].net = IF x = p THEN k ELSE n.pins[x].net
  <2>1. CASE x = p
    <3>1. cut.pins[p].valid = n.pins[p].valid BY <1>1, <1>2, FieldTypes DEF Typed
    <3> QED BY <2>1, <3>1, <1>2, <1>6 DEF Joined
  <2>2. CASE x # p
    <3>1. m.pins[x] = cut.pins[x] /\ cut.pins[x] = n.pins[x] BY <2>2, <1>2, <1>6 DEF Joined
    <3> QED BY <3>1, <2>2
  <2> QED BY <2>1, <2>2
<1>10. ASSUME NEW l \in DOMAIN n.nets
       PROVE  m.nets[l].valid = n.nets[l].valid /\ m.nets[l].name = n.nets[l].name
  <2>1. m.nets[l].valid = cut.nets[l].valid /\ m.nets[l].name = cut.nets[l].name BY <1>2, <1>6 DEF Joined
  <2> QED BY <2>1, <1>2
<1> QED BY <1>7, <1>8, <1>9, <1>10 DEF Good, Rewired

\* What clock net k's split leaves: a latch clocked by k drives net l, to which
\* the data sinks of k went.
ClockSplit(n, k, l, m) ==
  /\ Good(m) /\ m.error = "none" /\ Clean(m)
  /\ Whole(n) => Whole(m)
  /\ l \in DOMAIN m.nets /\ m.nets[l].name = AsData(n.nets[k].name[2])
  /\ DOMAIN n.nets \subseteq DOMAIN m.nets
  /\ \A x \in DOMAIN n.nets : m.nets[x].valid = n.nets[x].valid /\ m.nets[x].name = n.nets[x].name
  /\ DOMAIN n.pins \subseteq DOMAIN m.pins
  /\ \A p \in DOMAIN n.pins :
        /\ m.pins[p].valid = n.pins[p].valid
        /\ m.ports[m.pins[p].port].name = n.ports[n.pins[p].port].name
        /\ m.pins[p].net = IF /\ n.pins[p].valid /\ n.pins[p].net = k
                              /\ n.ports[n.pins[p].port].name = "in"
                           THEN l ELSE n.pins[p].net
  /\ \A p \in DOMAIN m.pins \ DOMAIN n.pins :
        \/ m.ports[m.pins[p].port].name = "clk" /\ m.pins[p].net = k
        \/ m.ports[m.pins[p].port].name = "out"

\* The data sinks of a net are its pins on input ports.
LEMMA DataSinksFacts ==
  ASSUME NEW n, Typed(n), Refs(n), NEW k \in DOMAIN n.nets, n.nets[k].valid,
         NEW v, v = DataSinks(n, k)
  PROVE  /\ v \in Seq(Nat) /\ Single(v)
         /\ \A i \in DOMAIN v : /\ v[i] \in DOMAIN n.pins /\ n.pins[v[i]].valid /\ IsSink(n, v[i])
                                /\ n.pins[v[i]].net = k /\ n.ports[n.pins[v[i]].port].name = "in"
         /\ \A p \in DOMAIN n.pins :
               n.pins[p].valid /\ n.pins[p].net = k /\ n.ports[n.pins[p].port].name = "in"
               => \E i \in DOMAIN v : v[i] = p
<1> DEFINE t == n.nets[k].pins
           s == Sinks(n, k)
           K == {i \in DOMAIN s : n.ports[n.pins[s[i]].port].name # "clk"}
<1>1. /\ n \in Netlists /\ InRange(n) /\ Netted(n)
      /\ t \in Seq(Nat) /\ Len(t) >= 1 /\ Single(t) /\ \A i \in DOMAIN t : PlaceOK(n, k, i)
  <2>1. n \in Netlists /\ InRange(n) /\ Netted(n) BY DEF Typed, Refs
  <2> QED BY <2>1, FieldTypes DEF Netted
<1>2. s = Tail(t) /\ t # <<>> /\ s \in Seq(Nat) /\ DOMAIN t = 1..Len(t) /\ Len(t) \in Nat
      /\ DOMAIN s = 1..(Len(t) - 1) /\ (\A j \in 1..(Len(t) - 1) : s[j] = t[j + 1]) /\ Single(s)
  <2>1. t # <<>> BY <1>1, TailFacts
  <2>2. s = Tail(t) BY <2>1 DEF Sinks
  <2> QED BY <1>1, <2>1, <2>2, TailFacts
<1>3. ASSUME NEW j \in DOMAIN s
      PROVE  /\ s[j] \in DOMAIN n.pins /\ n.pins[s[j]].valid /\ IsSink(n, s[j])
             /\ n.pins[s[j]].net = k /\ n.ports[n.pins[s[j]].port].name \in PortName
  <2> DEFINE h == j + 1
             p == s[j]
  <2>1. h \in DOMAIN t /\ t[h] = p /\ h > 1 /\ h # 1 BY SMTT(30), <1>2, <1>3
  <2> HIDE DEF h, p
  <2>2. PlaceOK(n, k, h) BY <2>1, <1>1
  <2>3. p \in DOMAIN n.pins /\ n.pins[p].valid /\ IsSink(n, p) /\ n.pins[p].net = k
    BY <2>1, <2>2 DEF PlaceOK
  <2>4. n.pins[p].port \in DOMAIN n.ports BY <2>3, <1>1 DEF InRange
  <2> QED BY <2>3, <2>4, <1>1, FieldTypes DEF p
<1>4. v = Keep(s, K) BY DEF DataSinks
<1>5. ASSUME NEW i \in K
      PROVE  i \in DOMAIN s /\ n.ports[n.pins[s[i]].port].name = "in"
  BY <1>3 DEF IsSink, PortName
<1>6. ASSUME NEW p \in DOMAIN n.pins, n.pins[p].valid, n.pins[p].net = k,
             n.ports[n.pins[p].port].name = "in"
      PROVE  \E i \in K : s[i] = p
  <2>1. PinOK(n, p) /\ k # 0 BY <1>1, <1>6, ZeroIsNoId DEF Netted
  <2>2. PICK i \in DOMAIN t : t[i] = p BY <2>1, <1>6 DEF PinOK
  <2>3. p # 0 /\ IsSink(n, p) BY <1>1, <1>6, ZeroIsNoId DEF IsSink
  <2>4. i > 1
    <3>1. PlaceOK(n, k, i) BY <1>1, <2>2
    <3> QED BY <2>2, <2>3, <3>1 DEF PlaceOK
  <2> HIDE DEF t, s
  <2> DEFINE g == i - 1
  <2>5. g \in DOMAIN s /\ s[g] = p BY <1>2, <2>2, <2>4
  <2> HIDE DEF g
  <2>6. g \in K BY <2>5, <1>6
  <2> QED BY <2>5, <2>6
<1> HIDE DEF t, s
<1>7. K \in SUBSET DOMAIN s BY <1>5
<1> HIDE DEF K
<1>8. /\ v \in Seq(Nat)
      /\ \A i \in DOMAIN v : Nth(K, i) \in K /\ v[i] = s[Nth(K, i)]
      /\ \A i \in K : Rank(K, i) \in DOMAIN v /\ v[Rank(K, i)] = s[i]
      /\ \A i, j \in DOMAIN v : i < j => Nth(K, i) < Nth(K, j)
      /\ DOMAIN v \subseteq Nat /\ DOMAIN s \subseteq Nat
  <2>0. s \in Seq(Nat) /\ DOMAIN s \subseteq Nat
    <3>1. s \in Seq(Nat) BY <1>2
    <3> QED BY ONLY <3>1
  <2>1. Keep(s, K) \in Seq(Nat) /\ DOMAIN Keep(s, K) = 1..Cardinality(K) /\ Cardinality(K) \in 0..Len(s)
    BY ONLY <2>0, <1>7, KeepFacts
  <2>2. /\ \A z \in DOMAIN Keep(s, K) : Nth(K, z) \in K /\ Keep(s, K)[z] = s[Nth(K, z)]
        /\ \A i \in K : Rank(K, i) \in DOMAIN Keep(s, K) /\ Keep(s, K)[Rank(K, i)] = s[i]
        /\ \A z, l \in DOMAIN Keep(s, K) : z < l => Nth(K, z) < Nth(K, l)
    BY ONLY <2>0, <1>7, KeepPlaces
  <2>3. v \in Seq(Nat) /\ DOMAIN v \subseteq Nat BY <2>0, <2>1, <1>4
  <2> QED BY <2>0, <2>2, <2>3, <1>4
<1>9. Single(v)
  <2> SUFFICES ASSUME NEW i \in DOMAIN v, NEW j \in DOMAIN v, v[i] = v[j], v[i] # 0, i # j PROVE FALSE
    BY DEF Single
  <2>1. s[Nth(K, i)] = s[Nth(K, j)] /\ s[Nth(K, i)] # 0 /\ Nth(K, i) \in DOMAIN s /\ Nth(K, j) \in DOMAIN s
    BY <1>5, <1>8
  <2>2. Nth(K, i) = Nth(K, j) BY <2>1, <1>2 DEF Single
  <2>3. Nth(K, i) \in Nat /\ i \in Nat /\ j \in Nat BY <1>8, <2>1
  <2>4. i < j \/ j < i BY <2>3
  <2>5. Nth(K, i) < Nth(K, j) \/ Nth(K, j) < Nth(K, i) BY <1>8, <2>4
  <2> QED BY <2>2, <2>3, <2>5
<1>10. ASSUME NEW i \in DOMAIN v
       PROVE  /\ v[i] \in DOMAIN n.pins /\ n.pins[v[i]].valid /\ IsSink(n, v[i])
              /\ n.pins[v[i]].net = k /\ n.ports[n.pins[v[i]].port].name = "in"
  <2>1. Nth(K, i) \in K /\ v[i] = s[Nth(K, i)] BY <1>8
  <2>2. Nth(K, i) \in DOMAIN s /\ n.ports[n.pins[s[Nth(K, i)]].port].name = "in" BY <2>1, <1>5
  <2> QED BY <2>1, <2>2, <1>3
<1>11. ASSUME NEW p \in DOMAIN n.pins, n.pins[p].valid, n.pins[p].net = k,
              n.ports[n.pins[p].port].name = "in"
       PROVE  \E i \in DOMAIN v : v[i] = p
  <2>1. PICK i \in K : s[i] = p BY <1>11, <1>6
  <2> QED BY <2>1, <1>8
<1> QED BY <1>8, <1>9, <1>10, <1>11

\* create_port() made sure of port q of block b, and then nets were made
\* perhaps.
PortReady(n, b, pn, p1, made, q) ==
  /\ Good(n) /\ (n.error = "none" => b \in DOMAIN n.blocks /\ n.blocks[b].valid)
  /\ p1 = CreatePort(n, b, pn) /\ Good(made) /\ Grown(p1, made, b)
  /\ made.pins = p1.pins /\ made.ports = p1.ports /\ made.blocks = p1.blocks
  /\ q = FindPort(made, b, pn)

\* What a pin more on that port leaves
PinPlaced(n, b, pn, made, k, m) ==
  /\ Good(m)
  /\ m.error = "none" =>
        /\ n.error = "none" /\ Grown(n, m, b) /\ m.blocks[b].pins # {}
        /\ \A p \in DOMAIN m.pins \ DOMAIN n.pins :
              m.pins[p].net = k /\ m.ports[m.pins[p].port].name = pn
        /\ \A y \in DOMAIN m.ports \ DOMAIN n.ports : m.ports[y].name = pn
        /\ m.netOf = made.netOf /\ DOMAIN m.nets = DOMAIN made.nets
        /\ \A y \in DOMAIN m.nets : /\ m.nets[y].valid = made.nets[y].valid
                                    /\ m.nets[y].name = made.nets[y].name

\* Making a pin on a port just made, or found.
LEMMA PinOnPort ==
  ASSUME NEW n, NEW b, NEW pn \in PortName, NEW p1, NEW made, NEW q, PortReady(n, b, pn, p1, made, q),
         NEW bit \in Nat, NEW k, NEW const \in BOOLEAN,
         NEW m, m = CreatePin(made, q, bit, k, const)
  PROVE  PinPlaced(n, b, pn, made, k, m)
<1> USE DEF PinPlaced
<1>0. /\ Good(n) /\ (n.error = "none" => b \in DOMAIN n.blocks /\ n.blocks[b].valid)
      /\ p1 = CreatePort(n, b, pn) /\ Good(made) /\ Grown(p1, made, b)
      /\ made.pins = p1.pins /\ made.ports = p1.ports /\ made.blocks = p1.blocks
      /\ q = FindPort(made, b, pn)
  BY DEF PortReady
<1> USE <1>0
<1>1. CASE n.error # "none"
  <2>1. p1 = n BY <1>1 DEF CreatePort
  <2>2. made.error # "none" BY Zenon, <1>1, <2>1 DEF Grown
  <2>3. m = made BY <2>2 DEF CreatePin
  <2> QED BY <2>2, <2>3
<1>2. CASE n.error = "none"
  <2>0. b \in DOMAIN n.blocks /\ n.blocks[b].valid BY <1>2
  <2>1. /\ Good(p1) /\ Grown(n, p1, b)
        /\ FindPort(p1, b, pn) \in DOMAIN p1.ports
        /\ p1.ports[FindPort(p1, b, pn)].block = b
        /\ p1.ports[FindPort(p1, b, pn)].name = pn
        /\ p1.pins = n.pins /\ p1.nets = n.nets
    BY <1>2, <2>0, CreatePortEffect
  <2>2. \A y \in DOMAIN p1.ports \ DOMAIN n.ports : p1.ports[y].name = pn
    BY PortsMade
  <2>3. p1.error = "none" /\ made.error = "none" BY <1>2, <2>1 DEF Grown
  <2>4. q = FindPort(p1, b, pn) BY DEF FindPort
  <2>5. q \in DOMAIN made.ports /\ made.ports[q].block = b /\ made.ports[q].name = pn BY <2>1, <2>4
  <2>6. Typed(n) /\ Typed(p1) /\ Typed(made) BY <2>1 DEF Good
  <2>7. Grown(n, made, b) BY <2>1, <2>6, GrownTransitive
  <2>8. /\ Good(m)
        /\ \/ m.error # "none"
           \/ /\ m = made
              /\ \E p \in DOMAIN made.pins : made.pins[p].valid /\ made.pins[p].port = q
           \/ \E p, j : PinMade(made, q, b, p, k, j, const, m)
    BY <2>3, <2>5, CreatePinEffect
  <2>9. ASSUME m = made, NEW p \in DOMAIN made.pins, made.pins[p].port = q
        PROVE  m.blocks[b].pins # {}
    <3>1. PinBlock(made, p) = b BY <2>5, <2>9 DEF PinBlock
    <3>2. b \in DOMAIN made.blocks BY <2>0, <2>7 DEF Grown
    <3>3. Structure(made) BY <2>3 DEF Good, Refs
    <3>4. p \in made.blocks[b].pins BY <3>1, <3>2, <3>3 DEF Structure
    <3> QED BY <3>4, <2>9
  <2>10. CASE m = made
    <3>1. DOMAIN m.pins \ DOMAIN n.pins = {} BY <2>1, <2>10
    <3>2. \A y \in DOMAIN m.ports \ DOMAIN n.ports : m.ports[y].name = pn BY Zenon, <2>2, <2>10
    <3>3. m.error = "none" /\ m.blocks[b].pins # {}
      BY <2>3, <2>8, <2>9, <2>10 DEF PinMade
    <3> QED BY <1>2, <2>7, <2>8, <2>10, <3>1, <3>2, <3>3
  <2>11. ASSUME NEW p, NEW j, PinMade(made, q, b, p, k, j, const, m)
         PROVE  /\ Grown(n, m, b) /\ m.blocks[b].pins # {}
                /\ \A x \in DOMAIN m.pins \ DOMAIN n.pins :
                     m.pins[x].net = k /\ m.ports[m.pins[x].port].name = pn
                /\ \A y \in DOMAIN m.ports \ DOMAIN n.ports : m.ports[y].name = pn
                /\ m.netOf = made.netOf /\ DOMAIN m.nets = DOMAIN made.nets
                /\ \A y \in DOMAIN m.nets : /\ m.nets[y].valid = made.nets[y].valid
                                            /\ m.nets[y].name = made.nets[y].name
    <3>1. Grown(made, m, b) BY <2>5, <2>6, <2>11, MadeGrows
    <3>2. Typed(m) BY <2>8 DEF Good
    <3>3. Grown(n, m, b) BY <2>6, <2>7, <3>1, <3>2, GrownTransitive
    <3>4. m.blocks[b].pins # {} BY <2>11 DEF PinMade
    <3>5. \A x \in DOMAIN m.pins \ DOMAIN n.pins : m.pins[x].net = k /\ m.ports[m.pins[x].port].name = pn
      <4> TAKE x \in DOMAIN m.pins \ DOMAIN n.pins
      <4>1. x = p BY <2>1, <2>11 DEF PinMade
      <4>2. m.pins[p].net = k /\ m.pins[p].port = q BY <2>11 DEF PinMade
      <4>3. m.ports[q].name = pn BY <2>5, <2>11 DEF PinMade
      <4> QED BY <4>1, <4>2, <4>3
    <3>6. \A y \in DOMAIN m.ports \ DOMAIN n.ports : m.ports[y].name = pn
      BY <2>2, <2>11 DEF PinMade
    <3>7. m.netOf = made.netOf /\ DOMAIN m.nets = DOMAIN made.nets BY <2>11 DEF PinMade
    <3>8. \A y \in DOMAIN m.nets : m.nets[y].valid = made.nets[y].valid /\ m.nets[y].name = made.nets[y].name
      <4> TAKE y \in DOMAIN m.nets
      <4>1. y \in DOMAIN made.nets /\ y # k => m.nets[y] = made.nets[y] BY <2>11 DEF PinMade
      <4>2. m.nets[k].valid = made.nets[k].valid /\ m.nets[k].name = made.nets[k].name BY <2>11 DEF PinMade
      <4> QED BY <3>7, <4>1, <4>2
    <3> QED BY <3>3, <3>4, <3>5, <3>6, <3>7, <3>8
  <2> QED BY <1>2, <2>8, <2>10, <2>11
<1> QED BY <1>1, <1>2

\* m is n with a latch b more, that has ports, pins and perhaps nets of its own.
LatchAdded(n, b, m) ==
  /\ DOMAIN m.blocks = DOMAIN n.blocks \cup {b} /\ b \notin DOMAIN n.blocks
  /\ \A a \in DOMAIN n.blocks :
        /\ m.blocks[a].valid = n.blocks[a].valid /\ m.blocks[a].name = n.blocks[a].name
        /\ m.blocks[a].model = n.blocks[a].model
        /\ n.blocks[a].pins \subseteq m.blocks[a].pins
  /\ m.blocks[b].valid /\ m.blocks[b].model = "latch" /\ m.blocks[b].pins # {}
  /\ DOMAIN n.ports \subseteq DOMAIN m.ports
  /\ \A q \in DOMAIN n.ports :
        /\ m.ports[q].valid = n.ports[q].valid /\ m.ports[q].block = n.ports[q].block
        /\ m.ports[q].name = n.ports[q].name
  /\ \A q \in DOMAIN m.ports \ DOMAIN n.ports : m.ports[q].valid /\ m.ports[q].block = b
  /\ DOMAIN n.pins \subseteq DOMAIN m.pins
  /\ \A p \in DOMAIN n.pins : m.pins[p] = n.pins[p]
  /\ \A p \in DOMAIN m.pins \ DOMAIN n.pins :
        /\ m.pins[p].valid /\ PinBlock(m, p) = b
        /\ m.pins[p].net \in DOMAIN m.nets /\ m.nets[m.pins[p].net].valid
  /\ DOMAIN n.nets \subseteq DOMAIN m.nets
  /\ \A k \in DOMAIN n.nets : m.nets[k].valid = n.nets[k].valid /\ m.nets[k].name = n.nets[k].name

\* Adding a latch keeps what the clean-up needs.
LEMMA LatchAddedKeeps ==
  ASSUME NEW n, Typed(n), Clean(n), NEW b, NEW m, Typed(m), LatchAdded(n, b, m)
  PROVE  Clean(m) /\ (Whole(n) => Whole(m))
<1>1. InRange(n) /\ InRange(m) BY DEF Typed
<1>2. ASSUME NEW q \in DOMAIN m.ports, m.blocks[m.ports[q].block].valid PROVE m.ports[q].valid
  <2>1. CASE q \in DOMAIN n.ports
    <3>1. n.ports[q].block \in DOMAIN n.blocks BY <2>1, <1>1 DEF InRange
    <3>2. m.ports[q].block = n.ports[q].block BY <2>1 DEF LatchAdded
    <3>3. n.blocks[n.ports[q].block].valid BY <3>1, <3>2, <1>2 DEF LatchAdded
    <3>4. n.ports[q].valid BY <2>1, <3>3 DEF Clean, Owning
    <3> QED BY <2>1, <3>4 DEF LatchAdded
  <2>2. CASE q \notin DOMAIN n.ports BY <2>2 DEF LatchAdded
  <2> QED BY <2>1, <2>2
<1>3. ASSUME NEW p \in DOMAIN m.pins, m.ports[m.pins[p].port].valid PROVE m.pins[p].valid
  <2>1. CASE p \in DOMAIN n.pins
    <3>1. n.pins[p].port \in DOMAIN n.ports /\ m.pins[p] = n.pins[p] BY <2>1, <1>1 DEF InRange, LatchAdded
    <3>2. n.ports[n.pins[p].port].valid BY <3>1, <1>3 DEF LatchAdded
    <3>3. n.pins[p].valid BY <2>1, <3>2 DEF Clean, Owning
    <3> QED BY <3>1, <3>3
  <2>2. CASE p \notin DOMAIN n.pins BY <2>2 DEF LatchAdded
  <2> QED BY <2>1, <2>2
<1>4. Owning(m) BY <1>2, <1>3 DEF Owning
<1>5. ASSUME NEW q \in DOMAIN m.ports PROVE Fits(m.blocks[m.ports[q].block].model, m.ports[q].name)
  <2>1. CASE q \in DOMAIN n.ports
    <3>1. n.ports[q].block \in DOMAIN n.blocks BY <2>1, <1>1 DEF InRange
    <3>2. m.ports[q].block = n.ports[q].block /\ m.ports[q].name = n.ports[q].name BY <2>1 DEF LatchAdded
    <3>3. m.blocks[m.ports[q].block].model = n.blocks[n.ports[q].block].model BY <3>1, <3>2 DEF LatchAdded
    <3> QED BY <2>1, <3>2, <3>3 DEF Clean, PortsFit
  <2>2. CASE q \notin DOMAIN n.ports
    <3>1. m.blocks[m.ports[q].block].model = "latch" BY <2>2 DEF LatchAdded
    <3> QED BY <3>1 DEF Fits
  <2> QED BY <2>1, <2>2
<1>6. PortsFit(m) BY <1>5 DEF PortsFit
<1>7. ASSUME NEW p \in DOMAIN m.pins, m.pins[p].valid, m.blocks[PinBlock(m, p)].model = "input",
             ~IsSink(m, p), m.pins[p].net # 0
      PROVE  m.nets[m.pins[p].net].name = m.blocks[PinBlock(m, p)].name
  <2>1. p \in DOMAIN n.pins BY <1>7 DEF LatchAdded
  <2>2. /\ m.pins[p] = n.pins[p] /\ n.pins[p].port \in DOMAIN n.ports
        /\ n.pins[p].net \in DOMAIN n.nets
    BY <2>1, <1>1, <1>7 DEF LatchAdded, InRange
  <2>3. PinBlock(m, p) = PinBlock(n, p) /\ (IsSink(m, p) <=> IsSink(n, p)) /\ PinBlock(n, p) \in DOMAIN n.blocks
    BY <2>2, <1>1 DEF PinBlock, IsSink, LatchAdded, InRange
  <2>4. n.nets[n.pins[p].net].name = n.blocks[PinBlock(n, p)].name
    <3>1. n.blocks[PinBlock(n, p)].model = "input" BY <2>3, <1>7 DEF LatchAdded
    <3> QED BY <2>1, <2>2, <2>3, <3>1, <1>7 DEF Clean, PadsNamed
  <2> QED BY <2>2, <2>3, <2>4 DEF LatchAdded
<1>8. PadsNamed(m) BY <1>7 DEF PadsNamed
<1>9. Pinned(m)
  <2> SUFFICES ASSUME NEW a \in DOMAIN m.blocks, m.blocks[a].valid PROVE m.blocks[a].pins # {}
    BY DEF Pinned
  <2>1. CASE a = b BY <2>1 DEF LatchAdded
  <2>2. CASE a # b
    <3>1. a \in DOMAIN n.blocks BY <2>2 DEF LatchAdded
    <3>2. n.blocks[a].valid /\ n.blocks[a].pins \subseteq m.blocks[a].pins BY <3>1 DEF LatchAdded
    <3> QED BY <3>1, <3>2 DEF Clean, Pinned
  <2> QED BY <2>1, <2>2
<1>10. ASSUME Whole(n) PROVE Whole(m)
  <2> SUFFICES ASSUME NEW p \in DOMAIN m.pins, m.pins[p].valid, m.pins[p].net # 0
               PROVE  m.nets[m.pins[p].net].valid
    BY DEF Whole
  <2>1. CASE p \in DOMAIN n.pins
    <3>1. m.pins[p] = n.pins[p] /\ n.pins[p].net \in DOMAIN n.nets BY <2>1, <1>1 DEF LatchAdded, InRange
    <3>2. n.nets[n.pins[p].net].valid BY <3>1, <2>1, <1>10 DEF Whole
    <3> QED BY <3>1, <3>2 DEF LatchAdded
  <2>2. CASE p \notin DOMAIN n.pins BY <2>2 DEF LatchAdded
  <2> QED BY <2>1, <2>2
<1> QED BY <1>4, <1>6, <1>8, <1>9, <1>10 DEF Clean

\* A port made, or not, after a failure.
LEMMA PortMadeGood ==
  ASSUME NEW n, Good(n), NEW b, n.error = "none" => b \in DOMAIN n.blocks /\ n.blocks[b].valid,
         NEW pn \in PortName, NEW m, m = CreatePort(n, b, pn)
  PROVE  Good(m)
<1>1. CASE n.error # "none" BY <1>1 DEF CreatePort
<1>2. CASE n.error = "none" BY <1>2, CreatePortEffect
<1> QED BY <1>1, <1>2

\* No creation takes a net away.
LEMMA NetsStay ==
  ASSUME NEW n \in Netlists
  PROVE  /\ \A x, y, z : DOMAIN CreateBlock(n, x, y, z).nets = DOMAIN n.nets
         /\ \A x, y : DOMAIN CreatePort(n, x, y).nets = DOMAIN n.nets
         /\ \A x : DOMAIN n.nets \subseteq DOMAIN CreateNet(n, x).nets
         /\ \A x, y, z, c : DOMAIN CreatePin(n, x, y, z, c).nets = DOMAIN n.nets
<1>1. ASSUME NEW x, NEW y, NEW z PROVE DOMAIN CreateBlock(n, x, y, z).nets = DOMAIN n.nets
  BY DEF CreateBlock, Fail, Netlists
<1>2. ASSUME NEW x, NEW y PROVE DOMAIN CreatePort(n, x, y).nets = DOMAIN n.nets
  BY DEF CreatePort, Netlists
<1>3. ASSUME NEW x PROVE DOMAIN n.nets \subseteq DOMAIN CreateNet(n, x).nets
  <2> DEFINE e == [valid |-> TRUE, name |-> x, pins |-> <<0>>]
             t == Append(n.nets, e)
  <2>1. CreateNet(n, x) = n \/ CreateNet(n, x).nets = t BY DEF CreateNet, Netlists
  <2>2. n.nets \in Seq(NetRecs) BY DEF Netlists
  <2> HIDE DEF e
  <2>3. DOMAIN n.nets \subseteq DOMAIN t BY <2>2
  <2> QED BY <2>1, <2>3
<1>4. ASSUME NEW q, NEW bit, NEW k, NEW const PROVE DOMAIN CreatePin(n, q, bit, k, const).nets = DOMAIN n.nets
  <2> DEFINE b == n.ports[q].block
             p == Len(n.pins) + 1
             r == [valid |-> TRUE, port |-> q, bit |-> bit, net |-> 0, idx |-> -1, const |-> const]
             ps == Append(n.pins, r)
             ins == InsertByBit(n, q, p, bit)
             a == [n EXCEPT !.pins = Append(@, r), !.ports[q].pins = InsertByBit(n, q, p, bit),
                            !.blocks[b].pins = @ \cup {p}]
  <2>1. \/ CreatePin(n, q, bit, k, const) = n
        \/ CreatePin(n, q, bit, k, const) = Fail(n, "assert")
        \/ CreatePin(n, q, bit, k, const) = JoinNet(a, p, k)
    BY DEF CreatePin
  <2>2. a.nets = n.nets BY DEF Netlists
  <2>3. DOMAIN Fail(n, "assert").nets = DOMAIN n.nets BY Zenon DEF Fail, Netlists
  <2>n. \E t : a = [n EXCEPT !.pins = ps, !.ports = t[1], !.blocks = t[2]]
    <3> DEFINE t == <<[n.ports EXCEPT ![q].pins = ins], [n.blocks EXCEPT ![b].pins = @ \cup {p}]>>
    <3>1. t[1] = [n.ports EXCEPT ![q].pins = ins] /\ t[2] = [n.blocks EXCEPT ![b].pins = @ \cup {p}] OBVIOUS
    <3> HIDE DEF t, ins, ps
    <3>2. a = [n EXCEPT !.pins = ps, !.ports = [n.ports EXCEPT ![q].pins = ins],
                        !.blocks = [n.blocks EXCEPT ![b].pins = @ \cup {p}]]
      BY DEF ins, ps
    <3> QED BY Zenon, <3>1, <3>2
  <2> HIDE DEF a, p, ps
  <2>4. PICK t : a = [n EXCEPT !.pins = ps, !.ports = t[1], !.blocks = t[2]] BY Zenon, <2>n
  <2>5. DOMAIN JoinNet(a, p, k).nets = DOMAIN a.nets
    BY Zenon, <2>4 DEF JoinNet, Fail, Netlists
  <2> QED BY Zenon, <2>1, <2>2, <2>3, <2>5
<1> QED BY <1>1, <1>2, <1>3, <1>4

\* The latch that fix_clock_to_data_pins() makes for clock net k
LatchMade(n, k) ==
  LET name == AsData(n.nets[k].name[2])
      made == CreateBlock(n, name, "latch", "other")
      b == made.blockOf[name]
      clocked == CreatePort(made, b, "clk")
      clkd == CreatePin(clocked, FindPort(clocked, b, "clk"), 0, k, FALSE)
      netted == CreateNet(CreatePort(clkd, b, "out"), name)
  IN  CreatePin(netted, FindPort(netted, b, "out"), 0, netted.netOf[name], FALSE)

\* What making the latch named name for the clock net k leaves of n.
LatchLeft(n, k, name, m) ==
  /\ Good(m) /\ DOMAIN n.nets \subseteq DOMAIN m.nets
  /\ m.error = "none" =>
       /\ \E b : LatchAdded(n, b, m)
       /\ m.netOf[name] \in DOMAIN m.nets /\ m.nets[m.netOf[name]].valid
       /\ m.nets[m.netOf[name]].name = name
       /\ \A p \in DOMAIN m.pins \ DOMAIN n.pins :
             \/ m.ports[m.pins[p].port].name = "clk" /\ m.pins[p].net = k
             \/ m.ports[m.pins[p].port].name = "out"

\* The latch that fix_clock_to_data_pins() makes for a clock net.
LEMMA LatchMadeEffect ==
  ASSUME NEW n, Good(n), n.error = "none", NEW k \in DOMAIN n.nets,
         NEW name, name = AsData(n.nets[k].name[2]), NEW m, m = LatchMade(n, k)
  PROVE  LatchLeft(n, k, name, m)
<1> DEFINE made == CreateBlock(n, name, "latch", "other")
           b == made.blockOf[name]
           c == "clk"
           o == "out"
           z == 0
           no == FALSE
           clocked == CreatePort(made, b, c)
           q == FindPort(clocked, b, c)
           clkd == CreatePin(clocked, q, z, k, no)
           ported == CreatePort(clkd, b, o)
           netted == CreateNet(ported, name)
           r == FindPort(netted, b, o)
           l == netted.netOf[name]
<1>1. m = CreatePin(netted, r, z, l, no) BY ZenonT(40) DEF LatchMade
<1>2. name \in Name
  <2>1. n.nets[k].name \in Name BY FieldTypes DEF Good, Typed
  <2>2. n.nets[k].name[2] \in Base BY <2>1 DEF Name
  <2> QED BY <2>2, NamesAreNames
<1>3. c \in PortName /\ o \in PortName /\ z \in Nat /\ no \in BOOLEAN /\ "latch" \in Model /\ "other" \in Table
      /\ c = "clk" /\ o = "out"
  BY DEF PortName, Model, Table
<1>4. /\ Good(made)
      /\ made.error = "none" =>
               /\ b = Len(n.blocks) + 1
               /\ DOMAIN made.blocks = DOMAIN n.blocks \cup {Len(n.blocks) + 1}
               /\ Len(n.blocks) + 1 \notin DOMAIN n.blocks
               /\ \A a \in DOMAIN n.blocks : made.blocks[a] = n.blocks[a]
               /\ made.blocks[Len(n.blocks) + 1] =
                     [valid |-> TRUE, name |-> name, model |-> "latch", table |-> "other",
                      ports |-> {}, pins |-> {}]
               /\ made.ports = n.ports /\ made.pins = n.pins /\ made.nets = n.nets
  BY <1>2, <1>3, CreateBlockEffect
<1> HIDE DEF c, o, z, no, made, b
<1>5. made.error = "none" => /\ b \in DOMAIN made.blocks /\ made.blocks[b].valid
                             /\ made.blocks[b].model = "latch" /\ b \notin DOMAIN n.blocks
                             /\ DOMAIN made.blocks = DOMAIN n.blocks \cup {b}
  BY <1>4
<1>7. clocked = CreatePort(made, b, c) /\ q = FindPort(clocked, b, c) /\ clkd = CreatePin(clocked, q, z, k, no)
  OBVIOUS
<1> HIDE DEF clocked, q, clkd
<1>6. Good(clocked) /\ Grown(clocked, clocked, b)
  <2>1. Good(made) BY <1>4
  <2>2. made.error = "none" => b \in DOMAIN made.blocks /\ made.blocks[b].valid BY <1>5
  <2>3. Good(clocked) BY ONLY <2>1, <2>2, <1>3, <1>7, PortMadeGood
  <2> QED BY <2>3, GrownByNothing
<1>8. PinPlaced(made, b, c, clocked, k, clkd)
  <2>1. PortReady(made, b, c, clocked, clocked, q)
    <3>1. Good(made) BY <1>4
    <3>2. made.error = "none" => b \in DOMAIN made.blocks /\ made.blocks[b].valid BY <1>5
    <3> QED BY ONLY <3>1, <3>2, <1>6, <1>7 DEF PortReady
  <2> QED BY ONLY <2>1, <1>3, <1>7, PinOnPort
<1>c. /\ Good(clkd)
      /\ clkd.error = "none" =>
               /\ made.error = "none" /\ Grown(made, clkd, b) /\ clkd.blocks[b].pins # {}
               /\ \A p \in DOMAIN clkd.pins \ DOMAIN made.pins :
                     clkd.pins[p].net = k /\ clkd.ports[clkd.pins[p].port].name = c
  BY <1>8 DEF PinPlaced
<1>9. clkd.error = "none" => b \in DOMAIN clkd.blocks /\ clkd.blocks[b].valid
  BY <1>5, <1>c DEF Grown
<1>p. ported = CreatePort(clkd, b, o) /\ netted = CreateNet(ported, name) /\ l = netted.netOf[name]
  OBVIOUS
<1> HIDE DEF ported, netted, r, l
<1>10. Good(ported)
  <2>1. Good(clkd) BY <1>c
  <2> QED BY ONLY <2>1, <1>3, <1>9, <1>p, PortMadeGood
<1>11. /\ Good(netted) /\ Grown(ported, netted, b)
       /\ netted.pins = ported.pins /\ netted.ports = ported.ports /\ netted.blocks = ported.blocks
       /\ netted.error = "none" =>
               /\ l \in DOMAIN netted.nets /\ netted.nets[l].valid
               /\ netted.nets[l].name = name
  <2>1. /\ Good(netted) /\ Grown(ported, netted, b)
        /\ netted.pins = ported.pins /\ netted.ports = ported.ports /\ netted.blocks = ported.blocks
        /\ netted.error = "none" =>
               /\ netted.netOf[name] \in DOMAIN netted.nets /\ netted.nets[netted.netOf[name]].valid
               /\ netted.nets[netted.netOf[name]].name = name
    BY ONLY <1>2, <1>10, <1>p, CreateNetEffect
  <2> QED BY ONLY <2>1, <1>p
<1>12. r = FindPort(netted, b, o) BY DEF r
<1>d. PinPlaced(clkd, b, o, netted, l, m)
  <2>1. PortReady(clkd, b, o, ported, netted, r)
    <3>1. Good(clkd) BY <1>c
    <3>2. Good(netted) /\ Grown(ported, netted, b)
          /\ netted.pins = ported.pins /\ netted.ports = ported.ports /\ netted.blocks = ported.blocks
      BY <1>11
    <3> QED BY ONLY <3>1, <3>2, <1>9, <1>p, <1>12 DEF PortReady
  <2> QED BY ONLY <2>1, <1>1, <1>3, PinOnPort
<1>13. /\ Good(m)
       /\ m.error = "none" =>
               /\ clkd.error = "none" /\ Grown(clkd, m, b) /\ m.blocks[b].pins # {}
               /\ \A p \in DOMAIN m.pins \ DOMAIN clkd.pins :
                     m.pins[p].net = l /\ m.ports[m.pins[p].port].name = o
               /\ m.netOf = netted.netOf /\ DOMAIN m.nets = DOMAIN netted.nets
               /\ \A y \in DOMAIN m.nets : /\ m.nets[y].valid = netted.nets[y].valid
                                           /\ m.nets[y].name = netted.nets[y].name
  BY <1>d DEF PinPlaced
<1>e. DOMAIN n.nets \subseteq DOMAIN m.nets
  <2>1. n \in Netlists /\ made \in Netlists /\ clocked \in Netlists /\ clkd \in Netlists
        /\ ported \in Netlists /\ netted \in Netlists
    BY <1>4, <1>6, <1>c, <1>10, <1>11 DEF Good, Typed
  <2>2. DOMAIN made.nets = DOMAIN n.nets BY <2>1, NetsStay DEF made
  <2>3. DOMAIN clocked.nets = DOMAIN made.nets BY <2>1, <1>7, NetsStay
  <2>4. DOMAIN clkd.nets = DOMAIN clocked.nets BY <2>1, <1>7, NetsStay
  <2>5. DOMAIN ported.nets = DOMAIN clkd.nets BY <2>1, <1>p, NetsStay
  <2>6. DOMAIN ported.nets \subseteq DOMAIN netted.nets BY <2>1, <1>p, NetsStay
  <2>7. DOMAIN m.nets = DOMAIN netted.nets BY SMTT(30), <2>1, <1>1, NetsStay
  <2> QED BY <2>2, <2>3, <2>4, <2>5, <2>6, <2>7
<1>14. SUFFICES ASSUME m.error = "none"
       PROVE  /\ LatchAdded(n, b, m)
              /\ m.netOf[name] \in DOMAIN m.nets /\ m.nets[m.netOf[name]].valid
              /\ m.nets[m.netOf[name]].name = name
              /\ \A p \in DOMAIN m.pins \ DOMAIN n.pins :
                    \/ m.ports[m.pins[p].port].name = "clk" /\ m.pins[p].net = k
                    \/ m.ports[m.pins[p].port].name = "out"
  BY Zenon, <1>13, <1>e DEF LatchLeft
<1>15. clkd.error = "none" /\ made.error = "none" BY <1>c, <1>13, <1>14
<1>16. netted.error = "none"
  <2>1. CASE netted.error # "none"
    <3>1. m = netted BY <2>1, <1>1 DEF CreatePin
    <3> QED BY Zenon, <3>1, <2>1, <1>14
  <2> QED BY <2>1
<1>17. /\ m.netOf[name] \in DOMAIN m.nets /\ m.nets[m.netOf[name]].valid
       /\ m.nets[m.netOf[name]].name = name
  <2>1. m.netOf[name] = l /\ l \in DOMAIN m.nets /\ l \in DOMAIN netted.nets BY Zenon, <1>11, <1>13, <1>14, <1>16, <1>p
  <2>2. netted.nets[l].valid /\ netted.nets[l].name = name BY <1>11, <1>16
  <2>3. m.nets[l].valid = netted.nets[l].valid /\ m.nets[l].name = netted.nets[l].name BY <2>1, <1>13, <1>14
  <2> QED BY Zenon, <2>1, <2>2, <2>3
<1>18. Grown(made, m, b)
  <2>1. Typed(made) /\ Typed(clkd) /\ Typed(m) BY <1>4, <1>c, <1>13 DEF Good
  <2>2. Grown(made, clkd, b) /\ Grown(clkd, m, b) BY <1>c, <1>13, <1>14, <1>15
  <2> QED BY <2>1, <2>2, GrownTransitive
<1>19. /\ made.ports = n.ports /\ made.pins = n.pins /\ made.nets = n.nets
       /\ \A a \in DOMAIN n.blocks : made.blocks[a] = n.blocks[a]
  BY Zenon, <1>4, <1>15
<1>20. LatchAdded(n, b, m)
  <2>1. DOMAIN m.blocks = DOMAIN n.blocks \cup {b} /\ b \notin DOMAIN n.blocks BY <1>5, <1>15, <1>18 DEF Grown
  <2>2. m.blocks[b].valid /\ m.blocks[b].model = "latch" /\ m.blocks[b].pins # {}
    <3>1. b \in DOMAIN made.blocks /\ made.blocks[b].valid /\ made.blocks[b].model = "latch" BY <1>5, <1>15
    <3>2. m.blocks[b].valid = made.blocks[b].valid /\ m.blocks[b].model = made.blocks[b].model
      BY <3>1, <1>18 DEF Grown
    <3> QED BY <3>1, <3>2, <1>13, <1>14
  <2>3. \A a \in DOMAIN n.blocks :
          /\ m.blocks[a].valid = n.blocks[a].valid /\ m.blocks[a].name = n.blocks[a].name
          /\ m.blocks[a].model = n.blocks[a].model
          /\ n.blocks[a].pins \subseteq m.blocks[a].pins
    <3> TAKE a \in DOMAIN n.blocks
    <3>1. a \in DOMAIN made.blocks /\ made.blocks[a] = n.blocks[a] BY <1>5, <1>15, <1>19
    <3> QED BY <3>1, <1>18 DEF Grown
  <2> QED BY <2>1, <2>2, <2>3, <1>18, <1>19 DEF LatchAdded, Grown
<1>21. ASSUME NEW p \in DOMAIN m.pins \ DOMAIN n.pins
       PROVE  \/ m.ports[m.pins[p].port].name = "clk" /\ m.pins[p].net = k
              \/ m.ports[m.pins[p].port].name = "out"
  <2>1. CASE p \in DOMAIN clkd.pins
    <3>1. clkd.pins[p].net = k /\ clkd.ports[clkd.pins[p].port].name = "clk"
      BY <2>1, <1>3, <1>c, <1>15, <1>19, <1>21
    <3>2. Grown(clkd, m, b) BY <1>13, <1>14
    <3>3. m.pins[p] = clkd.pins[p] BY <2>1, <3>2 DEF Grown
    <3>4. clkd.pins[p].port \in DOMAIN clkd.ports BY <2>1, <1>c DEF Good, Typed, InRange
    <3>5. m.ports[clkd.pins[p].port].name = clkd.ports[clkd.pins[p].port].name BY <3>2, <3>4 DEF Grown
    <3> QED BY <3>1, <3>3, <3>5
  <2>2. CASE p \notin DOMAIN clkd.pins BY <2>2, <1>3, <1>13, <1>14
  <2> QED BY <2>1, <2>2
<1> QED BY ZenonT(40), <1>17, <1>20, <1>21

\* f is the circuit after each of the data sinks has moved to net l.
SplitLoop(n, k, data, l, f) ==
  /\ f[0] = LatchMade(n, k)
  /\ \A i \in 1..Len(data) : f[i] = SetPinNet(f[i - 1], data[i], l)
  /\ SplitClock(n, k) = f[Len(data)]

\* The loop over the data sinks of a clock, step by step
LEMMA SplitSteps ==
  ASSUME NEW n, NEW k, Len(DataSinks(n, k)) \in Nat
  PROVE  \E f : SplitLoop(n, k, DataSinks(n, k), LatchMade(n, k).netOf[AsData(n.nets[k].name[2])], f)
<1> DEFINE data == DataSinks(n, k)
           l == LatchMade(n, k).netOf[AsData(n.nets[k].name[2])]
           L == Len(data)
           p0 == LatchMade(n, k)
           G(x, i) == SetPinNet(x, data[i], l)
           Is(f, j) == f = [i \in 0..j |-> IF i = 0 THEN p0 ELSE G(f[i - 1], i)]
           All == {j \in Nat : \E f : Is(f, j)}
<1>0. L \in Nat OBVIOUS
<1> HIDE DEF p0, G, l, data
<1>1. 0 \in All
  <2>1. Is([i \in 0..0 |-> p0], 0)
    OBVIOUS
  <2> HIDE DEF Is
  <2> QED BY <2>1
<1>2. \A j \in Nat : j \in All => j + 1 \in All
  <2> SUFFICES ASSUME NEW j \in Nat, j \in All PROVE \E f : Is(f, j + 1)
    <3> HIDE DEF Is
    <3> QED OBVIOUS
  <2>1. PICK f : Is(f, j)
    <3> HIDE DEF Is
    <3> QED OBVIOUS
  <2> DEFINE g == [i \in 0..(j + 1) |-> IF i = j + 1 THEN G(f[j], j + 1) ELSE f[i]]
  <2>2. ASSUME NEW i \in 0..(j + 1)
        PROVE  g[i] = IF i = 0 THEN p0 ELSE G(g[i - 1], i)
    <3>1. CASE i = j + 1
      <4>1. g[i] = G(f[j], j + 1) /\ g[i - 1] = f[j] /\ i # 0
        BY <3>1
      <4> HIDE DEF g
      <4> QED BY <3>1, <4>1
    <3>2. CASE i # j + 1
      <4>1. i \in 0..j /\ g[i] = f[i]
        BY <3>2
      <4>2. f[i] = IF i = 0 THEN p0 ELSE G(f[i - 1], i)
        BY <2>1, <4>1
      <4>3. i # 0 => g[i - 1] = f[i - 1]
        BY <4>1
      <4> HIDE DEF g
      <4> QED BY <4>1, <4>2, <4>3
    <3> QED BY <3>1, <3>2
  <2>3. g = [i \in 0..(j + 1) |-> g[i]]
    OBVIOUS
  <2>4. Is(g, j + 1)
    <3> HIDE DEF g
    <3> QED BY <2>2, <2>3
  <2> HIDE DEF Is, g
  <2> QED BY <2>4
<1>3. L \in All
  <2> HIDE DEF All, L
  <2>1. Nat \subseteq All
    BY <1>1, <1>2, NatSetInduction
  <2> QED BY <2>1, <1>0
<1>4. \E f : Is(f, L)
  <2> HIDE DEF Is
  <2> QED BY <1>3
<1> DEFINE h == CHOOSE f : Is(f, L)
<1>5. Is(h, L)
  <2> HIDE DEF Is
  <2> QED BY <1>4
<1>6. SplitClock(n, k) = h[L]
  BY DEF SplitClock, p0, G, l, data, LatchMade
<1> HIDE DEF h
<1>7. 0 \in 0..L /\ \A i \in 1..L : i \in 0..L /\ i # 0
  BY <1>0
<1>8. h[0] = p0 /\ \A i \in 1..L : h[i] = G(h[i - 1], i)
  BY <1>5, <1>7
<1>9. SplitLoop(n, k, data, l, h)
  BY <1>6, <1>8 DEF SplitLoop, p0, G
<1> QED BY <1>9 DEF l, data

\* The sinks data[1] .. data[i] of latched went to net l.
SinksMoved(latched, data, i, l, m) ==
  /\ Good(m) /\ m.error = "none"
  /\ m.blocks = latched.blocks /\ m.ports = latched.ports
  /\ m.blockOf = latched.blockOf /\ m.netOf = latched.netOf
  /\ DOMAIN m.pins = DOMAIN latched.pins
  /\ \A p \in DOMAIN latched.pins :
        /\ m.pins[p].valid = latched.pins[p].valid /\ m.pins[p].port = latched.pins[p].port
        /\ (\E j \in 1..i : data[j] = p) => m.pins[p].net = l
        /\ (\A j \in 1..i : data[j] # p) => m.pins[p].net = latched.pins[p].net
  /\ DOMAIN m.nets = DOMAIN latched.nets
  /\ \A x \in DOMAIN latched.nets :
        m.nets[x].valid = latched.nets[x].valid /\ m.nets[x].name = latched.nets[x].name

\* Moving the data sinks to the new net, one after the other.
LEMMA MoveDataSinks ==
  ASSUME NEW g, Good(g), g.error = "none", NEW l \in DOMAIN g.nets, g.nets[l].valid,
         NEW data, Len(data) \in Nat,
         \A i \in 1..Len(data) : data[i] \in DOMAIN g.pins /\ g.pins[data[i]].valid /\ IsSink(g, data[i]),
         NEW f, f[0] = g, \A i \in 1..Len(data) : f[i] = SetPinNet(f[i - 1], data[i], l)
  PROVE  SinksMoved(g, data, Len(data), l, f[Len(data)])
<1> DEFINE L == Len(data)
           OK(i) == SinksMoved(g, data, i, l, f[i])
           All == {i \in Nat : i <= L => OK(i)}
<1>1. L \in Nat OBVIOUS
<1> HIDE DEF L
<1>2. 0 \in All
  <2>1. \A j \in 1..0 : FALSE OBVIOUS
  <2>2. SinksMoved(g, data, 0, l, g) BY <2>1 DEF SinksMoved
  <2> QED BY <2>2
<1>3. \A i \in Nat : i \in All => i + 1 \in All
  <2> SUFFICES ASSUME NEW i \in Nat, OK(i), i + 1 <= L PROVE OK(i + 1)
    <3>1. \A i \in Nat : i + 1 <= L => i <= L BY <1>1
    <3> HIDE DEF OK
    <3> QED BY <3>1
  <2> DEFINE a == f[i]
             h == i + 1
             m == f[h]
             p == data[h]
  <2>1. h \in 1..L /\ h - 1 = i /\ i \in Nat /\ (\A j : j \in 1..h <=> j \in 1..i \/ j = h) BY <1>1
  <2>2. m = SetPinNet(a, p, l) /\ p \in DOMAIN g.pins /\ g.pins[p].valid /\ IsSink(g, p)
    BY <2>1 DEF L
  <2>3. SinksMoved(g, data, i, l, a) OBVIOUS
  <2> HIDE DEF a, h, m, p
  <2>4. /\ Good(a) /\ a.error = "none" /\ a.ports = g.ports
        /\ p \in DOMAIN a.pins /\ a.pins[p].valid = g.pins[p].valid /\ a.pins[p].port = g.pins[p].port
        /\ l \in DOMAIN a.nets /\ a.nets[l].valid = g.nets[l].valid
    BY <2>2, <2>3 DEF SinksMoved
  <2>5. IsSink(a, p) /\ a.pins[p].valid /\ a.nets[l].valid BY <2>2, <2>4 DEF IsSink
  <2>6. Good(m) /\ m.error = "none" /\ Rewired(a, p, l, m) BY <2>2, <2>4, <2>5, SetPinNetEffect
  <2>7. /\ m.blocks = g.blocks /\ m.ports = g.ports
        /\ m.blockOf = g.blockOf /\ m.netOf = g.netOf
        /\ DOMAIN m.pins = DOMAIN g.pins /\ DOMAIN m.nets = DOMAIN g.nets
    BY <2>3, <2>6 DEF SinksMoved, Rewired
  <2>8. ASSUME NEW x \in DOMAIN g.pins
        PROVE  /\ m.pins[x].valid = g.pins[x].valid /\ m.pins[x].port = g.pins[x].port
               /\ (\E j \in 1..h : data[j] = x) => m.pins[x].net = l
               /\ (\A j \in 1..h : data[j] # x) => m.pins[x].net = g.pins[x].net
    <3>1. /\ x \in DOMAIN a.pins /\ a.pins[x].valid = g.pins[x].valid /\ a.pins[x].port = g.pins[x].port
          /\ (\E j \in 1..i : data[j] = x) => a.pins[x].net = l
          /\ (\A j \in 1..i : data[j] # x) => a.pins[x].net = g.pins[x].net
      BY <2>3 DEF SinksMoved
    <3>2. /\ m.pins[x].valid = a.pins[x].valid /\ m.pins[x].port = a.pins[x].port
          /\ m.pins[x].net = IF x = p THEN l ELSE a.pins[x].net
      BY <3>1, <2>6 DEF Rewired
    <3>3. x = p <=> data[h] = x BY DEF p
    <3> QED BY <2>1, <3>1, <3>2, <3>3
  <2>9. ASSUME NEW x \in DOMAIN g.nets
        PROVE  m.nets[x].valid = g.nets[x].valid /\ m.nets[x].name = g.nets[x].name
    <3>1. x \in DOMAIN a.nets /\ a.nets[x].valid = g.nets[x].valid /\ a.nets[x].name = g.nets[x].name
      BY <2>3 DEF SinksMoved
    <3>2. m.nets[x].valid = a.nets[x].valid /\ m.nets[x].name = a.nets[x].name BY <2>6, <3>1 DEF Rewired
    <3> QED BY <3>1, <3>2
  <2>10. SinksMoved(g, data, h, l, m) BY <2>6, <2>7, <2>8, <2>9 DEF SinksMoved
  <2> QED BY <2>10 DEF h, m
<1>4. L \in All
  <2> HIDE DEF All
  <2>1. Nat \subseteq All
    BY <1>2, <1>3, NatSetInduction
  <2> QED BY <2>1, <1>1
<1>5. OK(L)
  BY <1>1, <1>4
<1> QED BY <1>5 DEF L

\* A net has finitely many data sinks.
LEMMA DataSinksLen ==
  ASSUME NEW n, Typed(n), NEW k \in DOMAIN n.nets
  PROVE  Len(DataSinks(n, k)) \in Nat
<1> DEFINE s == Sinks(n, k)
           K == {i \in DOMAIN s : n.ports[n.pins[s[i]].port].name # "clk"}
<1>1. n.nets[k].pins \in Seq(Nat) BY FieldTypes DEF Typed
<1>2. s \in Seq(Nat) BY <1>1 DEF Sinks
<1>3. K \in SUBSET DOMAIN s OBVIOUS
<1>4. DataSinks(n, k) = Keep(s, K) BY DEF DataSinks
<1> HIDE DEF s, K
<1>5. Keep(s, K) \in Seq(Nat) BY ONLY <1>2, <1>3, KeepFacts
<1> QED BY <1>4, <1>5

\* f is the circuit g after each of L sinks has moved to net l.
MoveLoop(g, L, data, l, f) ==
  f[0] = g /\ \A i \in 1..L : f[i] = SetPinNet(f[i - 1], data[i], l)

\* Nothing moves in a circuit that has an error.
LEMMA MoveStopped ==
  ASSUME NEW g, g.error # "none", NEW L \in Nat, NEW data, NEW l,
         NEW f, MoveLoop(g, L, data, l, f)
  PROVE  f[L] = g
<1> USE DEF MoveLoop
<1> DEFINE All == {i \in Nat : i <= L => f[i] = g}
<1>1. 0 \in All OBVIOUS
<1>2. \A i \in Nat : i \in All => i + 1 \in All
  <2> SUFFICES ASSUME NEW i \in Nat, f[i] = g, i + 1 <= L PROVE f[i + 1] = g
    <3>1. \A i \in Nat : i + 1 <= L => i <= L OBVIOUS
    <3> QED BY <3>1
  <2>1. i + 1 \in 1..L /\ (i + 1) - 1 = i OBVIOUS
  <2>2. f[i + 1] = SetPinNet(g, data[i + 1], l) BY <2>1
  <2> QED BY <2>2 DEF SetPinNet
<1>3. L \in All
  <2> HIDE DEF All
  <2>1. Nat \subseteq All
    BY <1>1, <1>2, NatSetInduction
  <2> QED BY <2>1
<1> QED BY <1>3

\* After a failure nothing is split.
LEMMA SplitStopped ==
  ASSUME NEW n, Typed(n), n.error # "none", NEW k \in DOMAIN n.nets
  PROVE  SplitClock(n, k) = n
<1>1. Len(DataSinks(n, k)) \in Nat BY DataSinksLen
<1> DEFINE l == LatchMade(n, k).netOf[AsData(n.nets[k].name[2])]
           data == DataSinks(n, k)
<1>2. PICK f : SplitLoop(n, k, data, l, f) BY <1>1, SplitSteps
<1>3. LatchMade(n, k) = n
  <2> HIDE DEF l, data
  <2>1. /\ \A x, y, z : CreateBlock(n, x, y, z) = n
        /\ \A x, y : CreatePort(n, x, y) = n
        /\ \A x : CreateNet(n, x) = n
        /\ \A x, y, z, c : CreatePin(n, x, y, z, c) = n
    <3>1. ASSUME NEW x, NEW y, NEW z PROVE CreateBlock(n, x, y, z) = n
      BY DEF CreateBlock
    <3>2. ASSUME NEW x, NEW y PROVE CreatePort(n, x, y) = n
      BY DEF CreatePort
    <3>3. ASSUME NEW x PROVE CreateNet(n, x) = n
      BY Zenon DEF CreateNet
    <3>4. ASSUME NEW x, NEW y, NEW z, NEW c PROVE CreatePin(n, x, y, z, c) = n
      BY DEF CreatePin
    <3> QED BY <3>1, <3>2, <3>3, <3>4
  <2> DEFINE name == AsData(n.nets[k].name[2])
             made == CreateBlock(n, name, "latch", "other")
             b == made.blockOf[name]
             c == "clk"
             o == "out"
             z == 0
             no == FALSE
             clocked == CreatePort(made, b, c)
             q == FindPort(clocked, b, c)
             clkd == CreatePin(clocked, q, z, k, no)
             ported == CreatePort(clkd, b, o)
             netted == CreateNet(ported, name)
             r == FindPort(netted, b, o)
             e == netted.netOf[name]
  <2>2. LatchMade(n, k) = CreatePin(netted, r, z, e, no) BY DEF LatchMade
  <2> HIDE DEF c, o, z, no, r, e, q, b, name
  <2>3. made = n BY <2>1
  <2> HIDE DEF made
  <2>4. clocked = n BY <2>1, <2>3
  <2> HIDE DEF clocked
  <2>5. clkd = n BY <2>1, <2>4
  <2> HIDE DEF clkd
  <2>6. ported = n BY <2>1, <2>5
  <2> HIDE DEF ported
  <2>7. netted = n BY <2>1, <2>6
  <2> HIDE DEF netted
  <2> QED BY <2>1, <2>2, <2>7
<1> HIDE DEF data, l
<1>4. /\ f[0] = n /\ \A i \in 1..Len(data) : f[i] = SetPinNet(f[i - 1], data[i], l)
      /\ SplitClock(n, k) = f[Len(data)]
  BY <1>2, <1>3 DEF SplitLoop
<1>5. Len(data) \in Nat BY <1>1 DEF data
<1> DEFINE L == Len(data)
<1> HIDE DEF L
<1>6. f[L] = n
  <2>1. MoveLoop(n, L, data, l, f) BY <1>4 DEF MoveLoop, L
  <2>2. L \in Nat BY <1>5 DEF L
  <2> QED BY ONLY <2>1, <2>2, n.error # "none", MoveStopped
<1> QED BY <1>4, <1>6 DEF L

\* Moving sinks changes nothing else that a clean circuit has.
LEMMA MovedSinksKeep ==
  ASSUME NEW g, Typed(g), Clean(g), NEW l \in DOMAIN g.nets, g.nets[l].valid, NEW data, NEW L,
         \A i \in 1..L : IsSink(g, data[i]), NEW m, SinksMoved(g, data, L, l, m)
  PROVE  Clean(m) /\ (Whole(g) => Whole(m))
<1>1. InRange(g) BY DEF Typed
<1>2. m.blocks = g.blocks /\ m.ports = g.ports /\ DOMAIN m.pins = DOMAIN g.pins BY DEF SinksMoved
<1>3. \A p \in DOMAIN g.pins :
         /\ m.pins[p].valid = g.pins[p].valid /\ m.pins[p].port = g.pins[p].port
         /\ PinBlock(m, p) = PinBlock(g, p) /\ IsSink(m, p) = IsSink(g, p)
  BY <1>2 DEF SinksMoved, PinBlock, IsSink
<1>4. Owning(m) BY <1>2, <1>3 DEF Clean, Owning
<1>5. PortsFit(m) BY <1>2 DEF Clean, PortsFit
<1>6. Pinned(m) BY <1>2 DEF Clean, Pinned
<1>7. PadsNamed(m)
  <2> SUFFICES ASSUME NEW p \in DOMAIN m.pins, m.pins[p].valid, m.blocks[PinBlock(m, p)].model = "input",
                      ~IsSink(m, p), m.pins[p].net # 0
               PROVE  m.nets[m.pins[p].net].name = m.blocks[PinBlock(m, p)].name
    BY DEF PadsNamed
  <2>0. p \in DOMAIN g.pins BY <1>2
  <2>1. \A j \in 1..L : data[j] # p BY <2>0, <1>3
  <2>2. m.pins[p].net = g.pins[p].net BY <2>0, <2>1 DEF SinksMoved
  <2>3. g.pins[p].net \in DOMAIN g.nets BY <2>0, <2>2, <1>1 DEF InRange
  <2>4. g.nets[g.pins[p].net].name = g.blocks[PinBlock(g, p)].name
    BY <2>0, <2>2, <1>2, <1>3 DEF Clean, PadsNamed
  <2>5. m.nets[g.pins[p].net].name = g.nets[g.pins[p].net].name BY <2>3 DEF SinksMoved
  <2> QED BY <2>0, <2>2, <2>4, <2>5, <1>2, <1>3
<1>8. ASSUME Whole(g) PROVE Whole(m)
  <2> SUFFICES ASSUME NEW p \in DOMAIN m.pins, m.pins[p].valid, m.pins[p].net # 0
               PROVE  m.nets[m.pins[p].net].valid
    BY DEF Whole
  <2>1. p \in DOMAIN g.pins /\ g.pins[p].valid BY <1>2, <1>3
  <2>2. CASE \E j \in 1..L : data[j] = p
    <3>1. m.pins[p].net = l BY <2>1, <2>2 DEF SinksMoved
    <3>2. m.nets[l].valid = g.nets[l].valid BY DEF SinksMoved
    <3> QED BY <3>1, <3>2
  <2>3. CASE \A j \in 1..L : data[j] # p
    <3>1. m.pins[p].net = g.pins[p].net BY <2>1, <2>3 DEF SinksMoved
    <3>2. g.pins[p].net \in DOMAIN g.nets /\ g.nets[g.pins[p].net].valid
      BY <2>1, <3>1, <1>1, <1>8 DEF InRange, Whole
    <3> QED BY <3>1, <3>2 DEF SinksMoved
  <2> QED BY <2>2, <2>3
<1> QED BY <1>4, <1>5, <1>6, <1>7, <1>8 DEF Clean

\* fix_clock_to_data_pins() for one clock net
LEMMA SplitClockEffect ==
  ASSUME NEW n, Good(n), n.error = "none" => Clean(n),
         NEW k \in DOMAIN n.nets, n.error = "none" => n.nets[k].valid,
         NEW m, m = SplitClock(n, k)
  PROVE  /\ Good(m) /\ DOMAIN n.nets \subseteq DOMAIN m.nets
         /\ m.error = "none" => n.error = "none" /\ \E l : ClockSplit(n, k, l, m)
<1>1. CASE n.error # "none"
  <2>1. m = n BY <1>1, SplitStopped DEF Good
  <2> QED BY <1>1, <2>1
<1>2. CASE n.error = "none"
  <2> DEFINE name == AsData(n.nets[k].name[2])
             g == LatchMade(n, k)
             l == g.netOf[name]
             data == DataSinks(n, k)
             L == Len(data)
  <2>1. Typed(n) /\ Refs(n) /\ n.nets[k].valid /\ Clean(n) BY <1>2 DEF Good
  <2>2. L \in Nat BY <2>1, DataSinksLen
  <2>3. PICK f : SplitLoop(n, k, data, l, f) BY Zenon, <2>2, SplitSteps
  <2>l. LatchLeft(n, k, name, g)
    <3>1. g = LatchMade(n, k) /\ name = AsData(n.nets[k].name[2]) OBVIOUS
    <3> HIDE DEF g, name, l, data, L
    <3> QED BY <1>2, <3>1, LatchMadeEffect
  <2>4. /\ Good(g) /\ DOMAIN n.nets \subseteq DOMAIN g.nets
        /\ g.error = "none" =>
              /\ \E b : LatchAdded(n, b, g)
              /\ l \in DOMAIN g.nets /\ g.nets[l].valid
              /\ g.nets[l].name = name
              /\ \A p \in DOMAIN g.pins \ DOMAIN n.pins :
                    \/ g.ports[g.pins[p].port].name = "clk" /\ g.pins[p].net = k
                    \/ g.ports[g.pins[p].port].name = "out"
    <3>1. l = g.netOf[name] OBVIOUS
    <3> HIDE DEF g, name, l, data, L
    <3> QED BY <2>l, <3>1 DEF LatchLeft
  <2>5. /\ data \in Seq(Nat) /\ Single(data)
        /\ \A i \in DOMAIN data : /\ data[i] \in DOMAIN n.pins /\ n.pins[data[i]].valid /\ IsSink(n, data[i])
                                  /\ n.pins[data[i]].net = k /\ n.ports[n.pins[data[i]].port].name = "in"
        /\ \A p \in DOMAIN n.pins :
              n.pins[p].valid /\ n.pins[p].net = k /\ n.ports[n.pins[p].port].name = "in"
              => \E i \in DOMAIN data : data[i] = p
    BY <2>1, DataSinksFacts
  <2>6. f[0] = g /\ (\A i \in 1..Len(data) : f[i] = SetPinNet(f[i - 1], data[i], l)) /\ m = f[Len(data)]
    BY <2>3 DEF SplitLoop
  <2>d. DOMAIN data = 1..Len(data) /\ Len(data) \in Nat BY <2>5
  <2> HIDE DEF g, l, data, L
  <2>7. CASE g.error # "none"
    <3>1. MoveLoop(g, Len(data), data, l, f) BY <2>6 DEF MoveLoop
    <3>2. f[Len(data)] = g BY ONLY <2>d, <2>7, <3>1, MoveStopped
    <3>3. m = g BY <2>6, <3>2
    <3> QED BY <2>4, <2>7, <3>3
  <2>8. CASE g.error = "none"
    <3>1. PICK b : LatchAdded(n, b, g) BY <2>4, <2>8
    <3>2. Typed(g) /\ InRange(n) /\ n \in Netlists BY <2>1, <2>4 DEF Good, Typed
    <3>3. Clean(g) /\ (Whole(n) => Whole(g)) BY <2>1, <3>1, <3>2, LatchAddedKeeps
    <3>4. ASSUME NEW p \in DOMAIN n.pins
          PROVE  /\ p \in DOMAIN g.pins /\ g.pins[p] = n.pins[p]
                 /\ n.pins[p].port \in DOMAIN n.ports /\ g.ports[n.pins[p].port].name = n.ports[n.pins[p].port].name
                 /\ IsSink(g, p) <=> IsSink(n, p)
      <4>1. n.pins[p].port \in DOMAIN n.ports BY <3>2 DEF InRange
      <4> QED BY <3>1, <4>1 DEF LatchAdded, IsSink
    <3>5. \A i \in 1..Len(data) : data[i] \in DOMAIN g.pins /\ g.pins[data[i]].valid /\ IsSink(g, data[i])
      BY <2>5, <2>d, <3>4
    <3>6. l \in DOMAIN g.nets /\ g.nets[l].valid /\ g.nets[l].name = name BY <2>4, <2>8
    <3>7. SinksMoved(g, data, Len(data), l, m)
      BY <2>4, <2>6, <2>8, <2>d, <3>5, <3>6, MoveDataSinks
    <3>8. Clean(m) /\ (Whole(g) => Whole(m)) BY <3>2, <3>3, <3>5, <3>6, <3>7, MovedSinksKeep
    <3>9. Good(m) /\ m.error = "none" BY <3>7 DEF SinksMoved
    <3>10. l \in DOMAIN m.nets /\ m.nets[l].name = name BY <3>6, <3>7 DEF SinksMoved
    <3>11. DOMAIN n.nets \subseteq DOMAIN m.nets /\ DOMAIN n.pins \subseteq DOMAIN m.pins
      BY <3>1, <3>7 DEF LatchAdded, SinksMoved
    <3>12. ASSUME NEW x \in DOMAIN n.nets
           PROVE  m.nets[x].valid = n.nets[x].valid /\ m.nets[x].name = n.nets[x].name
      <4>1. x \in DOMAIN g.nets /\ g.nets[x].valid = n.nets[x].valid /\ g.nets[x].name = n.nets[x].name
        BY <3>1 DEF LatchAdded
      <4> QED BY <4>1, <3>7 DEF SinksMoved
    <3>13. ASSUME NEW p \in DOMAIN n.pins
           PROVE  /\ m.pins[p].valid = n.pins[p].valid
                  /\ m.ports[m.pins[p].port].name = n.ports[n.pins[p].port].name
                  /\ m.pins[p].net = IF /\ n.pins[p].valid /\ n.pins[p].net = k
                                        /\ n.ports[n.pins[p].port].name = "in"
                                     THEN l ELSE n.pins[p].net
      <4>1. /\ m.pins[p].valid = n.pins[p].valid /\ m.pins[p].port = n.pins[p].port /\ m.ports = g.ports
            /\ (\E j \in 1..Len(data) : data[j] = p) => m.pins[p].net = l
            /\ (\A j \in 1..Len(data) : data[j] # p) => m.pins[p].net = n.pins[p].net
        BY <3>4, <3>7 DEF SinksMoved
      <4>2. m.ports[m.pins[p].port].name = n.ports[n.pins[p].port].name BY <4>1, <3>4
      <4>3. (\E j \in 1..Len(data) : data[j] = p) <=>
               n.pins[p].valid /\ n.pins[p].net = k /\ n.ports[n.pins[p].port].name = "in"
        BY <2>5, <2>d
      <4> QED BY <4>1, <4>2, <4>3
    <3>14. ASSUME NEW p \in DOMAIN m.pins \ DOMAIN n.pins
           PROVE  \/ m.ports[m.pins[p].port].name = "clk" /\ m.pins[p].net = k
                  \/ m.ports[m.pins[p].port].name = "out"
      <4>1. /\ p \in DOMAIN g.pins /\ m.pins[p].port = g.pins[p].port /\ m.ports = g.ports
            /\ (\A j \in 1..Len(data) : data[j] # p) => m.pins[p].net = g.pins[p].net
        BY <3>7 DEF SinksMoved
      <4>2. \A j \in 1..Len(data) : data[j] # p BY <2>5, <2>d, <3>14
      <4>3. \/ g.ports[g.pins[p].port].name = "clk" /\ g.pins[p].net = k
            \/ g.ports[g.pins[p].port].name = "out"
        BY Zenon, <2>4, <2>8, <4>1, <3>14
      <4> QED BY <4>1, <4>2, <4>3
    <3>15. ClockSplit(n, k, l, m)
      BY <3>3, <3>8, <3>9, <3>10, <3>11, <3>12, <3>13, <3>14 DEF ClockSplit
    <3> QED BY <1>2, <3>9, <3>11, <3>15
  <2> QED BY <2>7, <2>8
<1> QED BY <1>1, <1>2

\* The clock nets that feed data too
MixedClocks(n) == {k \in ClockNets(n) : DataSinks(n, k) # <<>>}

\* f is the circuit after each of the mixed clock nets was split.
FixLoop(n, f) ==
  /\ f[0] = n
  /\ \A i \in 1..Cardinality(MixedClocks(n)) : f[i] = SplitClock(f[i - 1], Nth(MixedClocks(n), i))
  /\ FixClocks(n) = f[Cardinality(MixedClocks(n))]

\* The loop over the mixed clock nets, step by step
LEMMA FixSteps ==
  ASSUME NEW n, Cardinality(MixedClocks(n)) \in Nat, 0 \notin ClockNets(n)
  PROVE  \E f : FixLoop(n, f)
<1> DEFINE mixed == {k \in ClockNets(n) : DataSinks(n, k) # <<>>}
           L == Cardinality(mixed)
           p0 == n
           G(x, i) == SplitClock(x, Nth(mixed, i))
           Is(f, j) == f = [i \in 0..j |-> IF i = 0 THEN p0 ELSE G(f[i - 1], i)]
           All == {j \in Nat : \E f : Is(f, j)}
<1>0. L \in Nat /\ mixed = MixedClocks(n) BY DEF MixedClocks
<1> HIDE DEF p0, G, mixed
<1>1. 0 \in All
  <2>1. Is([i \in 0..0 |-> p0], 0)
    OBVIOUS
  <2> HIDE DEF Is
  <2> QED BY <2>1
<1>2. \A j \in Nat : j \in All => j + 1 \in All
  <2> SUFFICES ASSUME NEW j \in Nat, j \in All PROVE \E f : Is(f, j + 1)
    <3> HIDE DEF Is
    <3> QED OBVIOUS
  <2>1. PICK f : Is(f, j)
    <3> HIDE DEF Is
    <3> QED OBVIOUS
  <2> DEFINE g == [i \in 0..(j + 1) |-> IF i = j + 1 THEN G(f[j], j + 1) ELSE f[i]]
  <2>2. ASSUME NEW i \in 0..(j + 1)
        PROVE  g[i] = IF i = 0 THEN p0 ELSE G(g[i - 1], i)
    <3>1. CASE i = j + 1
      <4>1. g[i] = G(f[j], j + 1) /\ g[i - 1] = f[j] /\ i # 0
        BY <3>1
      <4> HIDE DEF g
      <4> QED BY <3>1, <4>1
    <3>2. CASE i # j + 1
      <4>1. i \in 0..j /\ g[i] = f[i]
        BY <3>2
      <4>2. f[i] = IF i = 0 THEN p0 ELSE G(f[i - 1], i)
        BY <2>1, <4>1
      <4>3. i # 0 => g[i - 1] = f[i - 1]
        BY <4>1
      <4> HIDE DEF g
      <4> QED BY <4>1, <4>2, <4>3
    <3> QED BY <3>1, <3>2
  <2>3. g = [i \in 0..(j + 1) |-> g[i]]
    OBVIOUS
  <2>4. Is(g, j + 1)
    <3> HIDE DEF g
    <3> QED BY <2>2, <2>3
  <2> HIDE DEF Is, g
  <2> QED BY <2>4
<1>3. L \in All
  <2> HIDE DEF All, L
  <2>1. Nat \subseteq All
    BY <1>1, <1>2, NatSetInduction
  <2> QED BY <2>1, <1>0
<1>4. \E f : Is(f, L)
  <2> HIDE DEF Is
  <2> QED BY <1>3
<1> DEFINE h == CHOOSE f : Is(f, L)
<1>5. Is(h, L)
  <2> HIDE DEF Is
  <2> QED BY <1>4
<1>6. FixClocks(n) = h[L]
  BY DEF FixClocks, p0, G, mixed
<1> HIDE DEF h
<1>7. 0 \in 0..L /\ \A i \in 1..L : i \in 0..L /\ i # 0
  BY <1>0
<1>8. h[0] = p0 /\ \A i \in 1..L : h[i] = G(h[i - 1], i)
  BY <1>5, <1>7
<1>9. FixLoop(n, h)
  BY <1>0, <1>6, <1>8 DEF FixLoop, p0, G
<1> QED BY <1>9

\* A clock net is the net of a valid clock pin of a valid block, and all of
\* these name one.
LEMMA ClockNetsFacts ==
  ASSUME NEW n, Typed(n), Structure(n), Owned(n), Owning(n), PortsFit(n)
  PROVE  \A c : c \in ClockNets(n) <=>
            \E p \in DOMAIN n.pins : n.pins[p].valid /\ n.ports[n.pins[p].port].name = "clk" /\ n.pins[p].net = c
<1>0. InRange(n) /\ n \in Netlists BY DEF Typed
<1>1. ASSUME NEW c \in ClockNets(n)
      PROVE  \E p \in DOMAIN n.pins : n.pins[p].valid /\ n.ports[n.pins[p].port].name = "clk" /\ n.pins[p].net = c
  <2>1. PICK p \in ClockPins(n) : n.pins[p].net = c BY DEF ClockNets
  <2>2. PICK b \in OfModel(n, Model \ {"input", "output"}) : p \in BlockPins(n, b, "clk") BY DEF ClockPins
  <2>3. /\ b \in DOMAIN n.blocks /\ n.blocks[b].valid
        /\ p \in n.blocks[b].pins /\ n.ports[n.pins[p].port].name = "clk"
    BY <2>2 DEF OfModel, Valid, BlockPins
  <2>4. p \in DOMAIN n.pins BY <2>3, <1>0 DEF InRange
  <2>5. PinBlock(n, p) = b /\ n.pins[p].port \in DOMAIN n.ports BY <2>3, <2>4, <1>0 DEF Structure, InRange
  <2>6. n.ports[n.pins[p].port].valid BY <2>3, <2>5 DEF Owning, PinBlock
  <2>7. n.pins[p].valid BY <2>4, <2>6 DEF Owning
  <2> QED BY <2>1, <2>3, <2>4, <2>7
<1>2. ASSUME NEW p \in DOMAIN n.pins, n.pins[p].valid, n.ports[n.pins[p].port].name = "clk"
      PROVE  n.pins[p].net \in ClockNets(n)
  <2>1. n.pins[p].port \in DOMAIN n.ports /\ PinBlock(n, p) \in DOMAIN n.blocks BY Zenon, <1>0 DEF InRange, PinBlock
  <2>2. n.blocks[PinBlock(n, p)].valid BY Zenon, <2>1, <1>2 DEF Owned, PinBlock
  <2>3. n.blocks[PinBlock(n, p)].model \in Model \ {"input", "output"}
    <3>1. Fits(n.blocks[PinBlock(n, p)].model, "clk") BY <2>1, <1>2 DEF PortsFit, PinBlock
    <3>2. n.blocks[PinBlock(n, p)].model \in Model BY <2>1, <1>0, FieldTypes
    <3> QED BY Zenon, <3>1, <3>2 DEF Fits
  <2>4. p \in BlockPins(n, PinBlock(n, p), "clk") BY <1>2, PinAmongBlockPins
  <2>5. PinBlock(n, p) \in OfModel(n, Model \ {"input", "output"}) BY <2>1, <2>2, <2>3 DEF OfModel, Valid
  <2>6. p \in ClockPins(n) BY <2>4, <2>5 DEF ClockPins
  <2> QED BY <2>6 DEF ClockNets
<1> QED BY <1>1, <1>2

\* The circuit after i of the mixed clock nets were split: the nets there were
\* stay, and clock pins are still on clock nets; data sinks are only on those of
\* them whose turn is still to come.
FixedTo(n, i, g) ==
  /\ Good(g) /\ DOMAIN n.nets \subseteq DOMAIN g.nets
  /\ g.error = "none" =>
       /\ Clean(g)
       /\ Whole(n) => Whole(g)
       /\ \A x \in DOMAIN n.nets : g.nets[x].valid = n.nets[x].valid /\ g.nets[x].name = n.nets[x].name
       /\ \A p \in DOMAIN g.pins :
             g.pins[p].valid /\ g.ports[g.pins[p].port].name = "clk" => g.pins[p].net \in ClockNets(n)
       /\ \A p \in DOMAIN g.pins :
             /\ g.pins[p].valid /\ g.ports[g.pins[p].port].name = "in"
             /\ g.pins[p].net \in ClockNets(n) /\ g.pins[p].net # 0
             /\ n.nets[g.pins[p].net].valid
             => \E j \in 1..Cardinality(MixedClocks(n)) : j > i /\ Nth(MixedClocks(n), j) = g.pins[p].net

\* The clock nets to split.
LEMMA MixedClocksFacts ==
  ASSUME NEW n, Typed(n), Refs(n), Clean(n), 0 \notin ClockNets(n)
  PROVE  /\ Cardinality(MixedClocks(n)) \in Nat
         /\ ClockNets(n) \subseteq DOMAIN n.nets
         /\ \A i \in 1..Cardinality(MixedClocks(n)) :
               /\ Nth(MixedClocks(n), i) \in ClockNets(n)
               /\ n.nets[Nth(MixedClocks(n), i)].valid
         /\ \A c \in ClockNets(n) : DataSinks(n, c) # <<>> =>
               \E j \in 1..Cardinality(MixedClocks(n)) : Nth(MixedClocks(n), j) = c
<1> DEFINE K == MixedClocks(n)
           z == Len(n.nets)
<1>1. n \in Netlists /\ InRange(n) /\ Netted(n) /\ Structure(n) /\ Owned(n) /\ Owning(n) /\ PortsFit(n)
  BY DEF Typed, Refs, Clean
<1>2. \A c \in ClockNets(n) : c \in DOMAIN n.nets
  <2> TAKE c \in ClockNets(n)
  <2>1. PICK p \in DOMAIN n.pins : n.pins[p].net = c BY <1>1, ClockNetsFacts
  <2> QED BY <2>1, <1>1 DEF InRange
<1>3. K \in SUBSET (1..z) /\ z \in Nat BY <1>1, <1>2, Shape DEF MixedClocks
<1>4. ASSUME NEW c \in K PROVE n.nets[c].valid
  <2>1. c \in ClockNets(n) /\ DataSinks(n, c) # <<>> BY DEF MixedClocks
  <2>2. PICK p \in DOMAIN n.pins : n.pins[p].valid /\ n.pins[p].net = c BY <2>1, <1>1, ClockNetsFacts
  <2>3. PinOK(n, p) BY <2>2, <1>1 DEF Netted
  <2>4. SUFFICES ASSUME n.nets[c].pins = <<>> PROVE FALSE
    <3>1. c # 0 BY <2>1
    <3> QED BY <2>2, <2>3, <3>1 DEF PinOK
  <2> DEFINE s == Sinks(n, c)
             J == {i \in DOMAIN s : n.ports[n.pins[s[i]].port].name # "clk"}
  <2>5. s = <<>> /\ s \in Seq(Nat) BY <2>4 DEF Sinks
  <2>6. DataSinks(n, c) = Keep(s, J) /\ J = {} /\ J \in SUBSET DOMAIN s BY <2>5 DEF DataSinks
  <2> HIDE DEF s, J
  <2>7. Len(Keep(s, J)) = Cardinality(J) /\ Keep(s, J) \in Seq(Nat) BY ONLY <2>5, <2>6, KeepFacts
  <2>8. Cardinality(J) = 0 BY <2>6, FS_EmptySet
  <2> QED BY <2>1, <2>6, <2>7, <2>8
<1> HIDE DEF K, z
<1>5. /\ Cardinality(K) \in 0..z
      /\ \A k \in 1..Cardinality(K) : Nth(K, k) \in K
      /\ \A i \in K : Rank(K, i) \in 1..Cardinality(K) /\ Nth(K, Rank(K, i)) = i
  BY ONLY <1>3, NthOfRank
<1>6. \A c \in K : c \in ClockNets(n) BY DEF K, MixedClocks
<1>7. \A c \in ClockNets(n) : DataSinks(n, c) # <<>> => c \in K BY DEF K, MixedClocks
<1>8. Cardinality(K) \in Nat BY <1>3, <1>5
<1>9. \A i \in 1..Cardinality(K) : Nth(K, i) \in ClockNets(n) /\ n.nets[Nth(K, i)].valid
  BY <1>4, <1>5, <1>6
<1>10. \A c \in ClockNets(n) : DataSinks(n, c) # <<>> => \E j \in 1..Cardinality(K) : Nth(K, j) = c
  BY <1>5, <1>7
<1> QED BY <1>2, <1>8, <1>9, <1>10 DEF K

\* A net with a data sink has some.
LEMMA DataSinkShows ==
  ASSUME NEW n, Typed(n), Refs(n), NEW p \in DOMAIN n.pins, n.pins[p].valid, n.ports[n.pins[p].port].name = "in",
         n.pins[p].net # 0, n.nets[n.pins[p].net].valid
  PROVE  DataSinks(n, n.pins[p].net) # <<>>
<1> DEFINE k == n.pins[p].net
           v == DataSinks(n, k)
<1>1. k \in DOMAIN n.nets BY DEF Typed, InRange
<1>2. v = DataSinks(n, k) /\ n.pins[p].net = k OBVIOUS
<1>3. \E i \in DOMAIN v : v[i] = p
  <2> HIDE DEF v
  <2> QED BY <1>1, <1>2, DataSinksFacts
<1> HIDE DEF v
<1>4. v # <<>> BY <1>3
<1> QED BY <1>4 DEF v

\* The loop over clock nets begins with none split,
LEMMA FixBegins ==
  ASSUME NEW n, Good(n), n.error = "none", Clean(n), 0 \notin ClockNets(n)
  PROVE  FixedTo(n, 0, n)
<1>1. Typed(n) /\ Refs(n) /\ Structure(n) /\ Owned(n) /\ Owning(n) /\ PortsFit(n)
  BY DEF Good, Refs, Clean
<1>2. \A p \in DOMAIN n.pins :
         n.pins[p].valid /\ n.ports[n.pins[p].port].name = "clk" => n.pins[p].net \in ClockNets(n)
  BY <1>1, ClockNetsFacts
<1>3. ASSUME NEW p \in DOMAIN n.pins, n.pins[p].valid, n.ports[n.pins[p].port].name = "in",
             n.pins[p].net \in ClockNets(n), n.pins[p].net # 0, n.nets[n.pins[p].net].valid
      PROVE  \E j \in 1..Cardinality(MixedClocks(n)) : j > 0 /\ Nth(MixedClocks(n), j) = n.pins[p].net
  <2>1. DataSinks(n, n.pins[p].net) # <<>> BY <1>1, <1>3, DataSinkShows
  <2>2. PICK j \in 1..Cardinality(MixedClocks(n)) : Nth(MixedClocks(n), j) = n.pins[p].net
    BY <2>1, <1>1, <1>3, MixedClocksFacts
  <2>3. j > 0 BY <1>1, MixedClocksFacts
  <2> QED BY <2>2, <2>3
<1> QED BY <1>2, <1>3 DEF FixedTo

\* splits one more each time,
LEMMA FixContinues ==
  ASSUME NEW n, Good(n), n.error = "none", Clean(n), Plainly(n), 0 \notin ClockNets(n),
         NEW i \in Nat, NEW h, h = i + 1, h \in 1..Cardinality(MixedClocks(n)), NEW g, FixedTo(n, i, g),
         NEW k, k = Nth(MixedClocks(n), h), NEW m, m = SplitClock(g, k)
  PROVE  FixedTo(n, h, m)
<1>1. Typed(n) /\ Refs(n) /\ Good(g) BY DEF Good, FixedTo
<1>2. k \in ClockNets(n) /\ k \in DOMAIN n.nets /\ n.nets[k].valid /\ ClockNets(n) \subseteq DOMAIN n.nets
  BY Zenon, <1>1, MixedClocksFacts
<1>3. CASE g.error # "none"
  <2>1. k \in DOMAIN g.nets BY <1>2 DEF FixedTo
  <2>2. m = g BY <1>1, <1>3, <2>1, SplitStopped DEF Good
  <2>3. DOMAIN n.nets \subseteq DOMAIN g.nets BY Zenon DEF FixedTo
  <2> QED BY <1>1, <1>3, <2>2, <2>3 DEF FixedTo
<1>4. CASE g.error = "none"
  <2>1. k \in DOMAIN g.nets /\ g.nets[k].valid /\ Clean(g) BY <1>2, <1>4 DEF FixedTo
  <2>0. Good(m) /\ DOMAIN g.nets \subseteq DOMAIN m.nets /\ (m.error = "none" => \E l : ClockSplit(g, k, l, m))
    BY <1>1, <1>4, <2>1, SplitClockEffect
  <2>2. DOMAIN n.nets \subseteq DOMAIN m.nets BY Zenon, <2>0 DEF FixedTo
  <2>3. SUFFICES ASSUME m.error = "none", NEW l, ClockSplit(g, k, l, m) PROVE FixedTo(n, h, m)
    BY Zenon, <2>0, <2>2 DEF FixedTo
  <2>4. Clean(m) /\ (Whole(n) => Whole(m)) BY Zenon, <1>4, <2>3 DEF FixedTo, ClockSplit
  <2>5. DOMAIN n.nets \subseteq DOMAIN m.nets BY Zenon, <1>4, <2>3 DEF FixedTo, ClockSplit
  <2>6. ASSUME NEW x \in DOMAIN n.nets
        PROVE  m.nets[x].valid = n.nets[x].valid /\ m.nets[x].name = n.nets[x].name
    <3>1. x \in DOMAIN g.nets /\ g.nets[x].valid = n.nets[x].valid /\ g.nets[x].name = n.nets[x].name
      BY <1>4 DEF FixedTo
    <3> QED BY <3>1, <2>3 DEF ClockSplit
  <2>7. l \notin ClockNets(n)
    <3> SUFFICES ASSUME l \in DOMAIN n.nets PROVE FALSE BY Zenon, <1>2
    <3>1. m.nets[l].name = AsData(g.nets[k].name[2]) BY <2>3 DEF ClockSplit
    <3>2. PICK x \in Base : n.nets[l].name = Plain(x) BY DEF Plainly
    <3>3. AsData(g.nets[k].name[2]) = Plain(x) BY <3>1, <3>2, <2>6
    <3> QED BY <3>3 DEF AsData, Plain
  <2>8. ASSUME NEW p \in DOMAIN m.pins, m.pins[p].valid, m.ports[m.pins[p].port].name = "clk"
        PROVE  m.pins[p].net \in ClockNets(n)
    <3>1. CASE p \in DOMAIN g.pins
      <4>1. /\ m.pins[p].valid = g.pins[p].valid
            /\ m.ports[m.pins[p].port].name = g.ports[g.pins[p].port].name
            /\ m.pins[p].net = IF /\ g.pins[p].valid /\ g.pins[p].net = k
                                  /\ g.ports[g.pins[p].port].name = "in"
                               THEN l ELSE g.pins[p].net
        BY <2>3, <3>1 DEF ClockSplit
      <4>2. g.pins[p].valid /\ g.ports[g.pins[p].port].name = "clk" /\ m.pins[p].net = g.pins[p].net
        BY <4>1, <2>8
      <4>3. g.pins[p].net \in ClockNets(n) BY Zenon, <4>2, <3>1, <1>4 DEF FixedTo
      <4> QED BY Zenon, <4>2, <4>3
    <3>2. CASE p \notin DOMAIN g.pins
      <4>1. \/ m.ports[m.pins[p].port].name = "clk" /\ m.pins[p].net = k
            \/ m.ports[m.pins[p].port].name = "out"
        BY <2>3, <3>2 DEF ClockSplit
      <4> QED BY Zenon, <4>1, <2>8, <1>2
    <3> QED BY <3>1, <3>2
  <2>9. ASSUME NEW p \in DOMAIN m.pins, m.pins[p].valid, m.ports[m.pins[p].port].name = "in",
               m.pins[p].net \in ClockNets(n), m.pins[p].net # 0, n.nets[m.pins[p].net].valid
        PROVE  \E j \in 1..Cardinality(MixedClocks(n)) : j > h /\ Nth(MixedClocks(n), j) = m.pins[p].net
    <3>1. p \in DOMAIN g.pins
      <4> SUFFICES ASSUME p \notin DOMAIN g.pins PROVE FALSE BY Zenon
      <4>1. m.ports[m.pins[p].port].name \in {"clk", "out"} BY Zenon, <2>3 DEF ClockSplit
      <4> QED BY <4>1, <2>9
    <3>2. /\ m.pins[p].valid = g.pins[p].valid
          /\ m.ports[m.pins[p].port].name = g.ports[g.pins[p].port].name
          /\ m.pins[p].net = IF /\ g.pins[p].valid /\ g.pins[p].net = k
                                /\ g.ports[g.pins[p].port].name = "in"
                             THEN l ELSE g.pins[p].net
      BY <2>3, <3>1 DEF ClockSplit
    <3>3. /\ g.pins[p].valid /\ g.ports[g.pins[p].port].name = "in"
          /\ g.pins[p].net # k /\ m.pins[p].net = g.pins[p].net
      BY Zenon, <3>2, <2>7, <2>9
    <3>4. PICK j \in 1..Cardinality(MixedClocks(n)) : j > i /\ Nth(MixedClocks(n), j) = g.pins[p].net
      BY <3>1, <3>3, <2>9, <1>4 DEF FixedTo
    <3>5. j # h BY <3>3, <3>4
    <3>6. Cardinality(MixedClocks(n)) \in Nat BY <1>1, MixedClocksFacts
    <3>7. j > h BY <3>4, <3>5, <3>6
    <3> QED BY <3>3, <3>4, <3>7
  <2> QED BY <2>0, <2>4, <2>5, <2>6, <2>8, <2>9 DEF FixedTo
<1> QED BY <1>3, <1>4

\* and ends with all of them split.
LEMMA FixEnds ==
  ASSUME NEW n, Good(n), n.error = "none", Clean(n), Plainly(n), 0 \notin ClockNets(n),
         NEW f, FixLoop(n, f), NEW c, c = Cardinality(MixedClocks(n))
  PROVE  FixedTo(n, c, f[c])
<1> DEFINE All == {i \in Nat : i <= c => FixedTo(n, i, f[i])}
<1>0. Typed(n) /\ Refs(n) BY DEF Good
<1>1. c \in Nat BY <1>0, MixedClocksFacts
<1>2. 0 \in All
  <2> DEFINE z == 0
  <2>1. FixedTo(n, 0, n) BY FixBegins
  <2>2. f[z] = n BY DEF FixLoop
  <2> QED BY <2>1, <2>2
<1>3. \A i \in Nat : i \in All => i + 1 \in All
  <2> SUFFICES ASSUME NEW i \in Nat, FixedTo(n, i, f[i]), i + 1 <= c PROVE FixedTo(n, i + 1, f[i + 1])
    <3>1. \A i \in Nat : i + 1 <= c => i <= c BY <1>1
    <3> QED BY <3>1
  <2> DEFINE h == i + 1
             g == f[i]
             k == Nth(MixedClocks(n), h)
             m == SplitClock(g, k)
  <2>1. h = i + 1 /\ h \in 1..Cardinality(MixedClocks(n)) /\ h - 1 = i BY <1>1
  <2>2. FixedTo(n, i, g) /\ k = Nth(MixedClocks(n), h) /\ m = SplitClock(g, k) OBVIOUS
  <2>3. f[h] = m BY <2>1 DEF FixLoop
  <2> HIDE DEF h, g, k, m
  <2>4. FixedTo(n, h, m) BY <2>1, <2>2, FixContinues
  <2>5. FixedTo(n, h, f[h]) BY <2>3, <2>4
  <2> QED BY <2>5 DEF h
<1>4. c \in All
  <2> HIDE DEF All
  <2>1. Nat \subseteq All BY <1>2, <1>3, NatSetInduction
  <2> QED BY <1>1, <2>1
<1> QED BY <1>1, <1>4

\* fix_clock_to_data_conversions()
LEMMA FixClocksEffect ==
  ASSUME NEW n, Good(n), n.error = "none", Clean(n), Plainly(n), NEW m, m = FixClocks(n)
  PROVE  /\ Good(m)
         /\ m.error = "none" => Clean(m) /\ (Whole(n) => Whole(m)) /\ ClocksApart(m)
<1>0. Typed(n) /\ Refs(n) /\ n \in Netlists /\ Structure(n) /\ Owned(n) /\ Owning(n) /\ PortsFit(n)
  BY DEF Good, Typed, Refs, Clean
<1>1. CASE 0 \in ClockNets(n)
  <2> DEFINE how == "assert"
  <2>1. m = Fail(n, how) BY <1>1 DEF FixClocks
  <2>2. how \in {"throw", "assert", "range"} /\ how # "none" OBVIOUS
  <2> HIDE DEF how
  <2> QED BY <1>0, <2>1, <2>2, FailIsGood
<1>2. CASE 0 \notin ClockNets(n)
  <2> DEFINE c == Cardinality(MixedClocks(n))
  <2>1. c \in Nat /\ ClockNets(n) \subseteq DOMAIN n.nets BY <1>0, <1>2, MixedClocksFacts
  <2>2. PICK f : FixLoop(n, f) BY <2>1, <1>2, FixSteps
  <2>3. m = f[c] BY <2>2 DEF FixLoop
  <2> HIDE DEF c
  <2>4. FixedTo(n, c, m) BY <1>2, <2>2, <2>3, FixEnds DEF c
  <2>5. ASSUME m.error = "none" PROVE ClocksApart(m)
    <3> SUFFICES ASSUME NEW p \in DOMAIN m.pins, NEW q \in DOMAIN m.pins,
                        m.pins[p].valid, m.ports[m.pins[p].port].name = "clk",
                        m.pins[q].valid, m.ports[m.pins[q].port].name = "in",
                        m.pins[p].net = m.pins[q].net, m.pins[p].net # 0, m.nets[m.pins[p].net].valid
                 PROVE  FALSE
      <4>1. Good(m) BY <2>4 DEF FixedTo
      <4> QED BY DEF ClocksApart
    <3>1. m.pins[p].net \in ClockNets(n) BY <2>4, <2>5 DEF FixedTo
    <3>2. m.pins[p].net \in DOMAIN n.nets BY Zenon, <2>1, <3>1
    <3>3. n.nets[m.pins[p].net].valid BY <2>4, <2>5, <3>2 DEF FixedTo
    <3>4. \E j \in 1..Cardinality(MixedClocks(n)) : j > c /\ Nth(MixedClocks(n), j) = m.pins[q].net
      BY <2>4, <2>5, <3>1, <3>3 DEF FixedTo
    <3> QED BY <2>1, <3>4 DEF c
  <2>6. Good(m) /\ (m.error = "none" => Clean(m) /\ (Whole(n) => Whole(m))) BY <2>4 DEF FixedTo
  <2> QED BY <2>5, <2>6
<1> QED BY <1>1, <1>2

\* What a circuit is stays so when it is packed.
LEMMA PackedKeeps ==
  ASSUME NEW n, Typed(n), Refs(n), ~Unrepresentable(n), NEW m, Packed(n, m), PortsFit(n), PadsNamed(n)
  PROVE  PortsFit(m) /\ PadsNamed(m) /\ (ClocksApart(n) => ClocksApart(m))
<1>0. /\ Places(n.blocks, m.blocks) /\ Places(n.ports, m.ports)
      /\ Places(n.pins, m.pins) /\ Places(n.nets, m.nets)
      /\ PackedBlocks(n, m) /\ PackedPorts(n, m) /\ n \in Netlists
  BY PackedPlaces DEF Packed, Typed
<1>1. ASSUME NEW q \in DOMAIN m.ports
      PROVE  Fits(m.blocks[m.ports[q].block].model, m.ports[q].name)
  <2> DEFINE o == Old(n.ports, q)
             c == n.ports[o].block
             b == m.ports[q].block
  <2>1. o \in DOMAIN n.ports /\ n.ports[o].valid /\ m.ports[q].name = n.ports[o].name /\ b = At(n.blocks, c)
    BY Zenon, <1>0 DEF Places, PackedPorts
  <2>2. c \in DOMAIN n.blocks /\ n.blocks[c].valid BY <2>1, ValidNames DEF Valid
  <2>3. b \in DOMAIN m.blocks /\ Old(n.blocks, b) = c BY <2>1, <2>2, <1>0 DEF Places
  <2>4. m.blocks[b].model = n.blocks[Old(n.blocks, b)].model BY <2>3, <1>0 DEF PackedBlocks
  <2>5. Fits(n.blocks[c].model, n.ports[o].name) BY <2>1 DEF PortsFit
  <2> HIDE DEF o, c, b
  <2> QED BY <2>1, <2>3, <2>4, <2>5 DEF b
<1>2. ASSUME NEW p \in DOMAIN m.pins, m.blocks[PinBlock(m, p)].model = "input", ~IsSink(m, p), m.pins[p].net # 0
      PROVE  m.nets[m.pins[p].net].name = m.blocks[PinBlock(m, p)].name
  <2> DEFINE o == Old(n.pins, p)
  <2>1. /\ o \in DOMAIN n.pins /\ n.pins[o].valid /\ IsSink(m, p) = IsSink(n, o)
        /\ m.blocks[PinBlock(m, p)].name = n.blocks[PinBlock(n, o)].name
        /\ m.blocks[PinBlock(m, p)].model = n.blocks[PinBlock(n, o)].model
        /\ n.pins[o].net \in DOMAIN n.nets
        /\ m.nets[m.pins[p].net].name = n.nets[n.pins[o].net].name
    BY <1>2, PackedPin
  <2>2. n.pins[o].net # 0 BY <2>1, <1>0, ZeroIsNoId
  <2>3. n.nets[n.pins[o].net].name = n.blocks[PinBlock(n, o)].name
    BY <1>2, <2>1, <2>2 DEF PadsNamed
  <2> QED BY <2>1, <2>3
<1>3. ASSUME ClocksApart(n), NEW p \in DOMAIN m.pins, NEW q \in DOMAIN m.pins,
             m.ports[m.pins[p].port].name = "clk", m.ports[m.pins[q].port].name = "in",
             m.pins[p].net = m.pins[q].net, m.pins[p].net # 0
      PROVE  FALSE
  <2> DEFINE o == Old(n.pins, p)
             u == Old(n.pins, q)
  <2>1. /\ o \in DOMAIN n.pins /\ n.pins[o].valid
        /\ n.ports[n.pins[o].port].name = "clk"
        /\ n.pins[o].net \in DOMAIN n.nets /\ n.nets[n.pins[o].net].valid
        /\ m.pins[p].net = At(n.nets, n.pins[o].net)
    BY <1>3, PackedPin
  <2>2. /\ u \in DOMAIN n.pins /\ n.pins[u].valid
        /\ n.ports[n.pins[u].port].name = "in"
        /\ n.pins[u].net \in DOMAIN n.nets /\ n.nets[n.pins[u].net].valid
        /\ m.pins[q].net = At(n.nets, n.pins[u].net)
    BY <1>3, PackedPin
  <2>3. Old(n.nets, m.pins[p].net) = n.pins[o].net BY <2>1, <1>0 DEF Places
  <2>4. Old(n.nets, m.pins[q].net) = n.pins[u].net BY <2>2, <1>0 DEF Places
  <2>5. n.pins[o].net = n.pins[u].net BY <2>3, <2>4, <1>3
  <2>6. n.pins[o].net # 0 BY <2>1, <1>0, ZeroIsNoId
  <2> HIDE DEF o, u
  <2> QED BY Zenon, <1>3, <2>1, <2>2, <2>5, <2>6 DEF ClocksApart
<1>4. PortsFit(m) BY <1>1 DEF PortsFit
<1>5. PadsNamed(m) BY <1>2 DEF PadsNamed
<1>6. ClocksApart(n) => ClocksApart(m) BY <1>3 DEF ClocksApart
<1> QED BY <1>4, <1>5, <1>6

\* Renumbering keeps the connections.
LEMMA PackedConnections ==
  ASSUME NEW n, Typed(n), Refs(n), ~Unrepresentable(n), NEW m, Packed(n, m)
  PROVE  Connections(m) = Connections(n)
<1>0. Places(n.nets, m.nets) /\ Places(n.pins, m.pins) /\ n \in Netlists BY PackedPlaces DEF Typed
<1>1. ASSUME NEW p \in DOMAIN m.pins PROVE PinNamed(m, p) = PinNamed(n, Old(n.pins, p))
  <2>1. /\ m.blocks[PinBlock(m, p)].name = n.blocks[PinBlock(n, Old(n.pins, p))].name
        /\ m.ports[m.pins[p].port].name = n.ports[n.pins[Old(n.pins, p)].port].name
        /\ m.pins[p].bit = n.pins[Old(n.pins, p)].bit
    BY PackedPin
  <2> QED BY <2>1 DEF PinNamed
<1>2. ASSUME NEW k \in DOMAIN m.nets, NEW o, o = Old(n.nets, k), NEW i \in DOMAIN n.nets[o].pins
      PROVE  /\ o \in DOMAIN n.nets /\ n.nets[o].valid /\ m.nets[k].valid
             /\ i \in DOMAIN m.nets[k].pins /\ DOMAIN m.nets[k].pins = DOMAIN n.nets[o].pins
             /\ m.nets[k].name = n.nets[o].name
             /\ m.nets[k].pins[i] # 0 /\ n.nets[o].pins[i] # 0
             /\ PinNamed(m, m.nets[k].pins[i]) = PinNamed(n, n.nets[o].pins[i])
  <2>1. /\ o \in DOMAIN n.nets /\ n.nets[o].valid /\ m.nets[k].valid
        /\ DOMAIN m.nets[k].pins = DOMAIN n.nets[o].pins
        /\ m.nets[k].name = n.nets[o].name
        /\ m.nets[k].pins[i] \in DOMAIN m.pins /\ Old(n.pins, m.nets[k].pins[i]) = n.nets[o].pins[i]
        /\ n.nets[o].pins[i] \in DOMAIN n.pins
    BY <1>2, PackedNet
  <2>2. m.nets[k].pins[i] # 0 /\ n.nets[o].pins[i] # 0
    <3>1. m \in Netlists BY DEF Packed
    <3> QED BY <2>1, <3>1, <1>0, ZeroIsNoId
  <2>3. PinNamed(m, m.nets[k].pins[i]) = PinNamed(n, n.nets[o].pins[i]) BY <2>1, <1>1
  <2> QED BY <2>1, <2>2, <2>3
<1>3. ASSUME NEW e, e \in Connections(m) PROVE e \in Connections(n)
  <2>0. PICK k \in DOMAIN m.nets : \E i \in DOMAIN m.nets[k].pins :
              /\ m.nets[k].valid /\ m.nets[k].pins[i] # 0
              /\ e = <<m.nets[k].name, i = 1, PinNamed(m, m.nets[k].pins[i])>>
    BY <1>3, ConnectionsFacts
  <2>1. PICK i \in DOMAIN m.nets[k].pins :
              /\ m.nets[k].valid /\ m.nets[k].pins[i] # 0
              /\ e = <<m.nets[k].name, i = 1, PinNamed(m, m.nets[k].pins[i])>>
    BY <2>0
  <2> DEFINE o == Old(n.nets, k)
  <2>2. DOMAIN m.nets[k].pins = DOMAIN n.nets[o].pins BY PackedNet
  <2>3. /\ o \in DOMAIN n.nets /\ n.nets[o].valid /\ m.nets[k].name = n.nets[o].name
        /\ n.nets[o].pins[i] # 0
        /\ PinNamed(m, m.nets[k].pins[i]) = PinNamed(n, n.nets[o].pins[i])
    BY <2>2, <1>2
  <2> HIDE DEF o
  <2>4. e = <<n.nets[o].name, i = 1, PinNamed(n, n.nets[o].pins[i])>> BY <2>1, <2>3
  <2>5. i \in DOMAIN n.nets[o].pins BY <2>2
  <2> QED BY <2>3, <2>4, <2>5, ConnectionsFacts
<1>4. ASSUME NEW e, e \in Connections(n) PROVE e \in Connections(m)
  <2>0. PICK o \in DOMAIN n.nets : \E i \in DOMAIN n.nets[o].pins :
              /\ n.nets[o].valid /\ n.nets[o].pins[i] # 0
              /\ e = <<n.nets[o].name, i = 1, PinNamed(n, n.nets[o].pins[i])>>
    BY <1>4, ConnectionsFacts
  <2>1. PICK i \in DOMAIN n.nets[o].pins :
              /\ n.nets[o].valid /\ n.nets[o].pins[i] # 0
              /\ e = <<n.nets[o].name, i = 1, PinNamed(n, n.nets[o].pins[i])>>
    BY <2>0
  <2> DEFINE k == At(n.nets, o)
  <2>2. k \in DOMAIN m.nets /\ o = Old(n.nets, k) BY <2>1, <1>0 DEF Places
  <2>3. /\ m.nets[k].valid /\ m.nets[k].name = n.nets[o].name
        /\ i \in DOMAIN m.nets[k].pins /\ m.nets[k].pins[i] # 0
        /\ PinNamed(m, m.nets[k].pins[i]) = PinNamed(n, n.nets[o].pins[i])
    BY <2>2, <1>2
  <2> HIDE DEF k
  <2>4. e = <<m.nets[k].name, i = 1, PinNamed(m, m.nets[k].pins[i])>> BY <2>1, <2>3
  <2> QED BY <2>2, <2>3, <2>4, ConnectionsFacts
<1> QED BY <1>3, <1>4

\* compress()
LEMMA CompressEffect ==
  ASSUME NEW n, Good(n), n.error = "none", PortsFit(n), PadsNamed(n), NEW m, m = Compress(n)
  PROVE  /\ Good(m)
         /\ m.error = "none" =>
               /\ Full(m) /\ Whole(m) /\ PortsFit(m) /\ PadsNamed(m)
               /\ ClocksApart(n) => ClocksApart(m)
               /\ Connections(m) = Connections(n)
<1>0. Typed(n) /\ Refs(n) BY DEF Good
<1>1. CASE Unrepresentable(n)
  <2>1. m = Fail(n, "range") BY <1>1 DEF Compress
  <2>2. "range" # "none" OBVIOUS
  <2> QED BY <1>0, <2>1, <2>2, FailIsGood
<1>2. CASE ~Unrepresentable(n)
  <2>1. Packed(n, m) BY <1>0, <1>2, CompressPacks
  <2>2. Good(m) /\ Full(m) /\ Whole(m) BY <1>0, <1>2, <2>1, PackedIsGood
  <2>3. PortsFit(m) /\ PadsNamed(m) /\ (ClocksApart(n) => ClocksApart(m)) BY <1>0, <1>2, <2>1, PackedKeeps
  <2>4. Connections(m) = Connections(n) BY <1>0, <1>2, <2>1, PackedConnections
  <2> QED BY <2>2, <2>3, <2>4
<1> QED BY <1>1, <1>2

\* remove_unused() and compress()
LEMMA RemoveAndCompressEffect ==
  ASSUME NEW n, Good(n), n.error = "none", PortsFit(n), PadsNamed(n), Pinned(n),
         NEW m, m = Compress(RemoveUnused(n))
  PROVE  /\ Good(m)
         /\ m.error = "none" =>
               /\ Full(m) /\ Whole(m) /\ PortsFit(m) /\ PadsNamed(m)
               /\ ClocksApart(n) => ClocksApart(m)
               /\ Connections(m) = Connections(n)
<1> DEFINE l == RemoveUnused(n)
<1>1. Thinned(n, l) BY RemoveUnusedEffect
<1>2. /\ Good(l) /\ l.error = "none" /\ PortsFit(l) /\ PadsNamed(l)
      /\ ClocksApart(n) => ClocksApart(l)
      /\ Connections(l) = Connections(n)
  BY <1>1 DEF Thinned
<1>3. m = Compress(l) OBVIOUS
<1> HIDE DEF l
<1>4. Good(m) BY <1>2, <1>3, CompressEffect
<1>5. m.error = "none" =>
               /\ Full(m) /\ Whole(m) /\ PortsFit(m) /\ PadsNamed(m)
               /\ ClocksApart(l) => ClocksApart(m)
               /\ Connections(m) = Connections(l)
  BY Zenon, <1>2, <1>3, CompressEffect
<1> QED BY <1>2, <1>4, <1>5

\* verify() leaves the netlist, or ends the program.
LEMMA VerifyEffect ==
  ASSUME NEW n, Good(n), NEW m, m = Verify(n)
  PROVE  Good(m) /\ (m.error = "none" => m = n)
<1>1. CASE m = n BY <1>1
<1>2. CASE m = Fail(n, "throw") BY <1>2, FailIsGood DEF Good
<1> QED BY Zenon, <1>1, <1>2 DEF Verify
-----------------------------------------------------------------------------
(* The inductive invariant.                                                *)

\* What has been established of the circuit at each stage
Staged ==
  /\ phase = "read" => ReadOK(nl) /\ CurrOK(nl, cur)
  /\ phase \in {"identify", "absorb"} => Absorbable(nl)
  /\ phase = "absorb" => Single(luts) /\ \A i \in DOMAIN luts : luts[i] \in Buffers(nl)
  /\ phase \in {"unconn", "sweep", "fix"} => Clean(nl) /\ Plainly(nl)
  /\ phase = "compress" => Clean(nl) /\ ClocksApart(nl)
  /\ phase \in {"verify", "done"} =>
        Full(nl) /\ Whole(nl) /\ PortsFit(nl) /\ PadsNamed(nl) /\ ClocksApart(nl)
  /\ phase # "read" /\ sound => Whole(nl)

\* The types of what is kept beside the netlist.
Kept ==
  /\ pos \in 0..Len(Statements) /\ opts \in Options /\ sound \in BOOLEAN
  /\ phase \in {"read", "identify", "absorb", "unconn", "sweep", "fix", "compress", "verify", "done"}
  /\ cur \in {0} \cup DOMAIN nl.blocks
  /\ luts \in Seq(Nat) /\ \A i \in DOMAIN luts : luts[i] \in DOMAIN nl.blocks
  /\ phase # "read" => cur = 0
  /\ phase # "absorb" => luts = <<>>

\* The database is good at every step; while the program runs, the stage has
\* established what the next one needs.
CircuitInv == Good(nl) /\ Kept /\ (Running => Staged)

\* The empty netlist is good.
LEMMA EmptyIsGood ==
  ReadOK(NoNetlist) /\ NoNetlist.error = "none" /\ NoNetlist \in Netlists
<1> DEFINE e == NoNetlist
<1>1. /\ e.blocks = <<>> /\ e.ports = <<>> /\ e.pins = <<>> /\ e.nets = <<>>
      /\ e.blockOf = [x \in Name |-> 0] /\ e.netOf = [x \in Name |-> 0]
      /\ e.dirty = FALSE /\ e.error = "none"
  BY DEF NoNetlist
<1>2. e \in Netlists
  <2>1. <<>> \in Seq(BlockRecs) /\ <<>> \in Seq(PortRecs) /\ <<>> \in Seq(PinRecs) /\ <<>> \in Seq(NetRecs)
    BY EmptySeq
  <2>2. [x \in Name |-> 0] \in [Name -> Nat] OBVIOUS
  <2> HIDE DEF BlockRecs, PortRecs, PinRecs, NetRecs
  <2> QED BY <2>1, <2>2 DEF NoNetlist, Netlists
<1>3. /\ DOMAIN e.blocks = {} /\ DOMAIN e.ports = {} /\ DOMAIN e.pins = {} /\ DOMAIN e.nets = {}
      /\ \A x \in Name : e.blockOf[x] = 0 /\ e.netOf[x] = 0
  BY <1>1
<1> HIDE DEF e
<1>4. Typed(e) BY <1>2, <1>3 DEF Typed, InRange
<1>5. Structure(e) BY <1>3 DEF Structure
<1>6. Owned(e) /\ Netted(e) BY <1>3 DEF Owned, Netted
<1>7. BlocksNamed(e) /\ NetsNamed(e) BY <1>3 DEF BlocksNamed, NetsNamed
<1>8. Indexed(e) BY <1>3 DEF Indexed, IndicesAgree, Valid
<1>9. Fresh(e) BY <1>3 DEF Fresh, PortsFit, Plainly
<1>10. PadsNamed(e) /\ Pinned(e) BY <1>3 DEF PadsNamed, Pinned
<1>11. ReadOK(e) BY <1>4, <1>5, <1>6, <1>7, <1>8, <1>9, <1>10 DEF ReadOK, Good, Refs
<1> QED BY <1>1, <1>2, <1>11 DEF e

\* .cname makes no block.
LEMMA CnameBlocks ==
  ASSUME NEW s
  PROVE  DOMAIN Cname(nl, s).blocks = DOMAIN nl.blocks
<1>1. ASSUME NEW how PROVE DOMAIN Fail(nl, how).blocks = DOMAIN nl.blocks
  BY DEF Fail
<1>2. ASSUME NEW b, NEW name PROVE DOMAIN SetBlockName(nl, b, name).blocks = DOMAIN nl.blocks
  BY DEF SetBlockName, Fail
<1> QED BY <1>1, <1>2 DEF Cname

\* It holds when the program starts.
LEMMA CircuitInvInit == Init => CircuitInv
<1> SUFFICES ASSUME Init PROVE CircuitInv OBVIOUS
<1>1. /\ nl = NoNetlist /\ pos = 0 /\ cur = 0 /\ phase = "read" /\ luts = <<>>
      /\ opts \in Options /\ sound = FALSE
  BY DEF Init
<1>2. ReadOK(nl) /\ nl.error = "none" BY <1>1, EmptyIsGood
<1>3. Len(Statements) \in Nat BY StatementsAssumption DEF StatementsAssumption
<1>4. Kept
  <2>1. luts \in Seq(Nat) /\ DOMAIN luts = {} BY <1>1, EmptySeq
  <2>2. 0 \in 0..Len(Statements) /\ FALSE \in BOOLEAN BY <1>3
  <2> QED BY <1>1, <2>1, <2>2 DEF Kept
<1>5. Staged BY <1>1, <1>2 DEF Staged, CurrOK
<1> QED BY <1>2, <1>4, <1>5 DEF CircuitInv, ReadOK

\* A statement is read.
LEMMA ReadStep == CircuitInv /\ ReadStatement => CircuitInv'
<1> SUFFICES ASSUME CircuitInv, ReadStatement PROVE CircuitInv' OBVIOUS
<1>1. phase = "read" /\ nl.error = "none" /\ phase' = phase /\ luts' = luts /\ opts' = opts /\ sound' = sound
  BY DEF ReadStatement, Running
<1>2. PICK i \in pos + 1..Len(Statements) :
         /\ pos' = i
         /\ nl' = Callback(nl, Statements[i])
         /\ cur' = CurrBlock(nl', Statements[i])
  BY DEF ReadStatement
<1>3. Len(Statements) \in Nat /\ DOMAIN Statements = 1..Len(Statements)
  BY StatementsAssumption DEF StatementsAssumption
<1>4. Kept /\ Good(nl) /\ Staged BY <1>1 DEF CircuitInv, Running
<1>5. pos' \in 0..Len(Statements) /\ i \in DOMAIN Statements BY <1>2, <1>3, <1>4 DEF Kept
<1> DEFINE s == Statements[i]
<1>6. IsStatement(s) BY <1>5, StatementFacts
<1>7. nl' = Callback(nl, s) /\ cur' = CurrBlock(nl', s) BY <1>2
<1>8. ReadOK(nl) /\ CurrOK(nl, cur) BY <1>1, <1>4 DEF Staged
<1> HIDE DEF s
<1>9. ReadOK(nl') /\ CurrOK(nl', cur') BY <1>1, <1>6, <1>7, <1>8, CallbackRead
<1>10. Typed(nl') /\ Good(nl') BY <1>9 DEF ReadOK, Good
<1>11. cur' \in {0} \cup DOMAIN nl'.blocks
  <2>1. CASE s.op \in {"names", "latch", "subckt"}
    <3>1. cur' = nl'.blockOf[Plain(s.out)] BY <1>7, <2>1 DEF CurrBlock
    <3>2. Plain(s.out) \in Name BY <1>6, NamesAreNames DEF IsStatement
    <3> QED BY <1>10, <3>1, <3>2 DEF Typed, InRange
  <2>2. CASE s.op = "cname"
    <3>1. cur' = cur BY <1>7, <2>2 DEF CurrBlock
    <3>2. nl' = Cname(nl, s) BY <1>7, <2>2 DEF Callback
    <3>3. DOMAIN nl'.blocks = DOMAIN nl.blocks BY <3>2, CnameBlocks
    <3> QED BY <1>4, <3>1, <3>3 DEF Kept
  <2>3. CASE s.op \notin {"names", "latch", "subckt", "cname"}
    <3>1. cur' = 0 BY <1>7, <2>3 DEF CurrBlock
    <3> QED BY <3>1
  <2> QED BY <2>1, <2>2, <2>3
<1>12. luts = <<>> BY <1>1, <1>4 DEF Kept
<1>13. Kept'
  <2>1. opts \in Options /\ sound \in BOOLEAN /\ luts \in Seq(Nat) /\ DOMAIN luts = {}
    BY <1>4, <1>12 DEF Kept
  <2> QED BY <1>1, <1>5, <1>11, <1>12, <2>1 DEF Kept
<1>14. Staged' BY <1>1, <1>9 DEF Staged
<1> QED BY <1>10, <1>13, <1>14 DEF CircuitInv, Running

\* The file ends.
LEMMA EndStep == CircuitInv /\ EndModel => CircuitInv'
<1> SUFFICES ASSUME CircuitInv, EndModel PROVE CircuitInv' OBVIOUS
<1>1. /\ phase = "read" /\ nl.error = "none" /\ nl' = MarkConstants(nl) /\ cur' = 0
      /\ (sound' <=> Sound(nl')) /\ sound' \in BOOLEAN
      /\ phase' \in {"identify", "unconn"} /\ pos' = pos /\ luts' = luts /\ opts' = opts
  <2>1. phase' \in {"identify", "unconn"} BY DEF EndModel
  <2>2. sound' = Sound(nl') BY DEF EndModel
  <2>3. Sound(nl') \in BOOLEAN BY DEF Sound
  <2>4. (sound' <=> Sound(nl')) /\ sound' \in BOOLEAN BY <2>2, <2>3
  <2> QED BY <2>1, <2>4 DEF EndModel, Running
<1>2. Kept /\ Staged BY <1>1 DEF CircuitInv, Running
<1>3. ReadOK(nl) BY <1>1, <1>2 DEF Staged
<1>4. /\ Good(nl') /\ nl'.error = "none" /\ DOMAIN nl'.blocks = DOMAIN nl.blocks
      /\ Owning(nl') /\ Connected(nl') /\ PortsFit(nl') /\ PadsNamed(nl') /\ Pinned(nl') /\ Plainly(nl')
  BY <1>1, <1>3, MarkConstantsEffect
<1>5. luts = <<>> BY <1>1, <1>2 DEF Kept
<1>6. Kept'
  <2>1. opts \in Options /\ pos \in 0..Len(Statements) /\ luts \in Seq(Nat) /\ DOMAIN luts = {}
    BY <1>2, <1>5 DEF Kept
  <2>2. phase' # "read" /\ phase' # "absorb" BY <1>1
  <2> QED BY <1>1, <1>5, <2>1, <2>2 DEF Kept
<1>7. sound' => Whole(nl')
  <2> SUFFICES ASSUME Sound(nl') PROVE Whole(nl') BY <1>1
  <2>1. \A p \in Valid(nl'.pins) : ValidId(nl'.nets, nl'.pins[p].net) BY DEF Sound
  <2> QED BY <2>1 DEF Whole, ValidId, Valid
<1>8. Staged'
  <2>1. Absorbable(nl') BY <1>4 DEF Absorbable
  <2>2. Clean(nl') /\ Plainly(nl') BY <1>4 DEF Clean
  <2> QED BY <1>1, <1>7, <2>1, <2>2 DEF Staged
<1> QED BY <1>4, <1>6, <1>8 DEF CircuitInv

\* Stages that change the netlist and no list
Onward(ph) ==
  /\ phase' = ph /\ pos' = pos /\ cur' = cur /\ luts' = luts /\ opts' = opts /\ sound' = sound

\* A step to the next stage keeps them.
LEMMA OnwardKept ==
  ASSUME Kept, phase # "read", luts = <<>>, NEW ph, Onward(ph),
         ph \in {"unconn", "sweep", "fix", "compress", "verify", "done"}
  PROVE  Kept'
<1>1. phase' = ph /\ pos' = pos /\ cur' = cur /\ luts' = luts /\ opts' = opts /\ sound' = sound
  BY DEF Onward
<1>2. /\ pos \in 0..Len(Statements) /\ opts \in Options /\ sound \in BOOLEAN
      /\ cur = 0 /\ luts \in Seq(Nat)
  BY DEF Kept
<1>3. DOMAIN luts = {} OBVIOUS
<1> QED BY <1>1, <1>2, <1>3 DEF Kept

\* Buffers are listed.
LEMMA IdentifyStep == CircuitInv /\ IdentifyBuffers => CircuitInv'
<1> SUFFICES ASSUME CircuitInv, IdentifyBuffers PROVE CircuitInv' OBVIOUS
<1>1. /\ phase = "identify" /\ nl.error = "none" /\ phase' = "absorb"
      /\ pos' = pos /\ cur' = cur /\ opts' = opts /\ sound' = sound
      /\ \/ nl' = Fail(nl, "assert") /\ luts' = luts
         \/ nl' = nl /\ luts' = Ascending(Buffers(nl))
  BY DEF IdentifyBuffers, Running
<1>2. Good(nl) /\ Typed(nl) /\ nl \in Netlists /\ Kept /\ Staged BY <1>1 DEF CircuitInv, Running, Good, Typed
<1>3. /\ Absorbable(nl) /\ luts = <<>> /\ (sound => Whole(nl)) /\ cur = 0
      /\ pos \in 0..Len(Statements) /\ opts \in Options /\ sound \in BOOLEAN
  BY <1>1, <1>2 DEF Staged, Kept
<1>4. CASE nl' = Fail(nl, "assert") /\ luts' = luts
  <2>1. Good(nl') /\ nl'.error # "none" BY <1>2, <1>4, FailIsGood
  <2>2. luts' \in Seq(Nat) /\ DOMAIN luts' = {} BY <1>3, <1>4, EmptySeq
  <2>3. Kept' BY <1>1, <1>3, <2>2 DEF Kept
  <2> QED BY <2>1, <2>3 DEF CircuitInv, Running
<1>5. CASE nl' = nl /\ luts' = Ascending(Buffers(nl))
  <2> DEFINE K == Buffers(nl)
             a == Ascending(K)
  <2>1. Len(nl.blocks) \in Nat /\ DOMAIN nl.blocks = 1..Len(nl.blocks) BY <1>2, Shape
  <2>2. K \subseteq DOMAIN nl.blocks BY DEF Buffers, Valid
  <2>3. K \in SUBSET (1..Len(nl.blocks)) BY <2>1, <2>2
  <2> HIDE DEF K
  <2>4. a \in Seq(Nat) /\ Single(a) /\ \A k \in DOMAIN a : a[k] \in K BY <2>1, <2>3, AscendingFacts
  <2>5. luts' = a BY <1>5 DEF K
  <2> HIDE DEF a
  <2>6. luts' \in Seq(Nat) /\ \A i \in DOMAIN luts' : luts'[i] \in DOMAIN nl'.blocks
    BY <1>5, <2>2, <2>4, <2>5
  <2>7. Kept' BY <1>1, <1>3, <2>6 DEF Kept
  <2>8. \A i \in DOMAIN luts' : luts'[i] \in Buffers(nl') BY <1>5, <2>4, <2>5 DEF K
  <2>9. Single(luts') BY <2>4, <2>5
  <2>10. Absorbable(nl') /\ (sound' => Whole(nl')) /\ Good(nl') BY <1>1, <1>2, <1>3, <1>5
  <2>11. Staged' BY <1>1, <2>8, <2>9, <2>10 DEF Staged
  <2> QED BY <2>7, <2>10, <2>11 DEF CircuitInv
<1> QED BY <1>1, <1>4, <1>5

\* The rest of a list
LEMMA TailOfSingle ==
  ASSUME NEW s \in Seq(Nat), s # <<>>, Single(s), \A i \in DOMAIN s : s[i] # 0
  PROVE  /\ Tail(s) \in Seq(Nat) /\ Single(Tail(s))
         /\ Head(s) = s[1] /\ 1 \in DOMAIN s
         /\ \A i \in DOMAIN Tail(s) : i + 1 \in DOMAIN s /\ Tail(s)[i] = s[i + 1] /\ Tail(s)[i] # Head(s)
<1>1. /\ Tail(s) \in Seq(Nat) /\ Len(Tail(s)) = Len(s) - 1 /\ Len(s) \in Nat /\ Len(s) >= 1
      /\ \A i \in 1..Len(Tail(s)) : Tail(s)[i] = s[i + 1]
      /\ Head(s) = s[1]
  BY HeadTailProperties
<1>2. DOMAIN s = 1..Len(s) /\ DOMAIN Tail(s) = 1..Len(Tail(s)) BY <1>1
<1>3. 1 \in DOMAIN s BY <1>1, <1>2
<1>4. \A i \in DOMAIN Tail(s) : i + 1 \in DOMAIN s /\ Tail(s)[i] = s[i + 1] /\ i + 1 # 1 /\ i \in Int
  BY <1>1, <1>2
<1>5. \A i \in DOMAIN Tail(s) : Tail(s)[i] # Head(s)
  <2> TAKE i \in DOMAIN Tail(s)
  <2> DEFINE h == i + 1
  <2>1. h \in DOMAIN s /\ Tail(s)[i] = s[h] /\ h # 1 BY <1>4
  <2> HIDE DEF h
  <2>2. s[h] # s[1] BY <2>1, <1>3 DEF Single
  <2> QED BY <2>1, <2>2, <1>1
<1>6. Single(Tail(s))
  <2> SUFFICES ASSUME NEW i \in DOMAIN Tail(s), NEW j \in DOMAIN Tail(s), Tail(s)[i] = Tail(s)[j]
               PROVE  i = j
    BY DEF Single
  <2> DEFINE h == i + 1
             k == j + 1
  <2>1. h \in DOMAIN s /\ k \in DOMAIN s /\ s[h] = s[k] BY <1>4
  <2>2. h = k
    <3> HIDE DEF h, k
    <3> QED BY <2>1 DEF Single
  <2> QED BY <2>2, <1>4
<1> QED BY <1>1, <1>3, <1>4, <1>5, <1>6

\* A buffer is absorbed.
LEMMA AbsorbStep == CircuitInv /\ AbsorbBuffer => CircuitInv'
<1> SUFFICES ASSUME CircuitInv, AbsorbBuffer PROVE CircuitInv' OBVIOUS
<1>1. /\ phase = "absorb" /\ nl.error = "none" /\ phase' = phase /\ luts # <<>>
      /\ pos' = pos /\ cur' = cur /\ opts' = opts /\ sound' = sound
      /\ nl' = RemoveBufferLut(nl, Head(luts)) /\ luts' = Tail(luts)
  BY DEF AbsorbBuffer, Running
<1>2. Good(nl) /\ Typed(nl) /\ nl \in Netlists /\ Kept /\ Staged BY <1>1 DEF CircuitInv, Running, Good, Typed
<1>3. /\ Absorbable(nl) /\ (sound => Whole(nl)) /\ cur = 0 /\ Single(luts)
      /\ \A i \in DOMAIN luts : luts[i] \in Buffers(nl)
      /\ luts \in Seq(Nat) /\ \A i \in DOMAIN luts : luts[i] \in DOMAIN nl.blocks
      /\ pos \in 0..Len(Statements) /\ opts \in Options /\ sound \in BOOLEAN
  BY <1>1, <1>2 DEF Staged, Kept
<1>4. 0 \notin DOMAIN nl.blocks BY <1>2, ZeroIsNoId
<1>5. /\ Tail(luts) \in Seq(Nat) /\ Single(Tail(luts))
      /\ Head(luts) = luts[1] /\ 1 \in DOMAIN luts
      /\ \A i \in DOMAIN Tail(luts) :
            i + 1 \in DOMAIN luts /\ Tail(luts)[i] = luts[i + 1] /\ Tail(luts)[i] # Head(luts)
  <2>1. \A i \in DOMAIN luts : luts[i] # 0 BY <1>3, <1>4
  <2> QED BY <1>1, <1>3, <2>1, TailOfSingle
<1> DEFINE b == Head(luts)
<1>6. b \in Buffers(nl) BY <1>3, <1>5
<1>7. nl' = RemoveBufferLut(nl, b) BY <1>1
<1> HIDE DEF b
<1>8. /\ Good(nl') /\ DOMAIN nl'.blocks = DOMAIN nl.blocks
      /\ nl'.error = "none" => /\ Absorbable(nl') /\ Buffers(nl) \ {b} \subseteq Buffers(nl')
                               /\ Whole(nl) => Whole(nl')
  BY <1>1, <1>2, <1>3, <1>6, <1>7, RemoveBufferLutEffect
<1>9. \A i \in DOMAIN luts' : luts'[i] \in DOMAIN nl'.blocks /\ luts'[i] \in Buffers(nl) \ {b}
  <2> SUFFICES ASSUME NEW i \in DOMAIN luts'
               PROVE luts'[i] \in DOMAIN nl'.blocks /\ luts'[i] \in Buffers(nl) \ {b}
    OBVIOUS
  <2>1. i + 1 \in DOMAIN luts /\ luts'[i] = luts[i + 1] /\ luts'[i] # b BY <1>1, <1>5 DEF b
  <2> QED BY <2>1, <1>3, <1>8
<1>10. luts' \in Seq(Nat) /\ Single(luts') BY <1>1, <1>5
<1>11. Kept' BY <1>1, <1>3, <1>9, <1>10 DEF Kept
<1>12. nl'.error = "none" => Staged'
  <2> HAVE nl'.error = "none"
  <2>1. \A i \in DOMAIN luts' : luts'[i] \in Buffers(nl') BY <1>8, <1>9
  <2>2. Absorbable(nl') /\ (sound' => Whole(nl')) BY <1>1, <1>3, <1>8
  <2> QED BY <1>1, <1>10, <2>1, <2>2 DEF Staged
<1> QED BY <1>8, <1>11, <1>12 DEF CircuitInv, Running

\* The net and the block called 'unconn' go.
LEMMA DropStep == CircuitInv /\ DropUnconn => CircuitInv'
<1> SUFFICES ASSUME CircuitInv, DropUnconn PROVE CircuitInv' OBVIOUS
<1> DEFINE x == Plain("unconn")
           bare == RemoveNets(nl, Found(nl.netOf, x))
<1>1. /\ phase = "unconn" \/ (phase = "absorb" /\ luts = <<>>)
      /\ nl.error = "none" /\ Onward("sweep")
      /\ nl' = RemoveBlocks(bare, Found(bare.blockOf, x))
  BY DEF DropUnconn, Running, Onward, Found
<1>2. Good(nl) /\ Kept /\ Staged BY <1>1 DEF CircuitInv, Running
<1>3. Clean(nl) /\ Plainly(nl) BY <1>1, <1>2 DEF Staged, Absorbable, Clean
<1>4. luts = <<>> /\ phase # "read" BY <1>1, <1>2 DEF Kept
<1>5. sound => Whole(nl) BY <1>2, <1>4 DEF Staged
<1> HIDE DEF x
<1>6. /\ Good(nl') /\ nl'.error = "none" /\ Clean(nl')
      /\ (Whole(nl) => Whole(nl')) /\ (Plainly(nl) => Plainly(nl'))
  <2>1. bare = RemoveNets(nl, Found(nl.netOf, x)) OBVIOUS
  <2>2. nl' = RemoveBlocks(bare, Found(bare.blockOf, x)) BY <1>1
  <2>3. Good(nl) /\ nl.error = "none" /\ Clean(nl) BY <1>1, <1>2, <1>3
  <2> HIDE DEF bare
  <2> QED BY ONLY <2>1, <2>2, <2>3, UnconnDropped
<1>7. Kept' BY <1>1, <1>2, <1>4, OnwardKept
<1>8. Staged' BY <1>1, <1>3, <1>5, <1>6 DEF Staged, Onward
<1> QED BY <1>6, <1>7, <1>8 DEF CircuitInv

\* A sweep pass
LEMMA SweepStep == CircuitInv /\ Sweep => CircuitInv' /\ Swept(nl, nl')
<1> SUFFICES ASSUME CircuitInv, Sweep PROVE CircuitInv' /\ Swept(nl, nl') OBVIOUS
<1>1. phase = "sweep" /\ nl.error = "none" /\ nl' = SweepPass(nl) BY DEF Sweep, Running
<1>2. PICK ph \in {"sweep", "fix"} : Onward(ph) BY DEF Sweep, Onward
<1>3. Good(nl) /\ Kept /\ Staged BY <1>1 DEF CircuitInv, Running
<1>4. Clean(nl) /\ Plainly(nl) /\ (sound => Whole(nl)) BY <1>1, <1>3 DEF Staged
<1>5. luts = <<>> /\ phase # "read" BY <1>1, <1>3 DEF Kept
<1>6. Swept(nl, nl') BY <1>1, <1>3, <1>4, SweepPassEffect
<1>7. /\ Good(nl') /\ nl'.error = "none" /\ Clean(nl')
      /\ (Whole(nl) => Whole(nl')) /\ (Plainly(nl) => Plainly(nl'))
  BY <1>6 DEF Swept
<1>8. Kept' BY <1>2, <1>3, <1>5, OnwardKept
<1>9. Staged' BY <1>2, <1>4, <1>7 DEF Staged, Onward
<1> QED BY <1>6, <1>7, <1>8, <1>9 DEF CircuitInv

\* Clocks used as data are fixed.
LEMMA FixStep == CircuitInv /\ FixClockToData => CircuitInv'
<1> SUFFICES ASSUME CircuitInv, FixClockToData PROVE CircuitInv' OBVIOUS
<1>1. phase = "fix" /\ nl.error = "none" /\ nl' = FixClocks(nl) /\ Onward("compress")
  BY DEF FixClockToData, Running, Onward
<1>2. Good(nl) /\ Kept /\ Staged BY <1>1 DEF CircuitInv, Running
<1>3. Clean(nl) /\ Plainly(nl) /\ (sound => Whole(nl)) BY <1>1, <1>2 DEF Staged
<1>4. luts = <<>> /\ phase # "read" BY <1>1, <1>2 DEF Kept
<1>5. /\ Good(nl')
      /\ nl'.error = "none" => Clean(nl') /\ (Whole(nl) => Whole(nl')) /\ ClocksApart(nl')
  BY <1>1, <1>2, <1>3, FixClocksEffect
<1>6. Kept' BY <1>1, <1>2, <1>4, OnwardKept
<1>7. nl'.error = "none" => Staged' BY <1>1, <1>3, <1>5 DEF Staged, Onward
<1> QED BY <1>5, <1>6, <1>7 DEF CircuitInv, Running

\* What is not used goes, and the rest is numbered again.
LEMMA CompressStep ==
  CircuitInv /\ RemoveAndCompress =>
    CircuitInv' /\ (nl'.error = "none" => Connections(nl') = Connections(nl))
<1> SUFFICES ASSUME CircuitInv, RemoveAndCompress
             PROVE  CircuitInv' /\ (nl'.error = "none" => Connections(nl') = Connections(nl))
  OBVIOUS
<1>1. phase = "compress" /\ nl.error = "none" /\ nl' = Compress(RemoveUnused(nl)) /\ Onward("verify")
  BY DEF RemoveAndCompress, Running, Onward
<1>2. Good(nl) /\ Kept /\ Staged BY <1>1 DEF CircuitInv, Running
<1>3. Clean(nl) /\ ClocksApart(nl) BY <1>1, <1>2 DEF Staged
<1>4. luts = <<>> /\ phase # "read" BY <1>1, <1>2 DEF Kept
<1>5. PortsFit(nl) /\ PadsNamed(nl) /\ Pinned(nl) BY <1>3 DEF Clean
<1>6. Good(nl') BY <1>1, <1>2, <1>5, RemoveAndCompressEffect
<1>7. nl'.error = "none" =>
        /\ Full(nl') /\ Whole(nl') /\ PortsFit(nl') /\ PadsNamed(nl')
        /\ ClocksApart(nl) => ClocksApart(nl')
        /\ Connections(nl') = Connections(nl)
  BY <1>1, <1>2, <1>5, RemoveAndCompressEffect
<1>8. Kept' BY <1>1, <1>2, <1>4, OnwardKept
<1>9. nl'.error = "none" => Staged' BY <1>1, <1>3, <1>7 DEF Staged, Onward
<1> QED BY <1>6, <1>7, <1>8, <1>9 DEF CircuitInv, Running

\* The result is verified.
LEMMA VerifyStep == CircuitInv /\ VerifyCircuit => CircuitInv'
<1> SUFFICES ASSUME CircuitInv, VerifyCircuit PROVE CircuitInv' OBVIOUS
<1>1. phase = "verify" /\ nl.error = "none" /\ nl' = Verify(nl) /\ Onward("done")
  BY DEF VerifyCircuit, Running, Onward
<1>2. Good(nl) /\ Kept /\ Staged BY <1>1 DEF CircuitInv, Running
<1>3. Full(nl) /\ Whole(nl) /\ PortsFit(nl) /\ PadsNamed(nl) /\ ClocksApart(nl) BY <1>1, <1>2 DEF Staged
<1>4. luts = <<>> /\ phase # "read" BY <1>1, <1>2 DEF Kept
<1>5. Good(nl') /\ (nl'.error = "none" => nl' = nl) BY <1>1, <1>2, VerifyEffect
<1>6. Kept' BY <1>1, <1>2, <1>4, OnwardKept
<1>7. nl'.error = "none" => Staged' BY <1>1, <1>3, <1>5 DEF Staged, Onward
<1> QED BY <1>5, <1>6, <1>7 DEF CircuitInv, Running

\* Every step preserves it.
LEMMA CircuitInvNext == CircuitInv /\ [Next]_vars => CircuitInv'
<1> SUFFICES ASSUME CircuitInv, [Next]_vars PROVE CircuitInv' OBVIOUS
<1>1. CASE UNCHANGED vars
  BY <1>1 DEF vars, CircuitInv, Kept, Staged, Running
<1>2. CASE ReadStatement BY <1>2, ReadStep
<1>3. CASE EndModel BY <1>3, EndStep
<1>4. CASE IdentifyBuffers BY <1>4, IdentifyStep
<1>5. CASE AbsorbBuffer BY <1>5, AbsorbStep
<1>6. CASE DropUnconn BY <1>6, DropStep
<1>7. CASE Sweep BY <1>7, SweepStep
<1>8. CASE FixClockToData BY <1>8, FixStep
<1>9. CASE RemoveAndCompress BY <1>9, CompressStep
<1>10. CASE VerifyCircuit BY <1>10, VerifyStep
<1> QED BY <1>1, <1>2, <1>3, <1>4, <1>5, <1>6, <1>7, <1>8, <1>9, <1>10 DEF Next

\* The inductive invariant: whatever file is read, with whatever options, through
\* read_blif(), buffer absorption, sweeping, clock fixing, compression and
\* verification, the netlist's entries agree with one another as far as the code
\* promises in each stage.
THEOREM CircuitInvariant == Spec => []CircuitInv
<1>1. Init => CircuitInv BY CircuitInvInit
<1>2. CircuitInv /\ [Next]_vars => CircuitInv' BY CircuitInvNext
<1> QED BY <1>1, <1>2, PTL DEF Spec
-----------------------------------------------------------------------------
(* What the invariant says of the properties.                              *)

\* Blocks, ports and pins of a good netlist agree.
LEMMA GoodOwners ==
  ASSUME NEW n, Good(n), n.error = "none"
  PROVE  OwnersAgree(n) /\ BitsAscend(n)
<1>0. n \in Netlists /\ InRange(n) /\ Structure(n) /\ Owned(n) BY DEF Good, Refs, Typed
<1>1. ASSUME NEW q \in Valid(n.ports)
      PROVE  {b \in Valid(n.blocks) : q \in n.blocks[b].ports} = {n.ports[q].block}
  <2>1. q \in DOMAIN n.ports /\ n.ports[q].valid BY DEF Valid
  <2>2. n.ports[q].block \in Valid(n.blocks) BY <2>1, <1>0 DEF InRange, Owned, Valid
  <2>3. \A b \in DOMAIN n.blocks : q \in n.blocks[b].ports <=> n.ports[q].block = b
    BY <2>1, <1>0 DEF Structure
  <2> QED BY <2>2, <2>3 DEF Valid
<1>2. ASSUME NEW p \in Valid(n.pins)
      PROVE  {q \in Valid(n.ports) : p \in ToSet(n.ports[q].pins)} = {n.pins[p].port}
  <2>1. p \in DOMAIN n.pins /\ n.pins[p].valid BY DEF Valid
  <2>2. n.pins[p].port \in Valid(n.ports) BY <2>1, <1>0 DEF InRange, Owned, Valid
  <2>3. \A q \in DOMAIN n.ports :
          (\E i \in DOMAIN n.ports[q].pins : n.ports[q].pins[i] = p) <=> n.pins[p].port = q
    BY <2>1, <1>0 DEF Structure
  <2>4. \A q \in DOMAIN n.ports : p \in ToSet(n.ports[q].pins) <=> n.pins[p].port = q
    BY <2>3 DEF ToSet
  <2> QED BY <2>2, <2>4 DEF Valid
<1>3. \A b \in Valid(n.blocks) : \A p \in Valid(n.pins) : p \in n.blocks[b].pins <=> PinBlock(n, p) = b
  BY <1>0 DEF Structure, Valid
<1>4. OwnersAgree(n) BY <1>1, <1>2, <1>3 DEF OwnersAgree
<1>5. BitsAscend(n) BY Zenon, <1>0 DEF Structure, BitsAscend, Valid
<1> QED BY <1>4, <1>5

\* So do nets and pins, unless a pin names a net that is gone.
LEMMA GoodNets ==
  ASSUME NEW n, Good(n), n.error = "none", Whole(n)
  PROVE  NetsAgree(n)
<1>0. n \in Netlists /\ InRange(n) /\ Netted(n) BY DEF Good, Refs, Typed
<1>1. ASSUME NEW k \in Valid(n.nets), NEW i \in DOMAIN n.nets[k].pins
      PROVE  \/ i = 1 /\ n.nets[k].pins[i] = 0
             \/ /\ ValidId(n.pins, n.nets[k].pins[i]) /\ n.pins[n.nets[k].pins[i]].net = k
                /\ IsSink(n, n.nets[k].pins[i]) <=> i > 1
  <2>1. PlaceOK(n, k, i) BY Zenon, <1>0 DEF Netted, Valid
  <2> QED BY <2>1 DEF PlaceOK, ValidId, Valid
<1>2. ASSUME NEW p \in Valid(n.pins), n.pins[p].net # 0
      PROVE  /\ ValidId(n.nets, n.pins[p].net)
             /\ Cardinality({i \in DOMAIN n.nets[n.pins[p].net].pins :
                               n.nets[n.pins[p].net].pins[i] = p}) = 1
  <2> DEFINE k == n.pins[p].net
             s == n.nets[k].pins
  <2>1. p \in DOMAIN n.pins /\ n.pins[p].valid BY DEF Valid
  <2>2. k \in DOMAIN n.nets /\ n.nets[k].valid BY <1>0, <1>2, <2>1 DEF InRange, Whole
  <2>3. PinOK(n, p) BY Zenon, <1>0, <2>1 DEF Netted
  <2>4. PICK i \in DOMAIN s : s[i] = p BY Zenon, <1>2, <2>2, <2>3 DEF PinOK
  <2>5. Single(s) /\ p # 0 BY Zenon, <1>0, <2>1, <2>2, ZeroIsNoId DEF Netted
  <2>6. {j \in DOMAIN s : s[j] = p} = {i} BY <2>4, <2>5 DEF Single
  <2>7. Cardinality({i}) = 1 BY FS_Singleton
  <2>8. ValidId(n.nets, k) BY <2>2 DEF ValidId, Valid
  <2> QED BY <2>6, <2>7, <2>8
<1> QED BY <1>1, <1>2 DEF NetsAgree

\* Names and bits find what bears them.
LEMMA GoodLookups ==
  ASSUME NEW n, Good(n), n.error = "none"
  PROVE  LookupsAgree(n) /\ PortLookupsAgree(n)
<1>0. /\ n \in Netlists /\ InRange(n) /\ Structure(n) /\ Owned(n) /\ BlocksNamed(n) /\ NetsNamed(n)
      /\ 0 \notin DOMAIN n.blocks /\ 0 \notin DOMAIN n.nets
  BY ZeroIsNoId DEF Good, Refs, Typed
<1>1. ASSUME NEW x \in Name
      PROVE  {b \in Valid(n.blocks) : n.blocks[b].name = x} = {n.blockOf[x]} \ {0}
  <2>1. n.blockOf[x] # 0 => /\ n.blockOf[x] \in DOMAIN n.blocks /\ n.blocks[n.blockOf[x]].valid
                            /\ n.blocks[n.blockOf[x]].name = x
    BY <1>0 DEF BlocksNamed, InRange
  <2>2. \A b \in DOMAIN n.blocks : n.blocks[b].valid /\ n.blocks[b].name = x => n.blockOf[x] = b
    BY <1>0 DEF BlocksNamed
  <2> QED BY <1>0, <2>1, <2>2 DEF Valid
<1>2. ASSUME NEW x \in Name
      PROVE  {k \in Valid(n.nets) : n.nets[k].name = x} = {n.netOf[x]} \ {0}
  <2>1. n.netOf[x] # 0 => /\ n.netOf[x] \in DOMAIN n.nets /\ n.nets[n.netOf[x]].valid
                          /\ n.nets[n.netOf[x]].name = x
    BY <1>0 DEF NetsNamed, InRange
  <2>2. \A k \in DOMAIN n.nets : n.nets[k].valid /\ n.nets[k].name = x => n.netOf[x] = k
    BY <1>0 DEF NetsNamed
  <2> QED BY <1>0, <2>1, <2>2 DEF Valid
<1>3. ASSUME NEW q \in Valid(n.ports)
      PROVE  {r \in n.blocks[n.ports[q].block].ports : n.ports[r].name = n.ports[q].name} = {q}
  <2> DEFINE b == n.ports[q].block
  <2>1. q \in DOMAIN n.ports /\ b \in DOMAIN n.blocks BY <1>0 DEF Valid, InRange
  <2>2. n.blocks[b].ports \subseteq DOMAIN n.ports BY <2>1, <1>0 DEF InRange
  <2>3. \A r \in DOMAIN n.ports : r \in n.blocks[b].ports <=> n.ports[r].block = b
    BY <2>1, <1>0 DEF Structure
  <2>4. \A r \in DOMAIN n.ports : n.ports[r].block = b /\ n.ports[r].name = n.ports[q].name => r = q
    BY <2>1, <1>0 DEF Structure
  <2> HIDE DEF b
  <2>5. n.ports[q].block = b BY DEF b
  <2> QED BY <2>1, <2>2, <2>3, <2>4, <2>5
<1>4. ASSUME NEW p \in Valid(n.pins)
      PROVE  {r \in ToSet(n.ports[n.pins[p].port].pins) : n.pins[r].bit = n.pins[p].bit} = {p}
  <2> DEFINE q == n.pins[p].port
             s == n.ports[q].pins
  <2>1. p \in DOMAIN n.pins /\ q \in DOMAIN n.ports BY <1>0 DEF Valid, InRange
  <2>2. PICK i \in DOMAIN s : s[i] = p BY SMTT(30), <2>1, <1>0 DEF Structure
  <2>3. \A j, k \in DOMAIN s : j < k => n.pins[s[j]].bit < n.pins[s[k]].bit
    BY <2>1, <1>0 DEF Structure
  <2>4. s \in Seq(Nat) /\ \A j \in DOMAIN s : s[j] \in DOMAIN n.pins BY <2>1, <1>0, FieldTypes DEF InRange
  <2>5. \A j \in DOMAIN s : j \in Nat
    <3>1. \A t \in Seq(Nat) : \A j \in DOMAIN t : j \in Nat OBVIOUS
    <3> HIDE DEF s
    <3> QED BY <2>4, <3>1
  <2>6. \A r \in DOMAIN n.pins : n.pins[r].bit \in Int
    <3>1. \A r \in DOMAIN n.pins : n.pins[r].bit \in 0..LutInputs - 1 BY <1>0, FieldTypes
    <3> QED BY <3>1, LutInputsAssumption
  <2> HIDE DEF s, q
  <2>7. ASSUME NEW j \in DOMAIN s, n.pins[s[j]].bit = n.pins[p].bit PROVE s[j] = p
    <3>1. ~(i < j) /\ ~(j < i)
      <4>1. n.pins[s[i]].bit \in Int /\ n.pins[s[i]].bit = n.pins[s[j]].bit BY <2>1, <2>2, <2>6, <2>7
      <4> QED BY <4>1, <2>3
    <3>2. i = j BY <3>1, <2>5
    <3> QED BY <3>2, <2>2
  <2>8. {r \in ToSet(s) : n.pins[r].bit = n.pins[p].bit} = {p} BY <2>2, <2>7 DEF ToSet
  <2> QED BY <2>8 DEF s, q
<1>5. LookupsAgree(n) BY <1>1, <1>2 DEF LookupsAgree
<1>6. PortLookupsAgree(n) BY <1>3, <1>4 DEF PortLookupsAgree
<1> QED BY <1>5, <1>6

\* Types: every id names an entry of its table.
LEMMA InvGivesTypes == CircuitInv => TypeOK
<1> SUFFICES ASSUME CircuitInv PROVE TypeOK OBVIOUS
<1>1. Typed(nl) /\ Kept BY DEF CircuitInv, Good
<1>2. NetlistType(nl) BY <1>1, TypedNetlist
<1>3. ToSet(luts) \subseteq DOMAIN nl.blocks BY <1>1 DEF Kept, ToSet
<1> QED BY <1>1, <1>2, <1>3 DEF TypeOK, Kept

\* No pin names a net that is gone: what merge_nets() is meant to see to.
LEMMA KeptSinksWhole ==
  ASSUME CircuitInv, Running, MergeKeepsSinks
  PROVE  Whole(nl)
<1>1. \A p \in Valid(nl.pins) : nl.pins[p].net # 0 => ValidId(nl.nets, nl.pins[p].net)
  BY DEF MergeKeepsSinks
<1> QED BY <1>1 DEF Whole, ValidId, Valid

\* References agree, if no merge has lost a sink.
LEMMA InvGivesRefs == CircuitInv => (MergeKeepsSinks => RefsAgree)
<1> SUFFICES ASSUME CircuitInv, MergeKeepsSinks, Running
             PROVE  /\ OwnersAgree(nl) /\ BitsAscend(nl)
                    /\ NetsAgree(nl) /\ LookupsAgree(nl) /\ PortLookupsAgree(nl)
  BY DEF RefsAgree
<1>1. Good(nl) /\ nl.error = "none" BY DEF CircuitInv, Running
<1>2. Whole(nl) BY KeptSinksWhole
<1> QED BY <1>1, <1>2, GoodOwners, GoodNets, GoodLookups

\* A circuit that met the clean-up's assumptions has no such pin at any stage.
LEMMA InvGivesSinks == CircuitInv => (phase # "read" /\ sound => MergeKeepsSinks /\ RefsAgree)
<1> SUFFICES ASSUME CircuitInv, phase # "read", sound PROVE MergeKeepsSinks /\ RefsAgree OBVIOUS
<1>1. MergeKeepsSinks
  <2> SUFFICES ASSUME Running, NEW p \in Valid(nl.pins), nl.pins[p].net # 0
               PROVE  ValidId(nl.nets, nl.pins[p].net)
    BY DEF MergeKeepsSinks
  <2>1. Whole(nl) /\ InRange(nl) BY DEF CircuitInv, Staged, Good, Typed
  <2>2. p \in DOMAIN nl.pins /\ nl.pins[p].valid BY DEF Valid
  <2> QED BY <2>1, <2>2 DEF Whole, InRange, ValidId, Valid
<1> QED BY <1>1, InvGivesRefs

\* Indices agree on a netlist that is not dirty.
LEMMA InvGivesIndices == CircuitInv => CleanIndices
<1> SUFFICES ASSUME CircuitInv, Running, ~nl.dirty PROVE IndicesAgree(nl) BY DEF CleanIndices
<1>1. Indexed(nl) BY DEF CircuitInv, Running, Good, Refs
<1> QED BY <1>1 DEF Indexed

\* In every stage of the clean-up, what is left of a removed block was removed.
LEMMA StagedOwning ==
  ASSUME CircuitInv, Running, phase # "read"
  PROVE  Owning(nl) /\ PadsNamed(nl) /\ PortsFit(nl)
<1>1. Staged /\ Kept BY DEF CircuitInv
<1>2. CASE phase \in {"identify", "absorb"} BY <1>1, <1>2 DEF Staged, Absorbable
<1>3. CASE phase \in {"unconn", "sweep", "fix"} BY <1>1, <1>3 DEF Staged, Clean
<1>4. CASE phase = "compress" BY <1>1, <1>4 DEF Staged, Clean
<1>5. CASE phase \in {"verify", "done"}
  <2>1. Full(nl) /\ PadsNamed(nl) /\ PortsFit(nl) BY <1>1, <1>5 DEF Staged
  <2> QED BY <2>1 DEF Full, Owning
<1> QED BY <1>1, <1>2, <1>3, <1>4, <1>5 DEF Kept

\* Input pads' nets bear the pads' names.
LEMMA InvGivesInputNames == CircuitInv => InputNamesKept
<1> SUFFICES ASSUME CircuitInv, phase # "read", Running,
                    NEW b \in OfModel(nl, {"input"}), NEW p \in BlockPins(nl, b, "out"), nl.pins[p].net # 0
             PROVE  nl.nets[nl.pins[p].net].name = nl.blocks[b].name
  BY DEF InputNamesKept
<1>1. Owning(nl) /\ PadsNamed(nl) BY StagedOwning
<1>2. InRange(nl) /\ Structure(nl) BY DEF CircuitInv, Running, Good, Refs, Typed
<1>3. b \in DOMAIN nl.blocks /\ nl.blocks[b].valid /\ nl.blocks[b].model = "input" BY DEF OfModel, Valid
<1>4. p \in nl.blocks[b].pins /\ nl.ports[nl.pins[p].port].name = "out" BY DEF BlockPins
<1>5. p \in DOMAIN nl.pins BY <1>2, <1>3, <1>4 DEF InRange
<1>6. PinBlock(nl, p) = b BY <1>2, <1>3, <1>4, <1>5 DEF Structure
<1>7. nl.pins[p].port \in DOMAIN nl.ports BY <1>2, <1>5 DEF InRange
<1>8. nl.ports[nl.pins[p].port].valid BY <1>1, <1>3, <1>6, <1>7 DEF Owning, PinBlock
<1>9. nl.pins[p].valid BY <1>1, <1>5, <1>8 DEF Owning
<1>10. ~IsSink(nl, p) BY <1>4 DEF IsSink
<1> QED BY <1>1, <1>3, <1>5, <1>6, <1>9, <1>10 DEF PadsNamed

\* A net on which clock pins are has no other sinks, once clocks are apart.
LEMMA ApartGivesClocks ==
  ASSUME NEW n, Good(n), n.error = "none", Owning(n), PortsFit(n), ClocksApart(n),
         NEW k \in ClockNets(n), k # 0
  PROVE  DataSinks(n, k) = <<>>
<1>0. /\ n \in Netlists /\ Typed(n) /\ InRange(n) /\ Structure(n) /\ Owned(n) /\ Netted(n)
  BY DEF Good, Refs, Typed
<1>1. PICK p \in DOMAIN n.pins : n.pins[p].valid /\ n.ports[n.pins[p].port].name = "clk" /\ n.pins[p].net = k
  BY <1>0, ClockNetsFacts
<1>2. k \in DOMAIN n.nets BY <1>0, <1>1 DEF InRange
<1> DEFINE s == Sinks(n, k)
           K == {i \in DOMAIN s : n.ports[n.pins[s[i]].port].name # "clk"}
<1>3. DataSinks(n, k) = Keep(s, K) BY DEF DataSinks
<1>4. s \in Seq(Nat)
  <2>1. n.nets[k].pins \in Seq(Nat) BY <1>0, <1>2, FieldTypes
  <2> QED BY <2>1, HeadTailProperties, EmptySeq DEF Sinks
<1>5. K = {}
  <2> SUFFICES ASSUME NEW i \in DOMAIN s, n.ports[n.pins[s[i]].port].name # "clk" PROVE FALSE OBVIOUS
  <2> DEFINE t == n.nets[k].pins
             h == i + 1
             q == t[h]
  <2>1. t \in Seq(Nat) BY <1>0, <1>2, FieldTypes
  <2>2. t # <<>>
    <3> SUFFICES ASSUME t = <<>> PROVE FALSE OBVIOUS
    <3>1. s = <<>> BY DEF Sinks
    <3>2. i \in DOMAIN s OBVIOUS
    <3> HIDE DEF s
    <3> QED BY <3>1, <3>2
  <2>3. n.nets[k].valid
    <3>1. PinOK(n, p) BY <1>0, <1>1 DEF Netted
    <3> QED BY <3>1, <1>1, <2>2 DEF PinOK
  <2>4. h \in DOMAIN t /\ s[i] = q /\ h > 1 /\ h # 1
    <3>1. s = Tail(t) BY Zenon, <2>2 DEF Sinks
    <3>2. i \in DOMAIN s OBVIOUS
    <3> HIDE DEF s, t
    <3>3. Len(t) >= 1 BY SMTT(30), <2>1, <2>2
    <3> QED BY SMTT(30), <2>1, <3>1, <3>2, <3>3, TailFacts
  <2>5. PlaceOK(n, k, h) BY ZenonT(40), <1>0, <1>2, <2>3, <2>4 DEF Netted
  <2>6. /\ q \in DOMAIN n.pins /\ n.pins[q].valid /\ n.pins[q].net = k /\ IsSink(n, q)
    <3> HIDE DEF h
    <3> QED BY ZenonT(40), <2>4, <2>5 DEF PlaceOK
  <2>10. n.ports[n.pins[q].port].name # "clk" BY Zenon, <2>4
  <2> HIDE DEF h, q, t
  <2>7. n.ports[n.pins[q].port].name # "out" BY <2>6 DEF IsSink
  <2>8. n.ports[n.pins[q].port].name \in PortName BY <1>0, <2>6, FieldTypes DEF InRange
  <2>9. n.ports[n.pins[q].port].name = "in" BY <2>10, <2>7, <2>8 DEF PortName
  <2> QED BY <1>1, <2>3, <2>6, <2>9 DEF ClocksApart
<1> HIDE DEF s, K
<1>6. K \in SUBSET DOMAIN s BY <1>5
<1>7. Keep(s, K) \in Seq(Nat) /\ Len(Keep(s, K)) = Cardinality(K) BY <1>4, <1>6, KeepFacts
<1>8. Cardinality(K) = 0 BY <1>5, FS_EmptySet
<1> QED BY <1>3, <1>7, <1>8, EmptySeq

\* Split clocks stay split.
LEMMA InvGivesClocks == CircuitInv => ClocksOnlyClock
<1> SUFFICES ASSUME CircuitInv, phase \in {"compress", "verify", "done"}, Running,
                    NEW k \in ClockNets(nl), k # 0
             PROVE  DataSinks(nl, k) = <<>>
  BY DEF ClocksOnlyClock
<1>1. ClocksApart(nl) BY DEF CircuitInv, Staged
<1>2. Owning(nl) /\ PortsFit(nl) BY StagedOwning
<1>3. Good(nl) /\ nl.error = "none" BY DEF CircuitInv, Running
<1> QED BY <1>1, <1>2, <1>3, ApartGivesClocks

-----------------------------------------------------------------------------
(* Theorems.                                                               *)

\* Every id that any table of the netlist keeps, also in removed entries, names
\* an entry: no callback and no clean-up step leaves a dangling id.
THEOREM TypeCorrect == Spec => []TypeOK
<1> QED BY CircuitInvariant, InvGivesTypes, PTL

\* Blocks, ports, pins and nets agree after every statement and every step, as
\* long as merge_nets() has lost no sink.
THEOREM RefsCorrect == Spec => [](MergeKeepsSinks => RefsAgree)
<1> QED BY CircuitInvariant, InvGivesRefs, PTL

\* In the clean-up of a circuit that meets its assumptions no sink is lost, and
\* blocks, ports, pins and nets agree.
THEOREM SoundRefsCorrect == Spec => [](phase # "read" /\ sound => MergeKeepsSinks /\ RefsAgree)
<1> QED BY CircuitInvariant, InvGivesSinks, PTL

\* pin_net_indices_ is exact as long as nothing was removed.
THEOREM IndicesCorrect == Spec => []CleanIndices
<1> QED BY CircuitInvariant, InvGivesIndices, PTL

\* No step of the clean-up renames the net of an input pad.
THEOREM InputNamesCorrect == Spec => []InputNamesKept
<1> QED BY CircuitInvariant, InvGivesInputNames, PTL

\* Once clocks are fixed, nets with clock pins feed nothing else.
THEOREM ClocksCorrect == Spec => []ClocksOnlyClock
<1> QED BY CircuitInvariant, InvGivesClocks, PTL

\* A sweep pass takes the driver away from no sink that stays.
LEMMA SweepKeepsStep ==
  CircuitInv /\ [Next]_vars =>
    [(phase = "sweep" /\ Running /\ Running') =>
          \A q \in SinkPins(nl') :
             (nl.pins[q].net # 0 /\ Driver(nl, nl.pins[q].net) # 0) =>
                nl'.pins[q].net = nl.pins[q].net
                /\ Driver(nl', nl.pins[q].net) = Driver(nl, nl.pins[q].net)]_vars
<1> SUFFICES ASSUME CircuitInv, Next, phase = "sweep", NEW q \in SinkPins(nl'),
                    nl.pins[q].net # 0, Driver(nl, nl.pins[q].net) # 0
             PROVE  /\ nl'.pins[q].net = nl.pins[q].net
                    /\ Driver(nl', nl.pins[q].net) = Driver(nl, nl.pins[q].net)
  OBVIOUS
<1>1. Sweep
  BY DEF Next, ReadStatement, EndModel, IdentifyBuffers, AbsorbBuffer, DropUnconn,
         FixClockToData, RemoveAndCompress, VerifyCircuit
<1>2. DriversKept(nl, nl') BY <1>1, SweepStep DEF Swept
<1>3. q \in DOMAIN nl'.pins /\ nl'.pins[q].valid /\ IsSink(nl', q) BY DEF SinkPins, Valid
<1> QED BY <1>2, <1>3 DEF DriversKept

\* Sweeping (sweep_iterative() in read_circuit) never takes the driver away from
\* a sink that stays, for every circuit and every choice of what is swept.
THEOREM SweepCorrect == Spec => SweepKeepsDrivers
<1> QED BY CircuitInvariant, SweepKeepsStep, PTL DEF Spec, SweepKeepsDrivers

\* Removing what is unused and numbering the rest again keeps every connection.
LEMMA CompressKeepsStep ==
  CircuitInv /\ [Next]_vars =>
    [(phase = "compress" /\ Running /\ Running') => Connections(nl') = Connections(nl)]_vars
<1> SUFFICES ASSUME CircuitInv, Next, phase = "compress", Running'
             PROVE  Connections(nl') = Connections(nl)
  OBVIOUS
<1>1. RemoveAndCompress
  BY DEF Next, ReadStatement, EndModel, IdentifyBuffers, AbsorbBuffer, DropUnconn,
         FixClockToData, Sweep, VerifyCircuit
<1> QED BY <1>1, CompressStep DEF Running

\* remove_and_compress() keeps every connection, driver or sink, between named
\* blocks and nets, for every circuit and every pattern of removed entries.
THEOREM CompressCorrect == Spec => CompressKeepsConnections
<1> QED BY CircuitInvariant, CompressKeepsStep, PTL DEF Spec, CompressKeepsConnections
=============================================================================
