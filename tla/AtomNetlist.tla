----------------------------- MODULE AtomNetlist -----------------------------
(***************************************************************************)
(* The netlist database of VPR: vpr/src/base/netlist.tpp with its          *)
(* primitive-level specialisation atom_netlist.cpp.  The module has no     *)
(* variables: a netlist is a value, and every member function that changes *)
(* one is an operator from a netlist to the netlist it leaves behind.      *)
(*                                                                         *)
(* The four tables are sequences; an id is a position in its table, and 0  *)
(* is INVALID().  An entry whose id was removed keeps its place, with      *)
(* valid = FALSE, until compress() drops it.  A pin's idx is the position  *)
(* pin_net_indices_ holds, and -1 is INVALID_INDEX.  The first place of a  *)
(* net's pins is its driver (NET_DRIVER_INDEX), 0 when it has none.        *)
(* Block pins and ports are kept per class by the code; the class is that  *)
(* of the port's name, so a set carries the same information.              *)
(*                                                                         *)
(* error says how the program ended, when it did: "throw" is a VPR_THROW,  *)
(* "assert" a failed VTR_ASSERT, "range" an access outside a vector.       *)
(* Every operator leaves a netlist with an error alone.                    *)
(*                                                                         *)
(* An operator called X_Y is a wrong X: a mistake that could be made in    *)
(* the code X models, which the properties tell from X.                    *)
(***************************************************************************)
EXTENDS Integers, Sequences, FiniteSets, SequencesExt

CONSTANTS Base,       \* names written in the circuit file
          LutInputs   \* width of the .names model's input port

ASSUME LutInputsAssumption == LutInputs \in Nat \ {0}

Plain(x) == <<"plain", x>>     \* the name x itself
OutPad(x) == <<"out:", x>>     \* OUTPAD_NAME_PREFIX + x
AsData(x) == <<"as_data", x>>  \* "__vpr__" + x + "__as_data__"
Name == {"plain", "out:", "as_data"} \X Base

PortName == {"in", "out", "clk"}
Model == {"input", "output", "names", "latch", "subckt"}
Table == {"identity", "empty", "other"}   \* what the truth table says

NoNetlist == [blocks |-> <<>>, ports |-> <<>>, pins |-> <<>>, nets |-> <<>>,
              blockOf |-> [x \in Name |-> 0], netOf |-> [x \in Name |-> 0],
              dirty |-> FALSE, error |-> "none"]

Fail(nl, how) == [nl EXCEPT !.error = how]

-----------------------------------------------------------------------------
(* Accessors.                                                              *)

Valid(table) == {i \in DOMAIN table : table[i].valid}
ValidId(table, i) == i \in Valid(table)

IsSink(nl, p) == nl.ports[nl.pins[p].port].name # "out"       \* pin_type
PinBlock(nl, p) == nl.ports[nl.pins[p].port].block
BlockPins(nl, b, pn) ==
    {p \in nl.blocks[b].pins : nl.ports[nl.pins[p].port].name = pn}

Driver(nl, n) == IF nl.nets[n].pins = <<>> THEN 0 ELSE nl.nets[n].pins[1]
Sinks(nl, n) == IF nl.nets[n].pins = <<>> THEN <<>> ELSE Tail(nl.nets[n].pins)
IsConstant(nl, n) == Driver(nl, n) # 0 /\ nl.pins[Driver(nl, n)].const

\* The entry the look-ups return; a removed port or pin is still found.
FindPort(nl, b, pn) ==
    LET found == {q \in nl.blocks[b].ports : nl.ports[q].name = pn}
    IN  IF found = {} THEN 0 ELSE CHOOSE q \in found : TRUE

FindPin(nl, q, bit) ==
    LET found == {p \in DOMAIN nl.pins :
                    /\ p \in ToSet(nl.ports[q].pins)
                    /\ nl.pins[p].bit = bit}
    IN  IF found = {} THEN 0 ELSE CHOOSE p \in found : TRUE

PortWidth(model, pn) == IF model = "names" /\ pn = "in" THEN LutInputs ELSE 1

\* A table after Op was applied to the entries S
Update(table, S, Op(_)) ==
    SubSeq([i \in DOMAIN table |-> IF i \in S THEN Op(table[i]) ELSE table[i]],
           1, Len(table))

-----------------------------------------------------------------------------
(* Dropping entries of a sequence: erase(), clean_and_reorder_values() and *)
(* update_valid_refs() all keep the entries at the positions K, in order.  *)

Rank(K, i) == Cardinality({j \in K : j =< i})
Nth(K, k) == CHOOSE i \in K : Rank(K, i) = k
Keep(s, K) == SubSeq([k \in 1..Cardinality(K) |-> s[Nth(K, k)]], 1, Cardinality(K))
Without(s, P) == Keep(s, {i \in DOMAIN s : s[i] \notin P})
Ascending(K) == SubSeq([k \in 1..Cardinality(K) |-> Nth(K, k)], 1, Cardinality(K))

\* A net's pins once those of P are gone: the driver's place stays.
DropFromNet(pins, P) ==
    IF pins = <<>> THEN <<>>
    ELSE <<IF pins[1] \in P THEN 0 ELSE pins[1]>> \o Without(Tail(pins), P)

-----------------------------------------------------------------------------
(* create_*()                                                              *)

\* AtomNetlist::create_block() appends the model and the table even when the
\* block exists: its size check throws then.
CreateBlock(nl, name, model, table) ==
    IF nl.error # "none" THEN nl
    ELSE IF nl.blockOf[name] # 0 THEN Fail(nl, "throw")
    ELSE [nl EXCEPT !.blocks = Append(@, [valid |-> TRUE, name |-> name,
                                          model |-> model, table |-> table,
                                          ports |-> {}, pins |-> {}]),
                    !.blockOf[name] = Len(nl.blocks) + 1]

CreatePort(nl, b, pn) ==
    IF nl.error # "none" \/ FindPort(nl, b, pn) # 0 THEN nl
    ELSE [nl EXCEPT !.ports = Append(@, [valid |-> TRUE, block |-> b,
                                         name |-> pn, pins |-> <<>>]),
                    !.blocks[b].ports = @ \cup {Len(nl.ports) + 1}]

CreateNet(nl, name) ==
    IF nl.error # "none" \/ nl.netOf[name] # 0 THEN nl
    ELSE [nl EXCEPT !.nets = Append(@, [valid |-> TRUE, name |-> name,
                                        pins |-> <<0>>]),
                    !.netOf[name] = Len(nl.nets) + 1]

\* associate_pin_with_net(): pin p, not on a net yet, joins net n.
JoinNet(nl, p, n) ==
    IF IsSink(nl, p)
    THEN [nl EXCEPT !.pins[p].net = n,
                    !.pins[p].idx = Len(nl.nets[n].pins),
                    !.nets[n].pins = Append(@, p)]
    ELSE IF nl.nets[n].pins[1] # 0 THEN Fail(nl, "assert")
    ELSE [nl EXCEPT !.pins[p].net = n,
                    !.pins[p].idx = 0,
                    !.nets[n].pins[1] = p]

\* associate_pin_with_port(): the port's pins stay in order of their bits.
InsertByBit(nl, q, p, bit) ==
    LET s == nl.ports[q].pins
        before == {i \in DOMAIN s : nl.pins[s[i]].bit < bit}
    IN  Keep(s, before) \o <<p>> \o Keep(s, DOMAIN s \ before)

CreatePin(nl, q, bit, n, const) ==
    LET b == nl.ports[q].block
        p == Len(nl.pins) + 1
        old == FindPin(nl, q, bit)
    IN  IF nl.error # "none" THEN nl
        ELSE IF \/ ~ValidId(nl.ports, q)
                \/ bit >= PortWidth(nl.blocks[b].model, nl.ports[q].name)
                \/ ~ValidId(nl.nets, n)
        THEN Fail(nl, "assert")
        ELSE IF old # 0
        THEN IF /\ nl.pins[old].valid /\ nl.pins[old].net = n
                /\ nl.pins[old].const = const
             THEN nl ELSE Fail(nl, "assert")
        ELSE JoinNet([nl EXCEPT !.pins = Append(@, [valid |-> TRUE, port |-> q,
                                                    bit |-> bit, net |-> 0,
                                                    idx |-> -1, const |-> const]),
                                !.ports[q].pins = InsertByBit(nl, q, p, bit),
                                !.blocks[b].pins = @ \cup {p}],
                     p, n)

-----------------------------------------------------------------------------
(* Removing and rewiring.                                                  *)

\* Some pin of P names a net that does not list it: remove_net_pin() asserts.
LostPin(nl, P) ==
    \E p \in P : /\ ValidId(nl.nets, nl.pins[p].net)
                 /\ p \notin ToSet(nl.nets[nl.pins[p].net].pins)

Invalidate(r) == [r EXCEPT !.valid = FALSE]
Unlink(p) == [p EXCEPT !.net = 0, !.idx = -1]

\* remove_net_pin() on each of the pins P
Disconnect(nl, P) ==
    LET Shorten(net) == [net EXCEPT !.pins = DropFromNet(@, P)]
    IN  IF LostPin(nl, P) THEN Fail(nl, "assert")
        ELSE [nl EXCEPT !.pins = Update(@, P, Unlink),
                        !.nets = Update(@, Valid(@) \cap {nl.pins[p].net : p \in P},
                                        Shorten),
                        !.dirty = @ \/ P # {}]

\* remove_pin()
RemovePins(nl, P) ==
    LET cut == Disconnect(nl, P)
    IN  IF nl.error # "none" \/ cut.error # "none" THEN Fail(nl, cut.error)
        ELSE [cut EXCEPT !.pins = Update(@, P, Invalidate)]

\* remove_port()
RemovePorts(nl, Q) ==
    IF \E q \in Q : ~nl.ports[q].valid THEN Fail(nl, "assert")
    ELSE LET cut == RemovePins(nl, {p \in Valid(nl.pins) : nl.pins[p].port \in Q})
         IN  [cut EXCEPT !.ports = Update(@, Q, Invalidate),
                         !.dirty = @ \/ Q # {}]

\* remove_block() on each of the blocks B
RemoveBlocks(nl, B) ==
    IF nl.error # "none" THEN nl
    ELSE LET cut == RemovePorts(nl, UNION {nl.blocks[b].ports : b \in B})
         IN  [cut EXCEPT
                !.blocks = Update(@, B, Invalidate),
                !.blockOf = [x \in Name |->
                              IF \E b \in B : nl.blocks[b].name = x THEN 0
                              ELSE @[x]],
                !.dirty = @ \/ B # {}]

\* remove_net() on each of the nets N; their pins stay, on no net.
RemoveNets_KeepPins(nl, N) ==
    IF nl.error # "none" THEN nl
    ELSE IF \E n \in N : ~ValidId(nl.nets, n) THEN Fail(nl, "assert")
    ELSE [nl EXCEPT
            !.nets = Update(@, N, Invalidate),
            !.netOf = [x \in Name |->
                         IF \E n \in N : nl.nets[n].name = x THEN 0 ELSE @[x]],
            !.dirty = @ \/ N # {}]

RemoveNets(nl, N) ==
    IF nl.error # "none" THEN nl
    ELSE IF \E n \in N : ~ValidId(nl.nets, n) THEN Fail(nl, "assert")
    ELSE [nl EXCEPT
            !.pins = Update(@, UNION {ToSet(nl.nets[n].pins) : n \in N}, Unlink),
            !.nets = Update(@, N, Invalidate),
            !.netOf = [x \in Name |->
                         IF \E n \in N : nl.nets[n].name = x THEN 0 ELSE @[x]],
            !.dirty = @ \/ N # {}]

\* The pins at the places of the sequence s are on net n, the first at index i.
Link(table, s, n, i) ==
    SubSeq([p \in DOMAIN table |->
              IF p \in ToSet(s)
              THEN [table[p] EXCEPT !.net = n,
                                    !.idx = i + (CHOOSE k \in DOMAIN s : s[k] = p) - 1]
              ELSE table[p]],
           1, Len(table))

\* add_net(): a new net takes over pins that are on no net.
AddNet(nl, name, driver, sinks) ==
    IF nl.error # "none" THEN nl
    ELSE IF nl.netOf[name] # 0 THEN Fail(nl, "assert")
    ELSE LET made == CreateNet(nl, name)
             n == made.netOf[name]
         IN  [made EXCEPT !.nets[n].pins = <<driver>> \o sinks,
                          !.pins = Link(@, <<driver>> \o sinks, n, 0)]

\* set_pin_net() with a sink
SetPinNet(nl, p, n) ==
    IF nl.error # "none" THEN nl
    ELSE LET cut == IF nl.pins[p].net = 0 THEN nl ELSE Disconnect(nl, {p})
         IN  IF cut.error # "none" THEN cut ELSE JoinNet(cut, p, n)

SetBlockName(nl, b, name) ==
    IF nl.error # "none" THEN nl
    ELSE IF nl.blockOf[name] # 0 THEN Fail(nl, "throw")
    ELSE [nl EXCEPT !.blockOf[nl.blocks[b].name] = 0,
                    !.blockOf[name] = b,
                    !.blocks[b].name = name]

\* The loop of merge_nets() walks the places the sink net's vector had at the
\* start, while set_pin_net() erases from that vector: slots is its storage,
\* len its current length, moved the sinks that reached the driver net.
MoveSinks(pins) ==
    LET n == Len(pins)
        step[i \in 1..n] ==
            IF i = 1 THEN [slots |-> pins, len |-> n, moved |-> <<>>]
            ELSE LET r == step[i - 1]
                     p == r.slots[i]
                     at == {k \in 2..r.len : r.slots[k] = p}
                 IN  [slots |-> [k \in 1..n |->
                                   IF k < r.len /\ \E e \in at : e =< k
                                   THEN r.slots[k + 1] ELSE r.slots[k]],
                      len |-> r.len - Cardinality(at),
                      moved |-> Append(Without(r.moved, {p}), p)]
    IN  step[n].moved

MergeNets_KeepSinkRefs(nl, d, s) ==
    LET moved == MoveSinks(nl.nets[s].pins)
    IN  IF nl.error # "none" THEN nl
        ELSE IF Driver(nl, s) # 0 THEN Fail(nl, "throw")
        ELSE RemoveNets([nl EXCEPT
                !.nets[d].pins = @ \o moved,
                !.pins = Link(@, moved, d, Len(nl.nets[d].pins))],
                {s})

MergeNets(nl, d, s) ==
    LET moved == MoveSinks(nl.nets[s].pins)
    IN  IF nl.error # "none" THEN nl
        ELSE IF Driver(nl, s) # 0 THEN Fail(nl, "throw")
        ELSE RemoveNets([nl EXCEPT
                !.nets[d].pins = @ \o moved,
                !.nets[s].pins = <<>>,
                !.pins = Link(@, moved, d, Len(nl.nets[d].pins))],
                {s})

-----------------------------------------------------------------------------
(* Cleaning.                                                               *)

UnusedNets_NoSinks(nl) == {n \in Valid(nl.nets) : Sinks(nl, n) = <<>>}
UnusedNets(nl) == {n \in Valid(nl.nets) : Driver(nl, n) = 0 /\ Sinks(nl, n) = <<>>}

\* One round of remove_unused(): nets without pins, pins without a net, ports
\* and blocks without pins.  No step of a round makes work for a later one.
RemoveUnused_NetsOnly(nl) == RemoveNets(nl, UnusedNets(nl))
RemoveUnused(nl) ==
    LET nets == RemoveNets(nl, UnusedNets(nl))
        pins == RemovePins(nets, {p \in Valid(nets.pins) : nets.pins[p].net = 0})
        ports == RemovePorts(pins, {q \in Valid(pins.ports) :
                                      pins.ports[q].pins = <<>>})
    IN  IF nl.error # "none" THEN nl
        ELSE RemoveBlocks(ports, {b \in Valid(ports.blocks) :
                                    ports.blocks[b].pins = {}})

\* compress_ids(): the new id of i when only the ids K survive.
NewId_OldId(K, i) == IF i \in K THEN i ELSE 0
NewId(K, i) == IF i \in K THEN Rank(K, i) ELSE 0

\* update_valid_refs(); with preserved the first place keeps an INVALID id.
Renumber(s, K, preserved) ==
    LET kept == Keep(s, {i \in DOMAIN s : \/ s[i] \in K
                                          \/ preserved /\ i = 1 /\ s[i] = 0})
    IN  [i \in DOMAIN kept |-> NewId(K, kept[i])]

\* compress() reads and writes outside its vectors when a pin is left on no net
\* (update_all_refs) or a net without a driver (rebuild_pin_refs).
Unrepresentable(nl) ==
    \/ \E p \in Valid(nl.pins) : nl.pins[p].net = 0
    \/ \E n \in Valid(nl.nets) : Driver(nl, n) = 0

\* pin_net_indices_ is built again from the new nets
IndexInNet_Stale(nets, p, old) == old
IndexInNet(nets, p, old) ==
    LET at == UNION {{i - 1 : i \in {j \in DOMAIN nets[n].pins : nets[n].pins[j] = p}}
                     : n \in DOMAIN nets}
    IN  IF at = {} THEN old ELSE CHOOSE i \in at : TRUE

Compress(nl) ==
    LET B == Valid(nl.blocks)  Q == Valid(nl.ports)
        P == Valid(nl.pins)    N == Valid(nl.nets)
        Relabel(x, K) == {NewId(K, i) : i \in x \cap K}
        OfBlock(b) == [b EXCEPT !.pins = Relabel(@, P), !.ports = Relabel(@, Q)]
        OfPort(q) == [q EXCEPT !.block = NewId(B, @), !.pins = Renumber(@, P, FALSE)]
        OfNet(n) == [n EXCEPT !.pins = Renumber(@, P, TRUE)]
        blocks == Keep(nl.blocks, B)
        nets == Update(Keep(nl.nets, N), 1..Cardinality(N), OfNet)
        OfPin(p) == LET old == nl.pins[Nth(P, p)] IN
            [old EXCEPT !.port = NewId(Q, @), !.net = NewId(N, @),
                        !.idx = IndexInNet(nets, p, @)]
        IdOf(table, x) == IF \E i \in DOMAIN table : table[i].name = x
                          THEN CHOOSE i \in DOMAIN table : table[i].name = x ELSE 0
    IN  IF nl.error # "none" THEN nl
        ELSE IF Unrepresentable(nl) THEN Fail(nl, "range")
        ELSE IF \E q \in Q : nl.ports[q].block \notin B THEN Fail(nl, "assert")
        ELSE [nl EXCEPT
                !.blocks = Update(blocks, DOMAIN blocks, OfBlock),
                !.ports = Update(Keep(@, Q), 1..Cardinality(Q), OfPort),
                !.nets = nets,
                !.pins = SubSeq([p \in 1..Cardinality(P) |-> OfPin(p)], 1, Cardinality(P)),
                !.blockOf = [x \in Name |-> IdOf(blocks, x)],
                !.netOf = [x \in Name |-> IdOf(nets, x)],
                !.dirty = FALSE]

-----------------------------------------------------------------------------
(* Every id is that of an entry, of a removed one perhaps, or INVALID().   *)

NetlistType(nl) ==
    /\ \A b \in DOMAIN nl.blocks : LET r == nl.blocks[b] IN
          /\ r.valid \in BOOLEAN /\ r.name \in Name
          /\ r.model \in Model /\ r.table \in Table
          /\ r.ports \subseteq DOMAIN nl.ports /\ r.pins \subseteq DOMAIN nl.pins
    /\ \A q \in DOMAIN nl.ports : LET r == nl.ports[q] IN
          /\ r.valid \in BOOLEAN /\ r.block \in DOMAIN nl.blocks
          /\ r.name \in PortName /\ ToSet(r.pins) \subseteq DOMAIN nl.pins
    /\ \A p \in DOMAIN nl.pins : LET r == nl.pins[p] IN
          /\ r.valid \in BOOLEAN /\ r.port \in DOMAIN nl.ports
          /\ r.bit \in 0..LutInputs - 1 /\ r.net \in {0} \cup DOMAIN nl.nets
          /\ r.idx \in Nat \cup {-1} /\ r.const \in BOOLEAN
    /\ \A n \in DOMAIN nl.nets : LET r == nl.nets[n] IN
          /\ r.valid \in BOOLEAN /\ r.name \in Name
          /\ ToSet(r.pins) \subseteq {0} \cup DOMAIN nl.pins
    /\ nl.blockOf \in [Name -> {0} \cup DOMAIN nl.blocks]
    /\ nl.netOf \in [Name -> {0} \cup DOMAIN nl.nets]
    /\ nl.dirty \in BOOLEAN /\ nl.error \in {"none", "throw", "assert", "range"}

-----------------------------------------------------------------------------
(* The netlist as its user names it.                                       *)

\* A pin by what a user calls it
PinNamed(n0, p) == <<n0.blocks[PinBlock(n0, p)].name,
                     n0.ports[n0.pins[p].port].name, n0.pins[p].bit>>
Connections(n0) ==
    UNION {{<<n0.nets[n].name, i = 1, PinNamed(n0, n0.nets[n].pins[i])>> :
              i \in {j \in DOMAIN n0.nets[n].pins : n0.nets[n].pins[j] # 0}} :
           n \in Valid(n0.nets)}

-----------------------------------------------------------------------------
(* What verify() looks at, on the entries that are valid.                  *)

\* validate_block_port_refs(), validate_port_pin_refs() and the pin count of
\* verify_block_invariants()
OwnersAgree(nl) ==
    /\ \A q \in Valid(nl.ports) :
          {b \in Valid(nl.blocks) : q \in nl.blocks[b].ports} = {nl.ports[q].block}
    /\ \A p \in Valid(nl.pins) :
          {q \in Valid(nl.ports) : p \in ToSet(nl.ports[q].pins)} = {nl.pins[p].port}
    /\ \A b \in Valid(nl.blocks) : \A p \in Valid(nl.pins) :
          p \in nl.blocks[b].pins <=> PinBlock(nl, p) = b

\* Ascending bits in every port, what find_pin()'s binary search relies on.
BitsAscend(nl) ==
    \A q \in Valid(nl.ports) : LET s == nl.ports[q].pins IN
        \A i, j \in DOMAIN s : i < j => nl.pins[s[i]].bit < nl.pins[s[j]].bit

\* validate_net_pin_refs() without the index: a valid net lists valid pins that
\* name it, its driver first; a pin that names a net is listed once, by it.
NetsAgree(nl) ==
    /\ \A n \in Valid(nl.nets) : \A i \in DOMAIN nl.nets[n].pins :
          LET p == nl.nets[n].pins[i] IN
             \/ i = 1 /\ p = 0
             \/ /\ ValidId(nl.pins, p) /\ nl.pins[p].net = n
                /\ IsSink(nl, p) <=> i > 1
    /\ \A p \in Valid(nl.pins) : nl.pins[p].net # 0 =>
          /\ ValidId(nl.nets, nl.pins[p].net)
          /\ Cardinality({i \in DOMAIN nl.nets[nl.pins[p].net].pins :
                            nl.nets[nl.pins[p].net].pins[i] = p}) = 1

IndicesAgree(nl) ==
    \A n \in Valid(nl.nets) : \A i \in DOMAIN nl.nets[n].pins :
        nl.nets[n].pins[i] # 0 => nl.pins[nl.nets[n].pins[i]].idx = i - 1

\* verify_lookups() on blocks and nets, with removed names looking up nothing
LookupsAgree(nl) ==
    \A x \in Name :
        /\ {b \in Valid(nl.blocks) : nl.blocks[b].name = x} = {nl.blockOf[x]} \ {0}
        /\ {n \in Valid(nl.nets) : nl.nets[n].name = x} = {nl.netOf[x]} \ {0}

\* ... and on ports and pins
PortLookupsAgree(nl) ==
    /\ \A q \in Valid(nl.ports) : {r \in nl.blocks[nl.ports[q].block].ports :
          nl.ports[r].name = nl.ports[q].name} = {q}
    /\ \A p \in Valid(nl.pins) : {r \in ToSet(nl.ports[nl.pins[p].port].pins) :
          nl.pins[r].bit = nl.pins[p].bit} = {p}

AllValid(nl) == /\ Valid(nl.blocks) = DOMAIN nl.blocks
                /\ Valid(nl.ports) = DOMAIN nl.ports
                /\ Valid(nl.pins) = DOMAIN nl.pins
                /\ Valid(nl.nets) = DOMAIN nl.nets

\* verify(): the checks above, and every pin is on a net.  (The code compares a
\* port's bits with the first one only, so BitsAscend is more than it checks.)
Verify(nl) ==
    IF \/ nl.error # "none"
       \/ /\ AllValid(nl) /\ OwnersAgree(nl) /\ NetsAgree(nl) /\ IndicesAgree(nl)
          /\ LookupsAgree(nl) /\ PortLookupsAgree(nl)
          /\ \A p \in DOMAIN nl.pins : nl.pins[p].net # 0
          /\ \A q \in DOMAIN nl.ports : LET s == nl.ports[q].pins IN
                \A i \in DOMAIN s : i > 1 => nl.pins[s[1]].bit < nl.pins[s[i]].bit
    THEN nl ELSE Fail(nl, "throw")
=============================================================================
