---------------------------- MODULE BlockExchange ----------------------------
(***************************************************************************)
(* What placing promises, apart from how a move is carried out: blocks are *)
(* put on sites of their own type, one to a site, and then only change     *)
(* places by exchanges.  An exchange moves a unit (a block, or a whole     *)
(* macro) by an offset, and single blocks that were in its way by the      *)
(* opposite offset, all at once.                                           *)
(***************************************************************************)
EXTENDS Integers, Sequences

CONSTANTS Blocks, Nowhere,
          LegalPos(_),     \* the sites of a type
          BlockType,
          UnitOf(_),       \* the blocks that move when a block moves
          InMacro(_),      \* is it a member of a macro?
          Plus(_, _), Minus(_, _)

VARIABLE loc

Legal(l) ==
  \A a \in Blocks : l[a] # Nowhere =>
    /\ l[a] \in LegalPos(BlockType[a])
    /\ \A b \in Blocks : l[a] = l[b] => a = b

Init == loc = [b \in Blocks |-> Nowhere]

Place ==
  /\ Legal(loc')
  /\ \A b \in Blocks : loc[b] # Nowhere => loc'[b] = loc[b]

Of(unit) == {unit[i] : i \in DOMAIN unit}
Swap(b) ==
  LET U == Of(UnitOf(b))
      d == Minus(loc'[b], loc[b])
      InTheWay(c) == \E u \in U : loc[c] = Plus(loc[u], d)
  IN  /\ \A u \in U : loc'[u] = Plus(loc[u], d)
      /\ \A c \in Blocks \ U :
           IF InTheWay(c) THEN ~InMacro(c) /\ loc[c] = Plus(loc'[c], d)
                          ELSE loc'[c] = loc[c]
      /\ \A c \in Blocks : loc[c] # Nowhere
      /\ Legal(loc')

Next == Place \/ \E b \in Blocks : Swap(b)
Spec == Init /\ [][Next]_loc
=============================================================================
