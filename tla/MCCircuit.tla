------------------------------ MODULE MCCircuit ------------------------------
(* Instances of Circuit: the statements a file may hold, in file order.    *)
EXTENDS Circuit

St(op, ins, out, table) == [op |-> op, ins |-> ins, out |-> out, table |-> table]
In(x) == St("inputs", <<>>, x, "other")
Out(x) == St("outputs", <<x>>, x, "other")
Lut(ins, x) == St("names", ins, x, "other")
Buf(x, y) == St("names", <<x>>, y, "identity")
Reg(d, q, clk) == St("latch", <<d, clk>>, q, "other")
Box(x, y) == St("subckt", <<x>>, y, "other")
Wire(x, y) == St("conn", <<x>>, y, "other")
Call(x) == St("cname", <<>>, x, "other")

Opt(absorb, ios, blks, nts, consts) ==
    [absorb |-> absorb, ios |-> ios, blocks |-> blks, nets |-> nts,
     constants |-> consts]
Default == {Opt(TRUE, TRUE, TRUE, TRUE, TRUE)}
AllOptions == {Opt(a, i, b, n, c) : a \in BOOLEAN, i \in BOOLEAN, b \in BOOLEAN,
                                    n \in BOOLEAN, c \in BOOLEAN}

CleanFile == <<In("a"), Out("c"), Out("d"), Buf("a", "b"), Reg("c", "b", "a"),
               Buf("b", "c"), Lut(<<"a", "b">>, "c"), Lut(<<>>, "c"),
               Box("c", "d"), Buf("c", "d"), Reg("b", "d", "b"), Buf("d", "b")>>

WireFile == <<Out("d"), In("a"), In("unconn"), Buf("a", "b"), Call("e"),
              Lut(<<"b", "unconn">>, "c"), Call("a"), Box("c", "unconn"),
              Reg("b", "e", "c"), Wire("c", "d"), Wire("e", "b"), Lut(<<"a">>, "e")>>

(* Files on which the code does not do what it says.                       *)

MergeFile == <<In("a"), Lut(<<"b">>, "c"), Lut(<<"b", "c">>, "d"),
               Reg("b", "e", "c"), Wire("a", "b")>>
PadFile == <<In("a"), Lut(<<"a">>, "b"), Out("b"), Buf("b", "c"), Out("c")>>
=============================================================================
