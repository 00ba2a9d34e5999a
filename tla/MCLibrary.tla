----------------------------- MODULE MCLibrary -----------------------------
(* Library on short command lines and texts, narrow integers and small     *)
(* trees, for TLC.                                                         *)
EXTENDS Library, MCArguments

SourceText == {"/", "*", "\n", "x"}
NumberText == {"1", "9", "-", ":"}
LineText   == {"x", "\r", "\n", " "}
AllTexts   == {SourceText, NumberText, LineText}
SecondTexts == {<<>>, <<"a">>, <<"a", "\r", "\n", "b">>, <<"a", "\n", "b", "\n", "c">>}

Signed(w)   == [signed |-> TRUE, bits |-> w]
Unsigned(w) == [signed |-> FALSE, bits |-> w]
OperandTypes == {Signed(3), Signed(4), Unsigned(4), Signed(5), Unsigned(5)}

BoundsOf(t) ==
    CASE t = Signed(3)   -> {m \in (-4..3) \X (-4..3) : m[1] < m[2]}
      [] t = Signed(4)   -> {<<-8, -1>>, <<-3, 4>>, <<0, 7>>, <<2, 6>>, <<-8, -2>>}
      [] t = Unsigned(4) -> {<<0, 7>>, <<3, 9>>, <<9, 15>>}

AllInstances ==
    UNION {{[kind |-> k, type |-> t, min |-> m[1], max |-> m[2]] :
               k \in {"clamped", "wrapping"}, m \in BoundsOf(t)} :
           t \in {Signed(3), Signed(4), Unsigned(4)}}

TwoTrees == (1..MaxSize) \X {"left", "right"}
=============================================================================
