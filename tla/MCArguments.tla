---------------------------- MODULE MCArguments ----------------------------
(* Arguments on short command lines and specifications, for TLC.           *)
EXTENDS Arguments, TLC

a == 1
b == 2

Written(dashes, text) == [dashes |-> dashes, text |-> text]

(* -a, --ab, --a, -b, x, - and --, the words that tell the cases apart.    *)
FewWords == {Written(1, <<a>>), Written(1, <<a, b>>), Written(2, <<a, b>>), Written(2, <<a>>),
             Written(0, <<b>>), Written(1, <<>>), Written(2, <<>>)}

LinesOfThree == SeqOf(FewWords, 3)

Both == [long |-> <<a, b>>, short |-> a]
Names == {Both, [long |-> <<a>>, short |-> NUL], [long |-> <<>>, short |-> a],
          [long |-> <<>>, short |-> NUL]}

Arg(name, required, count) == [name |-> name, required |-> required, count |-> count]

One == {<<Arg(n, r, c)>> : n \in Names, r \in BOOLEAN, c \in -2..2}

(* The second one may have a name of the first, or consume the rest too.   *)
Two == {<<Arg(Both, FALSE, c), Arg(n, r, d)>> :
           n \in Names, r \in BOOLEAN, c \in -1..2, d \in -1..1}

AnySpecs == One \union Two \union {<< >>, Unspecified}

=============================================================================
