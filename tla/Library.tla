------------------------------- MODULE Library -------------------------------
(***************************************************************************)
(* The sequential parts of the library that keep no state of each other:   *)
(* argument parsing, string algorithms, constrained values and the         *)
(* comparison of trees.  A behaviour exercises one of them.                *)
(***************************************************************************)
EXTENDS Arguments, Strings, Values, TreeComparison

VARIABLE part  \* the part a behaviour is about

libraryVars == <<part, vars, text, valueVars, left, right>>

LibraryInit ==
    /\ part \in {"arguments", "strings", "values", "trees"}
    /\ TypingInit
    /\ ComparisonInit
    /\ IF part = "arguments" THEN Init
       ELSE /\ argv = <<>> /\ specs = <<>> /\ validated = 0 /\ rest = <<>>
            /\ values = << >> /\ outcome = "done"
    /\ IF part = "values" THEN ValuesInit
       ELSE instance = (CHOOSE i \in Instances : TRUE) /\ value = instance.min /\ undefined = FALSE

LibraryNext ==
    \/ part = "arguments" /\ Next /\ UNCHANGED <<part, text, valueVars, left, right>>
    \/ part = "strings" /\ TypingNext /\ UNCHANGED <<part, vars, valueVars, left, right>>
    \/ part = "values" /\ ValuesNext /\ UNCHANGED <<part, vars, text, left, right>>
    \/ part = "trees" /\ Grow /\ UNCHANGED <<part, vars, text, valueVars>>

LibrarySpec == LibraryInit /\ [][LibraryNext]_libraryVars

-----------------------------------------------------------------------------
(* clamped_value.hpp:11, "prevents its contained value from exceeding      *)
(* either bound", and wrapping_value.hpp:11, "wrap around a given range":  *)
(* a sequence of operations with operands of any integer types keeps the   *)
(* value in range and equal to what exact arithmetic gives, clamped or     *)
(* wrapped, wherever C++ can compute it in the types at hand.              *)
ValuesStandForResults == part = "values" => StaysInRange /\ StandsForTheResult

=============================================================================
