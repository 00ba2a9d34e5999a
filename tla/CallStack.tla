------------------------------ MODULE CallStack ------------------------------
(***************************************************************************)
(* The call stack of the one thread that runs the command-line interfaces  *)
(* of src/cpptools/cli.  Shells, menus and sequences are loops that call   *)
(* commands and act on how the call ended; a command may itself be a menu  *)
(* or a sequence, or open a shell.  A frame holds the local variables of   *)
(* one such function and where it is; the last frame is the one that runs. *)
(***************************************************************************)
EXTENDS Integers, Sequences

CONSTANT None   \* the null pointer

VARIABLES stack,    \* the frames of the functions that have not ended
          outcome   \* how the last call ended, until its caller looks at it

callVars == <<stack, outcome>>

(* How a call can end other than with a code: with an exception derived    *)
(* from std::exception, as all of CppTools' are (exception.hpp:100), or    *)
(* with one that is not.                                                   *)
Raised == {"exception", "foreign"}

Top   == stack[Len(stack)]
Below == SubSeq(stack, 1, Len(stack) - 1)

(* The top frame is of this kind and is not waiting for a call ...         *)
Runs(kind) == stack # <<>> /\ Top.kind = kind /\ outcome = "none"

(* ... or its call has just ended.                                         *)
Resumes(kind) ==
    stack # <<>> /\ Top.kind = kind /\ outcome \notin {"none", "undefined"}

(* The top frame goes on with the local state f, ...                       *)
Becomes(f) == stack' = Append(Below, f) /\ outcome' = "none"

(* ... calls a function whose frame is g, ...                              *)
Calls(f, g) == stack' = Append(Append(Below, f), g) /\ outcome' = "none"

(* ... or ends, with a code or an exception.                               *)
Ends(o) == stack' = Below /\ outcome' = o
=============================================================================
