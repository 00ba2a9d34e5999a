------------------------------ MODULE Arguments ------------------------------
(***************************************************************************)
(* tools::cli::parse_arguments (src/cpptools/cli/argument_parsing.hpp),    *)
(* with and without a specification of the arguments, and the map of their *)
(* values, which the caller goes on to use.  A character is a number, 0    *)
(* the null one; a word of the command line is the dashes it starts with   *)
(* and the text behind them.                                               *)
(***************************************************************************)
EXTENDS Integers, SequencesExt

CONSTANTS CommandLines,  \* the command lines a run looks at, without argv[0]
          SpecLists,     \* the specifications given, or Unspecified for the
          Unspecified    \* parser that takes none

NUL == 0

Name == [long : Seq(Nat), short : Nat]
Word == [dashes : 0..2, text : Seq(Nat)]
Argument == [name : Name, required : BOOLEAN, count : Int]

ASSUME InputAssumption ==
    /\ \A line \in CommandLines : line \in Seq(Word)
    /\ \A specs \in SpecLists \ {Unspecified} : specs \in Seq(Argument)

VARIABLES
    argv,       \* the command line
    specs,      \* arg_specs, or Unspecified
    validated,  \* how many of them validate_arg_specs has looked at
    rest,       \* the words from "it" on
    values,     \* the map: from the names that have an entry to their words
    outcome     \* where the call is, how it ended, and what was done since

vars == <<argv, specs, validated, rest, values, outcome>>

(* outcome is "validating" or "parsing" inside the call; then the exception*)
(* thrown, "undefined", or "done", and "erased" once an entry was erased.  *)
Errors == {"param_with_no_name", "multiple_params_with_same_name",
           "multiple_consume_remaining_args", "out_of_range", "length_error",
           "not_enough_arguments_supplied", "required_arg_missing"}

Init ==
    /\ argv \in CommandLines
    /\ specs \in SpecLists
    /\ validated = 0
    /\ rest = argv
    /\ values = << >>
    /\ outcome = IF specs = Unspecified THEN "parsing" ELSE "validating"

End(how) == outcome' = how /\ UNCHANGED <<argv, specs, validated, rest, values>>

-----------------------------------------------------------------------------
(* The map of values.  Its keys are sorted, and a search for one of the    *)
(* two names of an argument takes the first key that has it.               *)

TextBefore(s, t) ==
    \E k \in 1..Len(t) : /\ k <= Len(s) + 1
                         /\ SubSeq(s, 1, k - 1) = SubSeq(t, 1, k - 1)
                         /\ k <= Len(s) => s[k] < t[k]

NameBefore(m, n) == \/ TextBefore(m.long, n.long)
                    \/ m.long = n.long /\ m.short < n.short

Foremost(S) == {n \in S : \A m \in S \ {n} : NameBefore(n, m)}

FindShortName(map, c) == Foremost({n \in DOMAIN map : n.short = c})
FindLongName(map, s)  == Foremost({n \in DOMAIN map : n.long = s})

(* The key found for a name, as a set: by the short name, then by the long *)
(* one.  A name with one of the two left out stands for the overloads that *)
(* take that name alone; with neither they throw null_parameter_error.     *)
FindName(map, n) ==
    LET short == IF n.short = NUL THEN {} ELSE FindShortName(map, n.short)
        long  == IF n.long = <<>> THEN {} ELSE FindLongName(map, n.long)
    IN  IF short # {} THEN short ELSE long

Has(map, n) == FindName(map, n) # {}

(* insert: an entry of that very name is replaced.                         *)
Insert(map, n, v) == [m \in DOMAIN map \union {n} |-> IF m = n THEN v ELSE map[m]]

(* Mutant: only an entry of that very name is erased.                      *)
ErasedKey(map, n) == [m \in DOMAIN map \ {n} |-> map[m]]

Erased(map, n) == [m \in DOMAIN map \ FindName(map, n) |-> map[m]]

-----------------------------------------------------------------------------
(* parse_arguments without a specification.                                *)

Stored(name, v) ==
    /\ values' = Insert(values, name, v)
    /\ rest' = SubSeq(rest, Len(v) + 2, Len(rest))
    /\ UNCHANGED <<argv, specs, validated, outcome>>

(* The words that follow the first one, up to the next with a dash.        *)
FollowingValues ==
    LET dashed == {i \in 2..Len(rest) : rest[i].dashes > 0}
        end == CHOOSE e \in dashed \union {Len(rest) + 1} : \A i \in dashed : e <= i
    IN  SubSeq(rest, 2, end - 1)

Freely(dashes) == outcome = "parsing" /\ specs = Unspecified /\ rest # <<>>
                    /\ Head(rest).dashes = dashes

FreeLong == /\ Freely(2)
            /\ Stored([long |-> Head(rest).text, short |-> NUL], FollowingValues)

(* Of a word with one dash, the first letter only.                         *)
FreeShort == /\ Freely(1) /\ Head(rest).text # <<>>
             /\ Stored([long |-> <<>>, short |-> Head(rest).text[1]], FollowingValues)

FreeBareDash == Freely(1) /\ Head(rest).text = <<>> /\ End("out_of_range")

(* A warning, and the word is left out.                                    *)
FreeSkip == /\ Freely(0)
            /\ rest' = Tail(rest)
            /\ UNCHANGED <<argv, specs, validated, values, outcome>>

FreeDone == outcome = "parsing" /\ specs = Unspecified /\ rest = <<>> /\ End("done")

-----------------------------------------------------------------------------
(* parse_arguments with a specification.                                   *)

SameName(m, n) == \/ m.long # <<>> /\ m.long = n.long
                  \/ m.short # NUL /\ m.short = n.short

(* Mutant of SpecError: only long names are compared.                      *)
SpecErrorLong(i) ==
    LET spec == specs[i]
    IN  IF spec.name.long = <<>> /\ spec.name.short = NUL THEN "param_with_no_name"
        ELSE IF \E j \in 1..(i - 1) :
                   spec.name.long # <<>> /\ specs[j].name.long = spec.name.long
             THEN "multiple_params_with_same_name"
        ELSE IF spec.count = -1 /\ \E j \in 1..(i - 1) : specs[j].count = -1
             THEN "multiple_consume_remaining_args"
        ELSE "none"

(* What validate_arg_specs finds wrong with argument i.                    *)
SpecError(i) ==
    LET spec == specs[i]
    IN  IF spec.name.long = <<>> /\ spec.name.short = NUL THEN "param_with_no_name"
        ELSE IF \E j \in 1..(i - 1) : SameName(specs[j].name, spec.name)
             THEN "multiple_params_with_same_name"
        ELSE IF spec.count = -1 /\ \E j \in 1..(i - 1) : specs[j].count = -1
             THEN "multiple_consume_remaining_args"
        ELSE "none"

Validate ==
    /\ outcome = "validating" /\ validated < Len(specs)
    /\ \/ /\ SpecError(validated + 1) = "none"
          /\ validated' = validated + 1
          /\ UNCHANGED <<argv, specs, rest, values, outcome>>
       \/ /\ SpecError(validated + 1) # "none"
          /\ End(SpecError(validated + 1))

Validated == outcome = "validating" /\ validated = Len(specs) /\ End("parsing")

(* handle_long_arg, handle_short_arg, handle_bad_arg: the first argument   *)
(* with the name a word gives, as a set.  The word "--" gives the empty    *)
(* long name, which the arguments without a long name have.                *)
Named(word) ==
    LET matches == {i \in DOMAIN specs :
                       \/ word.dashes = 2 /\ specs[i].name.long = word.text
                       \/ word.dashes = 1 /\ word.text = <<specs[i].name.short>>}
    IN  {i \in matches : \A j \in matches : i <= j}

Parsing == outcome = "parsing" /\ specs # Unspecified /\ rest # <<>>

(* Mutant of Wanted: one word too few is left to the last argument.        *)
WantedButOne(i) == IF specs[i].count = -1 THEN Len(rest) - 2 ELSE specs[i].count

Wanted(i) == IF specs[i].count = -1 THEN Len(rest) - 1 ELSE specs[i].count

(* The words that follow are values, whatever they look like.  A count     *)
(* below -1 is one that no vector can reserve.                             *)
TakeArgument(i) ==
    /\ Parsing /\ i \in Named(Head(rest))
    /\ CASE Wanted(i) > Len(rest) - 1 -> End("not_enough_arguments_supplied")
         [] Wanted(i) < 0             -> End("length_error")
         [] OTHER -> Stored(specs[i].name, SubSeq(rest, 2, Wanted(i) + 1))

(* The end iterator of the specifications is dereferenced.                 *)
TakeUnknown == Parsing /\ Named(Head(rest)) = {} /\ End("undefined")

Missing == \E i \in DOMAIN specs : specs[i].required /\ ~Has(values, specs[i].name)

Parsed == /\ outcome = "parsing" /\ specs # Unspecified /\ rest = <<>>
          /\ End(IF Missing THEN "required_arg_missing" ELSE "done")

-----------------------------------------------------------------------------
(* What the caller does with the map, under the names of its entries.  It  *)
(* may erase them, and nothing else: operator[] (lines 331-356) returns the*)
(* values of an entry by value, decltype(auto) and "return it->second"     *)
(* being what they are, so that what is assigned, added or cleared through *)
(* it is a copy's.                                                         *)

Forms(n) == {m \in {n, [n EXCEPT !.short = NUL], [n EXCEPT !.long = <<>>]} :
                m.long # <<>> \/ m.short # NUL}

AskedFor == UNION {Forms(n) : n \in DOMAIN values}

Returned == outcome \in {"done", "erased"}

(* The overload for a name in both forms is const: no program can call it. *)
Erase(n) ==
    /\ n.long = <<>> \/ n.short = NUL
    /\ Returned /\ Has(values, n)
    /\ values' = Erased(values, n)
    /\ outcome' = "erased"
    /\ UNCHANGED <<argv, specs, validated, rest>>

(* The call is over; the caller may do no more with the map.               *)
Terminated == outcome \notin {"validating", "parsing"} /\ UNCHANGED vars

Parse ==
    \/ FreeLong \/ FreeShort \/ FreeBareDash \/ FreeSkip \/ FreeDone
    \/ Validate \/ Validated \/ TakeUnknown \/ Parsed
    \/ specs # Unspecified /\ \E i \in DOMAIN specs : TakeArgument(i)

Next ==
    \/ Parse
    \/ \E n \in AskedFor : Erase(n)
    \/ Terminated

Spec == Init /\ [][Next]_vars

-----------------------------------------------------------------------------
(* What the calls come to, by definition.                                  *)

Least(S) == CHOOSE i \in S : \A j \in S : i <= j
Greatest(S) == CHOOSE i \in S : \A j \in S : i >= j

(* With names at the places P, the words of the name at i end before ...   *)
NextName(P, i) == Least({j \in P : j > i} \union {Len(argv) + 1})

(* Each name with the words behind its last mention.                       *)
Meaning(P, NameAt(_)) ==
    [n \in {NameAt(i) : i \in P} |->
        LET last == Greatest({i \in P : NameAt(i) = n})
        IN  SubSeq(argv, last + 1, NextName(P, last) - 1)]

FreeName(i) == IF argv[i].dashes = 2 THEN [long |-> argv[i].text, short |-> NUL]
               ELSE [long |-> <<>>, short |-> Head(argv[i].text)]

(* Without a specification: an argument is a word with dashes, has the     *)
(* words up to the next one, and is replaced when it is mentioned again;   *)
(* the call throws exactly when a lone dash is among the words.            *)
FreeParseIsDefined ==
    specs = Unspecified /\ outcome \in Errors \union {"done"} =>
        LET P == {i \in DOMAIN argv : argv[i].dashes > 0}
            throws == \E i \in P : argv[i].dashes = 1 /\ argv[i].text = <<>>
        IN  /\ outcome = IF throws THEN "out_of_range" ELSE "done"
            /\ ~throws => values = Meaning(P, FreeName)

ArgumentAt(i) == CHOOSE j \in Named(argv[i]) : TRUE
SpecifiedName(i) == specs[ArgumentAt(i)].name

(* P cuts the command line into names, each with as many words as its      *)
(* argument takes, or with all that are left.                              *)
Cuts(P) ==
    /\ argv # <<>> => 1 \in P
    /\ \A i \in P :
          /\ Named(argv[i]) # {}
          /\ LET n == specs[ArgumentAt(i)].count
             IN  NextName(P, i) = IF n = -1 THEN Len(argv) + 1 ELSE i + n + 1

(* With a specification: every word is used once, as a name or as a value  *)
(* of the one before, and when the words cannot be cut that way the call   *)
(* throws, as it does when a required argument is not among the names.     *)
SpecifiedParseIsDefined ==
    specs # Unspecified /\ validated = Len(specs)
        /\ outcome \in {"done", "required_arg_missing", "not_enough_arguments_supplied"} =>
        LET cuts == {P \in SUBSET DOMAIN argv : Cuts(P)}
            all(P) == \A j \in DOMAIN specs :
                         specs[j].required => \E i \in P : ArgumentAt(i) = j
        IN  IF outcome = "not_enough_arguments_supplied" THEN cuts = {}
            ELSE \E P \in cuts : /\ values = Meaning(P, SpecifiedName)
                                 /\ outcome = "done" <=> all(P)

(* Both overloads of parse_arguments return, or throw, what the words on   *)
(* the command line mean, whatever they look like and however often an     *)
(* argument is repeated.                                                   *)
ParseIsDefined == FreeParseIsDefined /\ SpecifiedParseIsDefined

(* Whatever form of its name an entry is asked for by (lines 284-368), and *)
(* whatever the caller erased, the search finds that entry: no two entries *)
(* share a name, since validate_arg_specs refuses such specifications.     *)
FormsFindTheirEntry ==
    \A n \in DOMAIN values : \A m \in Forms(n) : FindName(values, m) = {n}

(* erase (lines 370-386), by either form of the name, leaves nothing to   *)
(* find under it.                                                          *)
ErasedIsGone == [][\A n \in AskedFor : Erase(n) => ~Has(values', n)]_vars

(* handle_long_arg and handle_short_arg (lines 158, 176): an argument that *)
(* is not in the specification "will be ignored", and parsing goes on with *)
(* the next word.                                                          *)
UnknownIsIgnored ==
    [][Parsing /\ Named(Head(rest)) = {} =>
          rest' = Tail(rest) /\ UNCHANGED <<values, outcome>>]_vars

=============================================================================
