-------------------------- MODULE ArgumentsProofs --------------------------
(***************************************************************************)
(* What parse_arguments and the map of values promise, for any command     *)
(* lines and any specifications of arguments: an entry is found by every   *)
(* form of its name, and is not found once it was erased by one of them;   *)
(* the map is what the words on the command line mean.                     *)
(***************************************************************************)
EXTENDS Arguments, SequenceTheorems, WellFoundedInduction, TLAPS

-----------------------------------------------------------------------------
(* Searching a map.                                                        *)

IsName(n) == n = [long |-> n.long, short |-> n.short]

(* No two names of K can be taken for one another.                         *)
Distinct(K) == \A m, n \in K : SameName(m, n) => m = n

(* What is found has the name that was asked for.                          *)
LEMMA FoundIs ==
    ASSUME NEW map, NEW n, NEW key \in FindName(map, n)
    PROVE  key \in DOMAIN map /\ SameName(key, n)
<1>1. CASE key \in FindShortName(map, n.short) /\ n.short # NUL
  BY <1>1 DEF FindShortName, Foremost, SameName
<1>2. CASE key \in FindLongName(map, n.long) /\ n.long # <<>>
  BY <1>2 DEF FindLongName, Foremost, SameName
<1> QED BY <1>1, <1>2 DEF FindName

(* A form of a name is the name, or one of its parts.                      *)
LEMMA FormIs ==
    ASSUME NEW n, IsName(n), NEW m \in Forms(n)
    PROVE  /\ m.long \in {n.long, <<>>} /\ m.short \in {n.short, NUL}
           /\ m.long # <<>> \/ m.short # NUL
<1> DEFINE l == n.long
           s == n.short
<1>1. n = [long |-> l, short |-> s]
  BY DEF IsName
<1> HIDE DEF l, s
<1>2. m \in {[long |-> l, short |-> s], [long |-> l, short |-> NUL], [long |-> <<>>, short |-> s]}
      /\ (m.long # <<>> \/ m.short # NUL)
  BY <1>1 DEF Forms
<1>3. m.long \in {l, <<>>} /\ m.short \in {s, NUL}
  BY <1>2
<1> QED BY <1>2, <1>3 DEF l, s

(* Where names are distinct, a form of a name finds the entry of that name *)
(* and no other.                                                           *)
LEMMA FormsFind ==
    ASSUME NEW map, Distinct(DOMAIN map), NEW n \in DOMAIN map, IsName(n), NEW m \in Forms(n)
    PROVE  FindName(map, m) = {n}
<1>1. /\ m.long \in {n.long, <<>>} /\ m.short \in {n.short, NUL}
      /\ m.long # <<>> \/ m.short # NUL
  BY FormIs
<1>2. m.short # NUL => FindShortName(map, m.short) = {n}
  <2> SUFFICES ASSUME m.short # NUL PROVE FindShortName(map, m.short) = {n}
    OBVIOUS
  <2>1. {k \in DOMAIN map : k.short = m.short} = {n}
    BY <1>1 DEF Distinct, SameName
  <2> QED BY <2>1 DEF FindShortName, Foremost
<1>3. m.long # <<>> => FindLongName(map, m.long) = {n}
  <2> SUFFICES ASSUME m.long # <<>> PROVE FindLongName(map, m.long) = {n}
    OBVIOUS
  <2>1. {k \in DOMAIN map : k.long = m.long} = {n}
    BY <1>1 DEF Distinct, SameName
  <2> QED BY <2>1 DEF FindLongName, Foremost
<1> QED BY <1>1, <1>2, <1>3 DEF FindName

(* Where names are distinct, nothing is found by a form of the name of an  *)
(* entry that is gone.                                                     *)
LEMMA NothingFound ==
    ASSUME NEW map, NEW rem, Distinct(DOMAIN map), NEW n \in DOMAIN map, IsName(n),
           NEW m \in Forms(n), DOMAIN rem \subseteq DOMAIN map \ {n}
    PROVE  ~Has(rem, m)
<1> SUFFICES ASSUME NEW key \in FindName(rem, m) PROVE FALSE
  BY DEF Has
<1>1. key \in DOMAIN map /\ key # n /\ SameName(key, m)
  BY FoundIs
<1>2. SameName(key, n)
  BY <1>1, FormIs DEF SameName
<1> QED BY <1>1, <1>2 DEF Distinct

-----------------------------------------------------------------------------
(* The inductive invariant: the parser without a specification makes names *)
(* of one part; the other takes the names of the arguments, and stores     *)
(* nothing before it has looked at all of them, each time comparing with   *)
(* those before.                                                           *)

NamesAt(K) == {specs[i].name : i \in K}

Compared == \A i, j \in 1..validated : SameName(specs[i].name, specs[j].name) => i = j

FreeKeys == \A n \in DOMAIN values : IsName(n) /\ (n.long = <<>> \/ n.short = NUL)

SpecKeys ==
    /\ specs \in Seq(Argument)
    /\ validated \in 0..Len(specs)
    /\ Compared
    /\ outcome = "parsing" => validated = Len(specs)
    /\ DOMAIN values # {} => validated = Len(specs)
    /\ DOMAIN values \subseteq NamesAt(DOMAIN specs)

IInv ==
    /\ specs = Unspecified => outcome # "validating" /\ FreeKeys
    /\ specs # Unspecified => SpecKeys

LEMMA NamesAreDistinct ==
    ASSUME IInv PROVE Distinct(DOMAIN values) /\ \A n \in DOMAIN values : IsName(n)
<1>1. CASE specs = Unspecified
  BY <1>1 DEF IInv, FreeKeys, Distinct, IsName, SameName
<1>2. CASE specs # Unspecified
  <2>1. /\ specs \in Seq(Argument) /\ Compared /\ DOMAIN values \subseteq NamesAt(DOMAIN specs)
        /\ DOMAIN values # {} => validated = Len(specs)
    BY <1>2 DEF IInv, SpecKeys
  <2>2. DOMAIN specs = 1..Len(specs)
    BY <2>1
  <2>3. \A n \in DOMAIN values : IsName(n)
    <3> SUFFICES ASSUME NEW n \in DOMAIN values PROVE IsName(n)
      OBVIOUS
    <3>1. PICK i \in DOMAIN specs : n = specs[i].name
      BY <2>1 DEF NamesAt
    <3>2. specs[i] \in Argument
      BY <2>1
    <3> QED BY <3>1, <3>2 DEF Argument, Name, IsName
  <2>4. ASSUME NEW m \in DOMAIN values, NEW n \in DOMAIN values, SameName(m, n) PROVE m = n
    <3>1. PICK i \in DOMAIN specs : m = specs[i].name
      BY <2>1 DEF NamesAt
    <3>2. PICK j \in DOMAIN specs : n = specs[j].name
      BY <2>1 DEF NamesAt
    <3>3. i \in 1..validated /\ j \in 1..validated
      BY <2>1, <2>2
    <3>4. i = j
      BY <2>1, <2>4, <3>1, <3>2, <3>3 DEF Compared
    <3> QED BY <3>1, <3>2, <3>4
  <2> QED BY <2>3, <2>4 DEF Distinct
<1> QED BY <1>1, <1>2

LEMMA InitIInv == Init => IInv
<1> SUFFICES ASSUME Init PROVE IInv
  OBVIOUS
<1>1. DOMAIN values = {} /\ validated = 0
  BY DEF Init
<1>2. specs # Unspecified => specs \in Seq(Argument) /\ outcome = "validating"
  BY InputAssumption DEF Init
<1>3. specs = Unspecified => outcome = "parsing"
  BY DEF Init
<1> QED BY <1>1, <1>2, <1>3 DEF IInv, FreeKeys, SpecKeys, Compared, NamesAt

(* What stores nothing and does not go on with the specification.          *)
LEMMA OthersKeep ==
    ASSUME IInv, specs' = specs, validated' = validated,
           DOMAIN values' \subseteq DOMAIN values, outcome' # "validating",
           outcome' = "parsing" => outcome = "parsing"
    PROVE  IInv'
<1>1. specs = Unspecified => FreeKeys'
  BY DEF IInv, FreeKeys
<1>2. specs # Unspecified => SpecKeys'
  BY DEF IInv, SpecKeys, Compared, NamesAt
<1> QED BY <1>1, <1>2 DEF IInv

LEMMA FreeStores ==
    ASSUME IInv, specs = Unspecified, NEW n, NEW v, Stored(n, v), IsName(n),
           n.long = <<>> \/ n.short = NUL
    PROVE  IInv'
<1>1. specs' = specs /\ outcome' = outcome /\ DOMAIN values' = DOMAIN values \union {n}
  BY DEF Stored, Insert
<1> QED BY <1>1 DEF IInv, FreeKeys

LEMMA SpecStores ==
    ASSUME IInv, specs # Unspecified, outcome = "parsing", NEW i \in DOMAIN specs, NEW v,
           Stored(specs[i].name, v)
    PROVE  IInv'
<1>1. /\ specs' = specs /\ outcome' = outcome /\ validated' = validated
      /\ DOMAIN values' = DOMAIN values \union {specs[i].name}
  BY DEF Stored, Insert
<1>2. SpecKeys
  BY DEF IInv
<1>3. DOMAIN values' \subseteq NamesAt(DOMAIN specs)
  BY <1>1, <1>2 DEF SpecKeys, NamesAt
<1> QED BY <1>1, <1>2, <1>3 DEF IInv, SpecKeys, Compared, NamesAt

LEMMA ValidateKeeps == ASSUME IInv, Validate PROVE IInv'
<1>1. specs # Unspecified /\ SpecKeys /\ validated < Len(specs)
  BY DEF IInv, Validate
<1> DEFINE k == validated + 1
<1>2. CASE SpecError(k) # "none" /\ End(SpecError(k))
  <2>1. SpecError(k) \in {"param_with_no_name", "multiple_params_with_same_name",
                          "multiple_consume_remaining_args", "none"}
    BY DEF SpecError
  <2>2. outcome' \notin {"validating", "parsing"}
    BY <1>2, <2>1 DEF End
  <2> QED BY <1>2, <2>2, OthersKeep DEF End
<1>3. CASE /\ SpecError(k) = "none" /\ validated' = k
           /\ UNCHANGED <<argv, specs, rest, values, outcome>>
  <2>1. k \in 1..Len(specs) /\ validated \in Nat /\ outcome = "validating"
    BY <1>1 DEF SpecKeys, Validate
  <2>2. \A j \in 1..validated : ~SameName(specs[j].name, specs[k].name)
    <3> SUFFICES ASSUME NEW j \in 1..validated, SameName(specs[j].name, specs[k].name)
                 PROVE  FALSE
      OBVIOUS
    <3>1. j \in 1..(k - 1)
      BY <2>1
    <3> HIDE DEF k
    <3> QED BY <1>3, <3>1 DEF SpecError
  <2>3. \A i, j \in 1..k : SameName(specs[i].name, specs[j].name) => i = j
    <3> SUFFICES ASSUME NEW i \in 1..k, NEW j \in 1..k, SameName(specs[i].name, specs[j].name)
                 PROVE  i = j
      OBVIOUS
    <3>1. SameName(specs[j].name, specs[i].name)
      BY DEF SameName
    <3>2. (i \in 1..validated \/ i = k) /\ (j \in 1..validated \/ j = k)
      BY <2>1
    <3> HIDE DEF k
    <3> QED BY <1>1, <2>2, <3>1, <3>2 DEF SpecKeys, Compared
  <2>4. Compared'
    BY <1>3, <2>3 DEF Compared
  <2> QED BY <1>1, <1>3, <2>1, <2>4 DEF IInv, SpecKeys, NamesAt
<1> QED BY <1>2, <1>3 DEF Validate

LEMMA ParseKeeps == ASSUME IInv, Parse PROVE IInv'
<1>1. CASE FreeLong
  BY <1>1, FreeStores DEF FreeLong, Freely, IsName
<1>2. CASE FreeShort
  BY <1>2, FreeStores DEF FreeShort, Freely, IsName
<1>3. CASE FreeBareDash \/ FreeDone \/ TakeUnknown
  BY <1>3, OthersKeep DEF FreeBareDash, FreeDone, TakeUnknown, End
<1>4. CASE FreeSkip
  BY <1>4, OthersKeep DEF FreeSkip, Freely
<1>5. CASE Validate
  BY <1>5, ValidateKeeps
<1>6. CASE Validated
  <2>1. specs # Unspecified /\ SpecKeys
    BY <1>6 DEF IInv, Validated
  <2> QED BY <1>6, <2>1 DEF Validated, End, IInv, SpecKeys, Compared, NamesAt
<1>7. CASE Parsed
  <2>1. /\ outcome' \in {"required_arg_missing", "done"} /\ specs' = specs
        /\ validated' = validated /\ values' = values
    BY <1>7 DEF Parsed, End
  <2> QED BY <2>1, OthersKeep
<1>8. ASSUME specs # Unspecified, NEW i \in DOMAIN specs, TakeArgument(i) PROVE IInv'
  <2>1. outcome = "parsing"
    BY <1>8 DEF TakeArgument, Parsing
  <2>2. CASE \E how \in {"not_enough_arguments_supplied", "length_error"} : End(how)
    BY <2>2, OthersKeep DEF End
  <2>3. CASE Stored(specs[i].name, SubSeq(rest, 2, Wanted(i) + 1))
    BY <1>8, <2>1, <2>3, SpecStores
  <2> QED BY <1>8, <2>2, <2>3 DEF TakeArgument
<1> QED BY <1>1, <1>2, <1>3, <1>4, <1>5, <1>6, <1>7, <1>8 DEF Parse

LEMMA EraseKeeps == ASSUME IInv, NEW n, Erase(n) PROVE IInv'
<1>1. DOMAIN values' \subseteq DOMAIN values
  BY DEF Erase, Erased
<1> QED BY <1>1, OthersKeep DEF Erase

LEMMA NextKeeps == ASSUME IInv, [Next]_vars PROVE IInv'
<1>1. CASE UNCHANGED vars
  BY <1>1 DEF vars, IInv, FreeKeys, SpecKeys, Compared, NamesAt
<1> QED BY <1>1, ParseKeeps, EraseKeeps DEF Next, Terminated

-----------------------------------------------------------------------------
(* Whatever form of its name an entry is asked for by, the search finds it *)
(* (argument_parsing.hpp:284-368), for any specification that passes       *)
(* validate_arg_specs and after any erasures from the map.                 *)
THEOREM EntriesAreFound == Spec => []FormsFindTheirEntry
<1>1. IInv => FormsFindTheirEntry
  BY NamesAreDistinct, FormsFind DEF FormsFindTheirEntry
<1> QED BY <1>1, InitIInv, NextKeeps, PTL DEF Spec

(* Erasing an entry by either form of its name (lines 370-386) leaves      *)
(* nothing to find under that form, however the map came to be.            *)
THEOREM ErasedStaysGone == Spec => ErasedIsGone
<1>1. ASSUME IInv, NEW n \in AskedFor, Erase(n) PROVE ~Has(values', n)
  <2>1. PICK key \in DOMAIN values : n \in Forms(key)
    BY DEF AskedFor
  <2>2. Distinct(DOMAIN values) /\ IsName(key)
    BY <1>1, NamesAreDistinct
  <2>3. FindName(values, n) = {key}
    BY <2>1, <2>2, FormsFind
  <2>4. DOMAIN values' = DOMAIN values \ {key}
    BY <1>1, <2>3 DEF Erase, Erased
  <2> QED BY <2>1, <2>2, <2>4, NothingFound
<1>2. IInv => [\A n \in AskedFor : Erase(n) => ~Has(values', n)]_vars
  BY <1>1
<1> QED BY <1>2, InitIInv, NextKeeps, PTL DEF Spec, ErasedIsGone

-----------------------------------------------------------------------------
(* Least and greatest members, and the words that are left to read.        *)

(* A nonempty set of numbers has a least member.                           *)
LEMMA LeastIs ==
    ASSUME NEW S, S \subseteq Nat, S # {}
    PROVE  Least(S) \in S /\ \A j \in S : Least(S) <= j
<1> DEFINE R == {p \in Nat \X Nat : p[1] < p[2]}
<1>1. IsWellFoundedOn(R, Nat)
  BY NatLessThanWellFounded DEF OpToRel
<1>2. PICK x \in S : \A y \in S : ~(<<y, x>> \in R)
  <2> HIDE DEF R
  <2> QED BY <1>1, WFMin
<1>3. \A y \in S : x <= y
  <2> SUFFICES ASSUME NEW y \in S, y < x PROVE FALSE
    OBVIOUS
  <2> QED BY <1>2
<1> QED BY <1>3 DEF Least

(* A nonempty set of numbers up to n has a greatest member: the one that   *)
(* is the least behind n.                                                  *)
LEMMA GreatestIs ==
    ASSUME NEW n \in Nat, NEW S, S \subseteq 0..n, S # {}
    PROVE  Greatest(S) \in S /\ \A j \in S : Greatest(S) >= j
<1> DEFINE M == {n - i : i \in S}
<1>1. M \subseteq Nat /\ M # {}
  <2>1. \A i \in S : n - i \in Nat
    OBVIOUS
  <2> QED BY <2>1
<1>2. Least(M) \in M /\ \A j \in M : Least(M) <= j
  <2> HIDE DEF M
  <2> QED BY <1>1, LeastIs
<1>3. PICK i \in S : Least(M) = n - i
  BY <1>2
<1>4. \A j \in S : i >= j
  <2> SUFFICES ASSUME NEW j \in S PROVE i >= j
    OBVIOUS
  <2>1. n - j \in M
    OBVIOUS
  <2>2. n - i <= n - j
    BY <1>2, <1>3, <2>1
  <2> QED BY <2>2
<1> QED BY <1>4 DEF Greatest

(* How many words have been read; the others are in rest.                  *)
Read == Len(argv) - Len(rest)

Lines ==
    /\ argv \in Seq(Word) /\ rest \in Seq(Word)
    /\ Len(rest) <= Len(argv)
    /\ \A i \in 1..Len(rest) : rest[i] = argv[Read + i]

(* Lines, in the terms in which the actions speak of rest.                 *)
LEMMA LinesAre ==
    ASSUME Lines
    PROVE  /\ Len(argv) \in Nat /\ Len(rest) \in Nat /\ Read \in 0..Len(argv)
           /\ rest = <<>> <=> Read = Len(argv)
           /\ rest # <<>> => Read + 1 \in 1..Len(argv) /\ Head(rest) = argv[Read + 1]
           /\ \A i \in 1..Len(argv) : argv[i] \in Word
<1>1. Len(argv) \in Nat /\ Len(rest) \in Nat
  BY DEF Lines
<1>2. rest # <<>> => Len(rest) # 0
  BY EmptySeq DEF Lines
<1>3. rest = <<>> => Len(rest) = 0
  BY EmptySeq
<1>4. rest # <<>> => Head(rest) = rest[1]
  OBVIOUS
<1> QED BY <1>1, <1>2, <1>3, <1>4 DEF Lines, Read

(* Reading a word and the k words behind it.                               *)
LEMMA LinesStep ==
    ASSUME Lines, rest # <<>>, argv' = argv, NEW k \in 0..Len(rest) - 1,
           rest' = SubSeq(rest, k + 2, Len(rest))
    PROVE  Lines' /\ Read' = Read + k + 1
<1>1. Len(argv) \in Nat /\ Len(rest) \in Nat /\ k \in Nat
  BY LinesAre
<1>2. \A i \in k + 2..Len(rest) : rest[i] \in Word
  BY <1>1 DEF Lines
<1>3. /\ rest' \in Seq(Word)
      /\ Len(rest') = Len(rest) - k - 1
      /\ \A i \in 1..Len(rest) - k - 1 : rest'[i] = rest[k + 1 + i]
  <2>1. /\ SubSeq(rest, k + 2, Len(rest)) \in Seq(Word)
        /\ Len(SubSeq(rest, k + 2, Len(rest)))
             = IF k + 2 <= Len(rest) THEN Len(rest) - (k + 2) + 1 ELSE 0
        /\ \A i \in 1..Len(rest) - (k + 2) + 1 :
              SubSeq(rest, k + 2, Len(rest))[i] = rest[k + 2 + i - 1]
    BY <1>1, <1>2, SubSeqProperties
  <2> QED BY <1>1, <2>1
<1>4. Read' = Read + k + 1
  <2> DEFINE a == Len(argv)
             m == Len(rest)
             r == Len(rest')
  <2>1. r = m - k - 1 /\ a \in Nat /\ m \in Nat /\ k \in Nat
    BY <1>1, <1>3
  <2>2. Read = a - m /\ Read' = a - r
    BY DEF Read
  <2> HIDE DEF a, m, r
  <2> QED BY <2>1, <2>2
<1>5. \A i \in 1..Len(rest') : rest'[i] = argv'[Read' + i]
  <2> SUFFICES ASSUME NEW i \in 1..Len(rest') PROVE rest'[i] = argv'[Read' + i]
    OBVIOUS
  <2>1. k + 1 + i \in 1..Len(rest) /\ i \in 1..Len(rest) - k - 1
    BY <1>1, <1>3
  <2>2. rest[k + 1 + i] = argv[Read + (k + 1 + i)]
    BY <2>1 DEF Lines
  <2>3. Read \in Nat /\ k \in Nat /\ i \in Nat
    BY <1>1, LinesAre
  <2>4. Read + (k + 1 + i) = Read' + i
    <3> QED BY <1>4, <2>3
  <2> QED BY <1>3, <2>1, <2>2, <2>4
<1> QED BY <1>1, <1>3, <1>4, <1>5 DEF Lines

(* The k words behind the next one, in rest and on the command line.       *)
LEMMA TakenWords ==
    ASSUME Lines, rest # <<>>, NEW k \in 0..Len(rest) - 1
    PROVE  /\ SubSeq(rest, 2, k + 1) = SubSeq(argv, Read + 2, Read + k + 1)
           /\ Len(SubSeq(rest, 2, k + 1)) = k
<1> DEFINE s == SubSeq(rest, 2, k + 1)
           t == SubSeq(argv, Read + 2, Read + k + 1)
<1>1. Len(argv) \in Nat /\ Len(rest) \in Nat /\ k \in Nat /\ Read \in Nat
  BY LinesAre
<1>2. \A i \in 2..k + 1 : rest[i] \in Word
  BY <1>1 DEF Lines
<1>3. \A i \in Read + 2..Read + k + 1 : argv[i] \in Word
  BY <1>1 DEF Lines, Read
<1>4. /\ s \in Seq(Word) /\ Len(s) = IF 2 <= k + 1 THEN (k + 1) - 2 + 1 ELSE 0
      /\ \A i \in 1..(k + 1) - 2 + 1 : s[i] = rest[2 + i - 1]
  BY <1>1, <1>2, SubSeqProperties
<1>5. /\ t \in Seq(Word)
      /\ Len(t) = IF Read + 2 <= Read + k + 1 THEN (Read + k + 1) - (Read + 2) + 1 ELSE 0
      /\ \A i \in 1..(Read + k + 1) - (Read + 2) + 1 : t[i] = argv[Read + 2 + i - 1]
  <2>1. Read + 2 \in Int /\ Read + k + 1 \in Int
    BY <1>1
  <2> QED BY <1>3, <2>1, SubSeqProperties
<1> HIDE DEF s, t
<1>6. Len(s) = k /\ Len(t) = k
  BY <1>1, <1>4, <1>5
<1>7. \A i \in 1..k : s[i] = t[i]
  <2> SUFFICES ASSUME NEW i \in 1..k PROVE s[i] = t[i]
    OBVIOUS
  <2>1. s[i] = rest[i + 1]
    BY <1>1, <1>4
  <2>2. t[i] = argv[Read + (i + 1)]
    BY <1>1, <1>5
  <2>3. rest[i + 1] = argv[Read + (i + 1)]
    BY <1>1 DEF Lines
  <2> QED BY <2>1, <2>2, <2>3
<1>8. s = t
  BY <1>4, <1>5, <1>6, <1>7, SeqEqual
<1> QED BY <1>6, <1>8 DEF s, t

-----------------------------------------------------------------------------
(* What the map says of the words read so far.                             *)

(* The name at i, for either parser.                                       *)
NameOf(i) == IF specs = Unspecified THEN FreeName(i) ELSE SpecifiedName(i)

(* The words of the name at i end before x, when there are names at T and  *)
(* the next word to be read is at e.                                       *)
EndsAt(T, e, i, x) == x \in T \union {e} /\ x > i /\ \A j \in T : j > i => x <= j

LastOf(T, i) == \A j \in T : j > i => NameOf(j) # NameOf(i)

(* The map has the names at T, each with the words behind its last         *)
(* mention.                                                                *)
Means(T, e) ==
    /\ values = [n \in {NameOf(i) : i \in T} |-> values[n]]
    /\ \A i \in T : \A x \in T \union {e} :
          EndsAt(T, e, i, x) /\ LastOf(T, i)
             => values[NameOf(i)] = SubSeq(argv, i + 1, x - 1)

LEMMA NamesStay ==
    ASSUME argv' = argv, specs' = specs PROVE \A i : NameOf(i)' = NameOf(i)
BY DEF NameOf, FreeName, SpecifiedName, ArgumentAt, Named

(* A further name at p ends the words of the one before, and changes       *)
(* nothing else.                                                           *)
LEMMA EndsInTwo ==
    ASSUME NEW p \in Nat, NEW q \in Nat, NEW T, T \subseteq 1..p - 1, p < q,
           NEW i \in T \union {p}, NEW x, EndsAt(T \union {p}, q, i, x)
    PROVE  (i = p /\ x = q) \/ (i \in T /\ i # p /\ EndsAt(T, p, i, x))
<1>1. \A j \in T : j \in Nat /\ j < p
  OBVIOUS
<1>2. CASE i = p
  BY <1>1, <1>2 DEF EndsAt
<1>3. CASE i \in T
  <2>1. x <= p
    BY <1>1, <1>3 DEF EndsAt
  <2> QED BY <1>1, <1>3, <2>1 DEF EndsAt
<1> QED BY <1>2, <1>3

(* Storing the words behind p, up to q, under the name at p.               *)
LEMMA MeansStep ==
    ASSUME NEW p \in Nat, NEW q \in Nat, NEW T, T \subseteq 1..p - 1, p < q, Means(T, p),
           argv' = argv, specs' = specs,
           values' = Insert(values, NameOf(p), SubSeq(argv, p + 1, q - 1))
    PROVE  Means(T \union {p}, q)'
<1> DEFINE N == {NameOf(i) : i \in T}
           v == SubSeq(argv, p + 1, q - 1)
<1>1. \A i : NameOf(i)' = NameOf(i)
  BY NamesStay
<1>2. DOMAIN values = N
  BY DEF Means
<1>3. values' = [m \in N \union {NameOf(p)} |-> IF m = NameOf(p) THEN v ELSE values[m]]
  BY <1>2 DEF Insert
<1>4. N \union {NameOf(p)} = {NameOf(i)' : i \in T \union {p}}
  BY <1>1
<1>5. values' = [n \in {NameOf(i)' : i \in T \union {p}} |-> values'[n]]
  <2> HIDE DEF N, v
  <2> QED BY <1>3, <1>4
<1>6. ASSUME NEW i \in T \union {p}, NEW x \in T \union {p} \union {q},
             EndsAt(T \union {p}, q, i, x), LastOf(T \union {p}, i)'
      PROVE  values'[NameOf(i)'] = SubSeq(argv', i + 1, x - 1)
  <2>1. CASE i = p /\ x = q
    <3> HIDE DEF N, v
    <3>1. values'[NameOf(p)] = v
      BY <1>3
    <3> QED BY <1>1, <2>1, <3>1 DEF v
  <2>2. CASE i \in T /\ i # p /\ EndsAt(T, p, i, x)
    <3>1. i \in Nat /\ i < p
      BY <2>2
    <3>2. NameOf(i) # NameOf(p) /\ LastOf(T, i)
      BY <1>1, <1>6, <3>1 DEF LastOf
    <3>3. values[NameOf(i)] = SubSeq(argv, i + 1, x - 1)
      BY <2>2, <3>2 DEF Means, EndsAt
    <3>4. NameOf(i) \in N
      BY <2>2
    <3> HIDE DEF N, v
    <3>5. values'[NameOf(i)] = values[NameOf(i)]
      BY <1>3, <3>2, <3>4
    <3> QED BY <1>1, <3>3, <3>5
  <2>3. (i = p /\ x = q) \/ (i \in T /\ i # p /\ EndsAt(T, p, i, x))
    BY <1>6, EndsInTwo
  <2> QED BY <2>1, <2>2, <2>3
<1> QED BY <1>5, <1>6 DEF Means, EndsAt

(* When all is read, NextName says where words end, and Meaning what the   *)
(* map is.                                                                 *)
LEMMA NextIs ==
    ASSUME Len(argv) \in Nat, NEW P, P \subseteq 1..Len(argv), NEW i \in 1..Len(argv)
    PROVE  EndsAt(P, Len(argv) + 1, i, NextName(P, i))
<1> DEFINE S == {j \in P : j > i} \union {Len(argv) + 1}
<1>1. S \subseteq Nat /\ S # {}
  <2>1. \A j \in P : j \in Nat
    OBVIOUS
  <2>2. Len(argv) + 1 \in Nat
    OBVIOUS
  <2> QED BY <2>1, <2>2, Zenon
<1>2. Least(S) \in S /\ \A j \in S : Least(S) <= j
  <2> HIDE DEF S
  <2> QED BY <1>1, LeastIs
<1> QED BY <1>2 DEF NextName, EndsAt

LEMMA MeaningIs ==
    ASSUME Len(argv) \in Nat, NEW T, T \subseteq 1..Len(argv), Means(T, Len(argv) + 1)
    PROVE  values = Meaning(T, NameOf)
<1> DEFINE N == {NameOf(i) : i \in T}
           At(n) == {i \in T : NameOf(i) = n}
           last(n) == Greatest(At(n))
<1>1. ASSUME NEW n \in N
      PROVE  values[n] = SubSeq(argv, last(n) + 1, NextName(T, last(n)) - 1)
  <2>1. At(n) \subseteq 0..Len(argv) /\ At(n) # {}
    OBVIOUS
  <2>2. last(n) \in At(n) /\ \A j \in At(n) : last(n) >= j
    <3> HIDE DEF At
    <3> QED BY <2>1, GreatestIs
  <2>3. last(n) \in T /\ NameOf(last(n)) = n
    BY <2>2
  <2>4. LastOf(T, last(n))
    <3> SUFFICES ASSUME NEW j \in T, j > last(n), NameOf(j) = n PROVE FALSE
      BY <2>3 DEF LastOf
    <3>1. last(n) >= j
      BY <2>2
    <3> HIDE DEF last
    <3> QED BY <2>3, <3>1
  <2>5. EndsAt(T, Len(argv) + 1, last(n), NextName(T, last(n)))
    <3> HIDE DEF last
    <3> QED BY <2>3, NextIs
  <2> HIDE DEF last
  <2> QED BY <2>3, <2>4, <2>5 DEF Means, EndsAt
<1>2. values = [n \in N |-> SubSeq(argv, last(n) + 1, NextName(T, last(n)) - 1)]
  <2>1. values = [n \in N |-> values[n]]
    BY DEF Means
  <2> HIDE DEF N, last
  <2> QED BY <1>1, <2>1
<1> QED BY <1>2 DEF Meaning

-----------------------------------------------------------------------------
(* How the words read so far are divided, and the second inductive         *)
(* invariant.                                                              *)

Bare(i) == argv[i].dashes = 1 /\ argv[i].text = <<>>

(* Without a specification, the names are the words with dashes. A word    *)
(* that is skipped comes before all of them: behind a name no word without *)
(* a dash is left.                                                         *)
FreeDivision(T, e) ==
    /\ T = {i \in 1..e - 1 : argv[i].dashes > 0}
    /\ \A i \in T : ~Bare(i)
    /\ T # {} /\ e <= Len(argv) => argv[e].dashes > 0

(* Where the words of the argument named at i end, by its count.           *)
EndOf(i) == LET n == specs[ArgumentAt(i)].count
            IN  IF n = -1 THEN Len(argv) + 1 ELSE i + n + 1

(* With a specification, the names are those of every division of the      *)
(* whole line into names and their words, as far as it was read; in        *)
(* particular there is one such division at most.                          *)
SpecDivision(T, e) ==
    /\ e > 1 => 1 \in T
    /\ \A i \in T : /\ Named(argv[i]) # {}
                    /\ \A x \in T \union {e} : EndsAt(T, e, i, x) => x = EndOf(i)
    /\ \A P \in SUBSET DOMAIN argv :
          Cuts(P) => P \intersect 1..e - 1 = T /\ (e <= Len(argv) => e \in P)

Division(T, e) ==
    /\ e = Read + 1 /\ T \subseteq 1..Read
    /\ Means(T, e)
    /\ specs = Unspecified => FreeDivision(T, e)
    /\ specs # Unspecified => SpecDivision(T, e)

(* ParseIsDefined is not inductive: while the words are read, a division   *)
(* of those before the cursor has been made, and it is the only one.       *)
PInv ==
    /\ Lines
    /\ specs # Unspecified =>
          \A j \in 1..validated : specs[j].name.long # <<>> \/ specs[j].name.short # NUL
    /\ outcome = "validating" => specs # Unspecified /\ rest = argv /\ values = <<>>
    /\ outcome = "parsing" => \E T, e : Division(T, e)
    /\ ParseIsDefined

(* FollowingValues are the words up to the next one with a dash.           *)
LEMMA Following ==
    ASSUME Lines, rest # <<>>
    PROVE  \E k \in 0..Len(rest) - 1 :
              /\ FollowingValues = SubSeq(rest, 2, k + 1)
              /\ \A i \in 2..k + 1 : rest[i].dashes = 0
              /\ k < Len(rest) - 1 => rest[k + 2].dashes > 0
<1> DEFINE dashed == {i \in 2..Len(rest) : rest[i].dashes > 0}
           S == dashed \union {Len(rest) + 1}
           end == CHOOSE e \in S : \A i \in dashed : e <= i
<1>1. Len(rest) \in Nat \ {0}
  BY EmptySeq DEF Lines
<1>2. S \subseteq Nat /\ S # {}
  <2>1. \A i \in dashed : i \in Nat
    BY <1>1
  <2>2. Len(rest) + 1 \in Nat
    BY <1>1
  <2> HIDE DEF dashed
  <2> QED BY <2>1, <2>2, Zenon
<1>3. \E e \in S : \A i \in dashed : e <= i
  <2>1. Least(S) \in S /\ \A j \in S : Least(S) <= j
    <3> HIDE DEF S
    <3> QED BY <1>2, LeastIs
  <2> HIDE DEF dashed
  <2> QED BY <2>1
<1>4. end \in S /\ \A i \in dashed : end <= i
  <2> HIDE DEF dashed, S
  <2> QED BY <1>3
<1>5. end \in 2..Len(rest) + 1
  <2> HIDE DEF end
  <2> QED BY <1>1, <1>4
<1>6. \A i \in 2..Len(rest) : rest[i].dashes \in {0, 1, 2}
  <2>1. \A i \in 2..Len(rest) : rest[i] \in Word
    BY <1>1 DEF Lines
  <2> QED BY <2>1 DEF Word
<1>7. \A i \in 2..end - 1 : rest[i].dashes = 0
  <2> SUFFICES ASSUME NEW i \in 2..end - 1 PROVE rest[i].dashes = 0
    OBVIOUS
  <2>1. i \in 2..Len(rest) /\ i < end
    <3> HIDE DEF end
    <3> QED BY <1>1, <1>5
  <2>2. i \notin dashed
    <3> HIDE DEF end, dashed
    <3> QED BY <1>4, <1>5, <2>1
  <2> HIDE DEF end
  <2> QED BY <1>6, <2>1, <2>2
<1>8. end < Len(rest) + 1 => rest[end].dashes > 0
  <2> HIDE DEF end
  <2> QED BY <1>1, <1>4
<1>9. FollowingValues = SubSeq(rest, 2, end - 1)
  BY DEF FollowingValues
<1> HIDE DEF end
<1>10. PICK k \in 0..Len(rest) - 1 : end = k + 2
  <2>1. end - 2 \in 0..Len(rest) - 1 /\ end = (end - 2) + 2
    BY <1>1, <1>5
  <2> QED BY <2>1
<1>11. end - 1 = k + 1 /\ (k < Len(rest) - 1 => end < Len(rest) + 1)
  BY <1>1, <1>10
<1> QED BY <1>7, <1>8, <1>9, <1>10, <1>11

(* The free parser stores a name.                                          *)
LEMMA FreeStep ==
    ASSUME PInv, specs = Unspecified, outcome = "parsing", rest # <<>>, Head(rest).dashes > 0,
           ~Bare(Read + 1), Stored(FreeName(Read + 1), FollowingValues)
    PROVE  (\E T, e : Division(T, e))' /\ Lines'
<1>1. PICK T, p : Division(T, p)
  BY DEF PInv
<1>2. PICK k \in 0..Len(rest) - 1 :
              /\ FollowingValues = SubSeq(rest, 2, k + 1)
              /\ \A i \in 2..k + 1 : rest[i].dashes = 0
              /\ k < Len(rest) - 1 => rest[k + 2].dashes > 0
  BY Following DEF PInv
<1>3. /\ Len(argv) \in Nat /\ Len(rest) \in Nat /\ Read \in Nat
      /\ p = Read + 1 /\ p <= Len(argv) /\ Head(rest) = argv[p]
      /\ Lines /\ T \subseteq 1..p - 1 /\ Means(T, p) /\ FreeDivision(T, p)
      /\ Len(rest) = Len(argv) - p + 1
  <2>1. Len(rest) = Len(argv) - Read
    BY LinesAre DEF Read, PInv
  <2>2. p = Read + 1 /\ T \subseteq 1..Read /\ Means(T, p) /\ FreeDivision(T, p)
    BY <1>1 DEF Division
  <2> QED BY <2>1, <2>2, LinesAre DEF PInv
<1> DEFINE q == p + k + 1
<1>4. /\ FollowingValues = SubSeq(argv, p + 1, q - 1) /\ Len(FollowingValues) = k
  <2>1. Read + 2 = p + 1 /\ Read + k + 1 = q - 1
    BY <1>3
  <2> HIDE DEF q
  <2> QED BY <1>2, <1>3, <2>1, TakenWords
<1>5. /\ argv' = argv /\ specs' = specs /\ rest' = SubSeq(rest, k + 2, Len(rest))
      /\ values' = Insert(values, NameOf(p), SubSeq(argv, p + 1, q - 1))
  BY <1>3, <1>4 DEF Stored, NameOf
<1>6. Lines' /\ Read' = q - 1
  <2>1. Lines' /\ Read' = Read + k + 1
    BY <1>3, <1>5, LinesStep
  <2> QED BY <1>3, <2>1
<1>7. q \in Nat /\ p \in Nat /\ p < q /\ k \in Nat
  BY <1>3
<1>8. Means(T \union {p}, q)'
  <2> HIDE DEF q
  <2> QED BY <1>3, <1>5, <1>7, MeansStep
<1>9. \A i \in p + 1..q - 1 : argv[i].dashes = 0
  <2> SUFFICES ASSUME NEW i \in p + 1..q - 1 PROVE argv[i].dashes = 0
    OBVIOUS
  <2>1. PICK j \in 2..k + 1 : i = Read + j /\ j \in 1..Len(rest)
    <3>1. i - Read \in 2..k + 1 /\ i = Read + (i - Read) /\ i - Read \in 1..Len(rest)
      <4> QED BY <1>3, <1>7
    <3> QED BY <3>1
  <2>2. rest[j] = argv[i]
    BY <1>3, <2>1 DEF Lines
  <2> QED BY <1>2, <2>2
<1>10. q <= Len(argv) => argv[q].dashes > 0
  <2> SUFFICES ASSUME q <= Len(argv) PROVE argv[q].dashes > 0
    OBVIOUS
  <2>1. k < Len(rest) - 1 /\ k + 2 \in 1..Len(rest) /\ q = Read + (k + 2)
    <3> QED BY <1>3, <1>7
  <2>2. rest[k + 2] = argv[q]
    BY <1>3, <2>1 DEF Lines
  <2> QED BY <1>2, <2>1, <2>2
<1>11. T \union {p} = {i \in 1..q - 1 : argv[i].dashes > 0}
  <2>1. T = {i \in 1..p - 1 : argv[i].dashes > 0} /\ argv[p].dashes > 0
    BY <1>3 DEF FreeDivision
  <2>2. \A i \in 1..q - 1 : i \in 1..p - 1 \/ i = p \/ i \in p + 1..q - 1
    BY <1>7
  <2>3. 1..p - 1 \subseteq 1..q - 1 /\ p \in 1..q - 1
    BY <1>3, <1>7
  <2> HIDE DEF q
  <2> QED BY <1>9, <2>1, <2>2, <2>3
<1>12. FreeDivision(T \union {p}, q)'
  <2>1. \A i \in T \union {p} : ~Bare(i)
    BY <1>3 DEF FreeDivision
  <2> HIDE DEF q
  <2> QED BY <1>5, <1>10, <1>11, <2>1 DEF FreeDivision, Bare
<1>13. q = Read' + 1 /\ T \union {p} \subseteq 1..Read'
  <2>1. Read' = q - 1 /\ T \subseteq 1..p - 1
    BY <1>3, <1>6
  <2> QED BY <1>3, <1>7, <2>1
<1>14. Division(T \union {p}, q)'
  <2> HIDE DEF q
  <2> QED BY <1>5, <1>8, <1>12, <1>13 DEF Division
<1> QED BY <1>6, <1>14

-----------------------------------------------------------------------------
(* The division made by a specification is the only one there is.          *)

LEMMA CutsStay ==
    ASSUME argv' = argv, specs' = specs PROVE \A P : Cuts(P)' <=> Cuts(P)
BY DEF Cuts, NextName, Named, ArgumentAt

(* What is said of the command line and the specification does not change  *)
(* with the rest.                                                          *)
LEMMA DivisionsStay ==
    ASSUME argv' = argv, specs' = specs, NEW T, NEW e
    PROVE  /\ FreeDivision(T, e)' <=> FreeDivision(T, e)
           /\ SpecDivision(T, e)' <=> SpecDivision(T, e)
<1>1. FreeDivision(T, e)' <=> FreeDivision(T, e)
  BY DEF FreeDivision, Bare
<1>2. \A P : Cuts(P)' <=> Cuts(P)
  BY CutsStay
<1>3. \A i : EndOf(i)' = EndOf(i) /\ Named(argv[i])' = Named(argv[i])
  BY DEF EndOf, Named, ArgumentAt
<1>4. SpecDivision(T, e)' <=> SpecDivision(T, e)
  BY <1>2, <1>3 DEF SpecDivision, EndsAt
<1> QED BY <1>1, <1>4

LEMMA DivisionStays ==
    ASSUME UNCHANGED <<argv, specs, rest, values>>, NEW T, NEW e, Division(T, e)
    PROVE  Division(T, e)'
<1>1. Means(T, e)'
  <2>1. \A i : NameOf(i)' = NameOf(i)
    BY NamesStay
  <2>2. {NameOf(i)' : i \in T} = {NameOf(i) : i \in T} /\ Means(T, e)
    BY <2>1 DEF Division
  <2>3. \A i \in T : LastOf(T, i)' <=> LastOf(T, i)
    BY <2>1 DEF LastOf
  <2> QED BY <2>1, <2>2, <2>3 DEF Means, EndsAt
<1> QED BY <1>1, DivisionsStay DEF Division, Read

LEMMA StartDivides ==
    ASSUME argv \in Seq(Word), rest = argv, values = <<>>
    PROVE  Division({}, 1) /\ Lines
<1>1. Len(argv) \in Nat /\ DOMAIN argv = 1..Len(argv)
  OBVIOUS
<1>2. Read = 0 /\ Lines
  BY <1>1 DEF Read, Lines
<1>3. Means({}, 1)
  BY DEF Means
<1>4. FreeDivision({}, 1)
  BY DEF FreeDivision
<1>5. SpecDivision({}, 1)
  <2>1. ASSUME NEW P \in SUBSET DOMAIN argv, Cuts(P)
        PROVE  P \intersect 1..1 - 1 = {} /\ (1 <= Len(argv) => 1 \in P)
    <3>1. 1 <= Len(argv) => argv # <<>>
      BY <1>1
    <3>2. argv # <<>> => 1 \in P
      BY <2>1 DEF Cuts
    <3> QED BY <3>1, <3>2
  <2> QED BY <2>1 DEF SpecDivision
<1> QED BY <1>2, <1>3, <1>4, <1>5 DEF Division

(* In a division of the whole line, words end where the counts say.        *)
LEMMA CutEnds ==
    ASSUME argv \in Seq(Word), NEW P \in SUBSET DOMAIN argv, Cuts(P), NEW i \in P
    PROVE  EndsAt(P, Len(argv) + 1, i, EndOf(i))
<1>1. Len(argv) \in Nat /\ P \subseteq 1..Len(argv) /\ i \in 1..Len(argv)
  OBVIOUS
<1>2. EndsAt(P, Len(argv) + 1, i, NextName(P, i))
  BY <1>1, NextIs
<1>3. NextName(P, i) = EndOf(i)
  BY DEF Cuts, EndOf
<1> QED BY <1>2, <1>3

(* The next name is in every division of the whole line, and the words it  *)
(* takes are names in none.                                                *)
LEMMA SpecStep ==
    ASSUME argv \in Seq(Word), NEW p \in 1..Len(argv), NEW T, T \subseteq 1..p - 1,
           SpecDivision(T, p), Named(argv[p]) # {},
           NEW q \in p + 1..Len(argv) + 1, q = EndOf(p)
    PROVE  SpecDivision(T \union {p}, q)
<1>1. Len(argv) \in Nat /\ DOMAIN argv = 1..Len(argv) /\ p \in Nat /\ q \in Nat /\ p < q
  OBVIOUS
<1>2. q > 1 => 1 \in T \union {p}
  <2>1. p > 1 => 1 \in T
    BY DEF SpecDivision
  <2> QED BY <1>1, <2>1
<1>3. ASSUME NEW i \in T \union {p}, NEW x \in T \union {p} \union {q},
             EndsAt(T \union {p}, q, i, x)
      PROVE  x = EndOf(i)
  <2>1. (i = p /\ x = q) \/ (i \in T /\ i # p /\ EndsAt(T, p, i, x))
    <3>1. p \in Nat /\ q \in Nat /\ p < q /\ T \subseteq 1..p - 1
      BY <1>1
    <3>2. i \in T \union {p} /\ EndsAt(T \union {p}, q, i, x)
      BY <1>3
    <3> QED BY ONLY <3>1, <3>2, EndsInTwo
  <2>2. ASSUME i \in T, EndsAt(T, p, i, x) PROVE x = EndOf(i)
    <3>1. x \in T \union {p}
      BY <2>2 DEF EndsAt
    <3> QED BY <2>2, <3>1 DEF SpecDivision
  <2> QED BY <2>1, <2>2
<1>4. ASSUME NEW P \in SUBSET DOMAIN argv, Cuts(P)
      PROVE  P \intersect 1..q - 1 = T \union {p} /\ (q <= Len(argv) => q \in P)
  <2>1. P \intersect 1..p - 1 = T /\ p \in P
    BY <1>1, <1>4 DEF SpecDivision
  <2>2. EndsAt(P, Len(argv) + 1, p, q)
    BY <1>4, <2>1, CutEnds
  <2>3. \A j \in P : j > p => q <= j
    BY <2>2 DEF EndsAt
  <2>4. q <= Len(argv) => q \in P
    BY <1>1, <2>2 DEF EndsAt
  <2>5. \A j \in P : j \in 1..q - 1 => j \in 1..p - 1 \/ j = p
    BY <1>1, <1>4, <2>3
  <2>6. \A j \in T \union {p} : j \in P /\ j \in 1..q - 1
    BY <1>1, <2>1
  <2>7. P \intersect 1..q - 1 = T \union {p}
    BY <2>1, <2>5, <2>6
  <2> QED BY <2>4, <2>7
<1>5. \A i \in T \union {p} : Named(argv[i]) # {}
  BY DEF SpecDivision
<1> QED BY <1>2, <1>3, <1>4, <1>5 DEF SpecDivision

(* If the next name wants more words than are left, there is no division.  *)
LEMMA NoCut ==
    ASSUME argv \in Seq(Word), NEW p \in 1..Len(argv), NEW T,
           SpecDivision(T, p), EndOf(p) \notin 1..Len(argv) + 1,
           NEW P \in SUBSET DOMAIN argv
    PROVE  ~Cuts(P)
<1> SUFFICES ASSUME Cuts(P) PROVE FALSE
  OBVIOUS
<1>1. p \in P
  BY DEF SpecDivision
<1>2. EndsAt(P, Len(argv) + 1, p, EndOf(p))
  BY <1>1, CutEnds
<1> QED BY <1>2 DEF EndsAt

-----------------------------------------------------------------------------
(* The parsers read on.                                                    *)

(* Where the parser stands.                                                *)
LEMMA AtWord ==
    ASSUME PInv, outcome = "parsing"
    PROVE  \E T, p : /\ Division(T, p) /\ Means(T, p) /\ T \subseteq 1..p - 1
                     /\ p = Read + 1 /\ p \in 1..Len(argv) + 1
                     /\ Lines /\ argv \in Seq(Word) /\ Len(argv) \in Nat /\ DOMAIN argv = 1..Len(argv)
                     /\ Len(rest) = Len(argv) - p + 1
                     /\ rest = <<>> => p = Len(argv) + 1
                     /\ rest # <<>> => p \in 1..Len(argv) /\ Head(rest) = argv[p]
<1>1. PICK T, p : Division(T, p)
  BY DEF PInv
<1>2. Lines /\ argv \in Seq(Word)
  BY DEF PInv, Lines
<1>3. /\ Len(argv) \in Nat /\ Len(rest) \in Nat /\ Read \in 0..Len(argv)
      /\ rest = <<>> <=> Read = Len(argv)
      /\ rest # <<>> => Read + 1 \in 1..Len(argv) /\ Head(rest) = argv[Read + 1]
  BY <1>2, LinesAre
<1>4. DOMAIN argv = 1..Len(argv)
  BY <1>2
<1>5. Means(T, p) /\ T \subseteq 1..Read /\ p = Read + 1
  BY <1>1 DEF Division
<1>6. Len(rest) = Len(argv) - Read
  BY <1>3 DEF Read
<1>7. /\ T \subseteq 1..p - 1 /\ p \in 1..Len(argv) + 1 /\ Len(rest) = Len(argv) - p + 1
      /\ rest = <<>> => p = Len(argv) + 1
      /\ rest # <<>> => p \in 1..Len(argv) /\ Head(rest) = argv[p]
  <2>1. p - 1 = Read
    <3> QED BY <1>3, <1>5
  <2> QED BY <1>3, <1>5, <1>6, <2>1
<1> QED BY <1>1, <1>2, <1>3, <1>4, <1>5, <1>7

LEMMA SkipStep ==
    ASSUME PInv, FreeSkip PROVE (\E T, e : Division(T, e))' /\ Lines'
<1>1. /\ outcome = "parsing" /\ specs = Unspecified /\ rest # <<>> /\ Head(rest).dashes = 0
      /\ rest' = Tail(rest) /\ argv' = argv /\ specs' = specs /\ values' = values
  BY DEF FreeSkip, Freely
<1>2. PICK T, p : /\ Division(T, p) /\ Means(T, p) /\ p = Read + 1
                  /\ Lines /\ p \in 1..Len(argv) /\ Head(rest) = argv[p]
                  /\ argv \in Seq(Word) /\ Len(argv) \in Nat
                  /\ Len(rest) = Len(argv) - p + 1
  BY <1>1, AtWord
<1>3. rest' = SubSeq(rest, 0 + 2, Len(rest)) /\ 0 \in 0..Len(rest) - 1
  <2>1. rest \in Seq(Word)
    BY <1>2 DEF Lines
  <2> QED BY <1>1, <1>2, <2>1, TailIsSubSeq
<1>4. Lines' /\ Read' = Read + 0 + 1
  BY <1>1, <1>2, <1>3, LinesStep
<1>5. T = {i \in 1..p - 1 : argv[i].dashes > 0} /\ T = {}
  <2>1. FreeDivision(T, p)
    BY <1>1, <1>2 DEF Division
  <2> QED BY <1>1, <1>2, <2>1 DEF FreeDivision
<1> DEFINE q == p + 1
<1>6. {i \in 1..q - 1 : argv[i].dashes > 0} = {}
  <2> SUFFICES ASSUME NEW i \in 1..q - 1, argv[i].dashes > 0 PROVE FALSE
    OBVIOUS
  <2>1. i \in 1..p - 1 \/ i = p
    BY <1>2
  <2>2. i \notin 1..p - 1
    BY <1>5
  <2>3. argv[p].dashes = 0
    BY <1>1, <1>2
  <2> QED BY <2>1, <2>2, <2>3
<1>7. FreeDivision({}, q)
  <2> HIDE DEF q
  <2> QED BY <1>6 DEF FreeDivision
<1>8. Means({}, q)'
  <2>1. values = [n \in {} |-> values[n]]
    BY <1>2, <1>5 DEF Means
  <2> QED BY <1>1, <2>1 DEF Means
<1>9. q = Read' + 1
  <2>1. Read \in Nat
    BY <1>2, LinesAre
  <2> QED BY <1>2, <1>4, <2>1
<1>10. Division({}, q)'
  <2>1. FreeDivision({}, q)'
    BY <1>1, <1>7, DivisionsStay
  <2> HIDE DEF q
  <2> QED BY <1>1, <1>8, <1>9, <2>1 DEF Division
<1> QED BY <1>4, <1>10

(* A word names one argument at most.                                      *)
LEMMA NamedOnce ==
    ASSUME specs \in Seq(Argument), NEW w, NEW i \in Named(w)
    PROVE  i \in DOMAIN specs /\ \A j \in Named(w) : j = i
<1>1. \A j \in DOMAIN specs : j \in Int
  OBVIOUS
<1>2. i \in DOMAIN specs
  BY DEF Named
<1>3. ASSUME NEW j \in Named(w) PROVE i <= j /\ j <= i /\ j \in DOMAIN specs
  BY DEF Named
<1> QED BY <1>1, <1>2, <1>3

(* The specified parser stores an argument.                                *)
LEMMA TakeStep ==
    ASSUME PInv, IInv, specs # Unspecified, NEW i \in DOMAIN specs, TakeArgument(i),
           Stored(specs[i].name, SubSeq(rest, 2, Wanted(i) + 1)),
           Wanted(i) \in 0..Len(rest) - 1
    PROVE  (\E T, e : Division(T, e))' /\ Lines'
<1>1. outcome = "parsing" /\ rest # <<>> /\ i \in Named(Head(rest))
  BY DEF TakeArgument, Parsing
<1>2. PICK T, p : /\ Division(T, p) /\ Means(T, p) /\ T \subseteq 1..p - 1 /\ p = Read + 1
                  /\ Lines /\ p \in 1..Len(argv) /\ Head(rest) = argv[p]
                  /\ argv \in Seq(Word) /\ Len(argv) \in Nat
                  /\ Len(rest) = Len(argv) - p + 1
  BY <1>1, AtWord
<1>3. PICK k \in 0..Len(rest) - 1 : k = Wanted(i)
  OBVIOUS
<1> DEFINE q == p + k + 1
<1>4. ArgumentAt(p) = i /\ specs[i].count \in Int
  <2>1. specs \in Seq(Argument)
    BY DEF IInv, SpecKeys
  <2>2. i \in Named(argv[p])
    BY <1>1, <1>2
  <2>3. \A j \in Named(argv[p]) : j = i
    BY <2>1, <2>2, NamedOnce
  <2>4. specs[i] \in Argument
    BY <2>1
  <2> QED BY <2>2, <2>3, <2>4 DEF ArgumentAt, Argument
<1>5. q = EndOf(p) /\ q \in p + 1..Len(argv) + 1 /\ k \in Nat /\ q \in Nat /\ p \in Nat
  <2>1. p \in Nat /\ k \in Nat /\ q \in p + 1..Len(argv) + 1
    <3>1. /\ p \in 1..Len(argv) /\ Len(argv) \in Nat /\ k \in 0..Len(rest) - 1
          /\ Len(rest) = Len(argv) - p + 1
      BY <1>2
    <3>2. p \in Nat /\ k \in Nat /\ k <= Len(argv) - p
      BY ONLY <3>1
    <3>3. q \in p + 1..Len(argv) + 1
      BY ONLY <3>1, <3>2
    <3> QED BY <3>2, <3>3
  <2>2. EndOf(p) = IF specs[i].count = -1 THEN Len(argv) + 1 ELSE p + specs[i].count + 1
    BY <1>4 DEF EndOf
  <2>3. k = IF specs[i].count = -1 THEN Len(rest) - 1 ELSE specs[i].count
    BY <1>3 DEF Wanted
  <2>4. q = EndOf(p)
    <3>1. CASE specs[i].count = -1
      <4>1. k = Len(rest) - 1 /\ EndOf(p) = Len(argv) + 1
        BY <2>2, <2>3, <3>1
      <4>2. Len(argv) \in Nat /\ p \in Nat /\ Len(rest) = Len(argv) - p + 1
        BY <1>2, <2>1
      <4>3. p + k + 1 = Len(argv) + 1
        BY ONLY <4>1, <4>2
      <4> QED BY <4>1, <4>3
    <3>2. CASE specs[i].count # -1
      BY <2>2, <2>3, <3>2
    <3> QED BY <3>1, <3>2
  <2> QED BY <2>1, <2>4
<1>6. NameOf(p) = specs[i].name
  BY <1>4 DEF NameOf, SpecifiedName
<1>7. SubSeq(rest, 2, k + 1) = SubSeq(argv, p + 1, q - 1) /\ Len(SubSeq(rest, 2, k + 1)) = k
  <2>1. Read + 2 = p + 1 /\ Read + k + 1 = q - 1
    <3>1. Read \in Nat
      BY <1>2, LinesAre
    <3> QED BY <1>2, <1>5, <3>1
  <2> HIDE DEF q
  <2> QED BY <1>1, <1>2, <2>1, TakenWords
<1>8. /\ argv' = argv /\ specs' = specs /\ rest' = SubSeq(rest, k + 2, Len(rest))
      /\ values' = Insert(values, NameOf(p), SubSeq(argv, p + 1, q - 1))
  <2> HIDE DEF q
  <2> QED BY <1>3, <1>6, <1>7 DEF Stored
<1>9. Lines' /\ q = Read' + 1 /\ Read' = q - 1
  <2>1. Lines' /\ Read' = Read + k + 1
    BY <1>1, <1>2, <1>8, LinesStep
  <2>2. Read \in Nat
    BY <1>2, LinesAre
  <2> QED BY <1>2, <1>5, <2>1, <2>2
<1>10. Means(T \union {p}, q)'
  <2>1. p < q
    BY <1>5
  <2> HIDE DEF q
  <2> QED BY <1>2, <1>5, <1>8, <2>1, MeansStep
<1>11. SpecDivision(T \union {p}, q)'
  <2>1. SpecDivision(T, p)
    BY <1>2 DEF Division
  <2>2. Named(argv[p]) # {}
    BY <1>1, <1>2
  <2>3. SpecDivision(T \union {p}, q)
    <3> HIDE DEF q
    <3> QED BY <1>2, <1>5, <2>1, <2>2, SpecStep
  <2> QED BY <1>8, <2>3, DivisionsStay
<1>12. T \union {p} \subseteq 1..Read'
  <2>1. p \in Nat /\ k \in Nat /\ p >= 1 /\ T \subseteq 1..p - 1
    BY <1>2, <1>5
  <2>2. T \union {p} \subseteq 1..q - 1
    BY ONLY <2>1
  <2> QED BY <1>9, <2>2
<1>13. Division(T \union {p}, q)'
  <2> HIDE DEF q
  <2> QED BY <1>8, <1>9, <1>10, <1>11, <1>12 DEF Division
<1> QED BY <1>9, <1>13

-----------------------------------------------------------------------------
(* The free parser answers.                                                *)

(* What does not go on parsing.                                            *)
LEMMA AnswersKeep ==
    ASSUME PInv, UNCHANGED <<argv, specs, rest, validated>>,
           outcome' \notin {"validating", "parsing"}, ParseIsDefined'
    PROVE  PInv'
<1>1. Lines'
  BY DEF PInv, Lines, Read
<1> QED BY <1>1 DEF PInv

(* Outcomes of which ParseIsDefined says nothing.                          *)
LEMMA OthersAnswer ==
    ASSUME PInv, UNCHANGED <<argv, specs, rest, validated>>,
           outcome' \notin {"validating", "parsing"},
           specs = Unspecified => outcome' \notin Errors \union {"done"},
           specs # Unspecified => outcome' \notin {"done", "required_arg_missing",
                                                   "not_enough_arguments_supplied"}
    PROVE  PInv'
<1>1. ParseIsDefined'
  BY DEF ParseIsDefined, FreeParseIsDefined, SpecifiedParseIsDefined, Errors
<1> QED BY <1>1, AnswersKeep

LEMMA MeaningStays ==
    ASSUME argv' = argv, specs' = specs, NEW P
    PROVE  /\ Meaning(P, FreeName)' = Meaning(P, FreeName)
           /\ Meaning(P, SpecifiedName)' = Meaning(P, SpecifiedName)
BY DEF Meaning, NextName, FreeName, SpecifiedName, ArgumentAt, Named

(* The words are used up: the free parser has seen no bare dash.           *)
LEMMA FreeAnswer ==
    ASSUME PInv, specs = Unspecified, outcome = "parsing", rest = <<>>,
           NEW P, P = {i \in DOMAIN argv : argv[i].dashes > 0}
    PROVE  (\A i \in P : ~Bare(i)) /\ values = Meaning(P, FreeName)
<1>1. PICK T, p : /\ Division(T, p) /\ Means(T, p) /\ T \subseteq 1..p - 1
                  /\ p = Len(argv) + 1 /\ Len(argv) \in Nat /\ DOMAIN argv = 1..Len(argv)
  BY AtWord
<1>2. FreeDivision(T, p)
  BY <1>1 DEF Division
<1>3. T = P
  <2>1. p - 1 = Len(argv)
    BY <1>1
  <2> QED BY <1>1, <1>2, <2>1 DEF FreeDivision
<1>4. values = Meaning(T, NameOf)
  <2>1. T \subseteq 1..Len(argv) /\ Means(T, Len(argv) + 1)
    BY <1>1
  <2> QED BY <1>1, <2>1, MeaningIs
<1>5. Meaning(T, NameOf) = Meaning(T, FreeName)
  <2>1. \A i : NameOf(i) = FreeName(i)
    BY DEF NameOf
  <2> QED BY <2>1 DEF Meaning
<1> QED BY <1>2, <1>3, <1>4, <1>5 DEF FreeDivision

LEMMA FreeKeeps ==
    ASSUME PInv, FreeLong \/ FreeShort \/ FreeBareDash \/ FreeSkip \/ FreeDone
    PROVE  PInv'
<1>1. specs = Unspecified /\ outcome = "parsing" /\ Lines
  BY DEF FreeLong, FreeShort, FreeBareDash, FreeSkip, FreeDone, Freely, PInv
<1>2. rest # <<>> => Read + 1 \in DOMAIN argv /\ Head(rest) = argv[Read + 1]
  BY <1>1, AtWord
<1>3. ASSUME (\E T, e : Division(T, e))', Lines', UNCHANGED <<specs, outcome>> PROVE PInv'
  <2>1. ParseIsDefined'
    BY <1>1, <1>3 DEF ParseIsDefined, FreeParseIsDefined, SpecifiedParseIsDefined, Errors
  <2> QED BY <1>1, <1>3, <2>1 DEF PInv
<1>4. CASE FreeLong
  <2>1. /\ rest # <<>> /\ Head(rest).dashes = 2
        /\ Stored([long |-> Head(rest).text, short |-> NUL], FollowingValues)
    BY <1>4 DEF FreeLong, Freely
  <2>2. ~Bare(Read + 1) /\ FreeName(Read + 1) = [long |-> Head(rest).text, short |-> NUL]
    BY <1>2, <2>1 DEF Bare, FreeName
  <2>3. (\E T, e : Division(T, e))' /\ Lines'
    BY <1>1, <2>1, <2>2, FreeStep
  <2> QED BY <1>3, <2>1, <2>3 DEF Stored
<1>5. CASE FreeShort
  <2>1. /\ rest # <<>> /\ Head(rest).dashes = 1 /\ Head(rest).text # <<>>
        /\ Stored([long |-> <<>>, short |-> Head(rest).text[1]], FollowingValues)
    BY <1>5 DEF FreeShort, Freely
  <2>2. ~Bare(Read + 1) /\ FreeName(Read + 1) = [long |-> <<>>, short |-> Head(rest).text[1]]
    BY <1>2, <2>1 DEF Bare, FreeName
  <2>3. (\E T, e : Division(T, e))' /\ Lines'
    BY <1>1, <2>1, <2>2, FreeStep
  <2> QED BY <1>3, <2>1, <2>3 DEF Stored
<1>6. CASE FreeBareDash
  <2>1. /\ rest # <<>> /\ Head(rest).dashes = 1 /\ Head(rest).text = <<>>
        /\ outcome' = "out_of_range" /\ UNCHANGED <<argv, specs, validated, rest, values>>
    BY <1>6 DEF FreeBareDash, Freely, End
  <2>2. /\ Read + 1 \in {i \in DOMAIN argv : argv[i].dashes > 0}
        /\ argv[Read + 1].dashes = 1 /\ argv[Read + 1].text = <<>>
    BY <1>2, <2>1
  <2>3. ParseIsDefined'
    BY <1>1, <2>1, <2>2 DEF ParseIsDefined, FreeParseIsDefined, SpecifiedParseIsDefined
  <2> QED BY <2>1, <2>3, AnswersKeep
<1>7. CASE FreeSkip
  BY <1>3, <1>7, SkipStep DEF FreeSkip
<1>8. CASE FreeDone
  <2>1. rest = <<>> /\ outcome' = "done" /\ UNCHANGED <<argv, specs, validated, rest, values>>
    BY <1>8 DEF FreeDone, End
  <2>2. PICK P : P = {i \in DOMAIN argv : argv[i].dashes > 0}
    OBVIOUS
  <2>3. (\A i \in P : ~Bare(i)) /\ values = Meaning(P, FreeName)
    BY <1>1, <2>1, <2>2, FreeAnswer
  <2>4. values' = Meaning(P, FreeName)'
    BY <2>1, <2>3, MeaningStays
  <2>5. P = {i \in DOMAIN argv' : argv'[i].dashes > 0}
    BY <2>1, <2>2
  <2>6. ~\E i \in P : argv'[i].dashes = 1 /\ argv'[i].text = <<>>
    BY <2>1, <2>3 DEF Bare
  <2>7. FreeParseIsDefined'
    BY <2>1, <2>4, <2>5, <2>6 DEF FreeParseIsDefined
  <2>8. ParseIsDefined'
    BY <1>1, <2>1, <2>7 DEF ParseIsDefined, SpecifiedParseIsDefined
  <2> QED BY <2>1, <2>8, AnswersKeep
<1> QED BY <1>4, <1>5, <1>6, <1>7, <1>8

-----------------------------------------------------------------------------
(* The specified parser answers.                                           *)

LEMMA InitPInv == Init => PInv
<1> SUFFICES ASSUME Init PROVE PInv
  OBVIOUS
<1>1. /\ argv \in Seq(Word) /\ rest = argv /\ values = <<>> /\ validated = 0
      /\ outcome \in {"parsing", "validating"}
      /\ outcome = "validating" => specs # Unspecified
  BY InputAssumption DEF Init
<1>2. Division({}, 1) /\ Lines
  BY <1>1, StartDivides
<1>3. ParseIsDefined
  BY <1>1 DEF ParseIsDefined, FreeParseIsDefined, SpecifiedParseIsDefined, Errors
<1> QED BY <1>1, <1>2, <1>3 DEF PInv

LEMMA ValidatesKeep == ASSUME IInv, PInv, Validate \/ Validated PROVE PInv'
<1>1. /\ outcome = "validating" /\ specs # Unspecified /\ rest = argv /\ values = <<>>
      /\ argv \in Seq(Word) /\ Lines /\ validated \in Nat
  BY DEF Validate, Validated, PInv, Lines, IInv, SpecKeys
<1> DEFINE k == validated + 1
<1>2. CASE SpecError(k) # "none" /\ End(SpecError(k))
  <2>1. SpecError(k) \in {"param_with_no_name", "multiple_params_with_same_name",
                          "multiple_consume_remaining_args", "none"}
    BY DEF SpecError
  <2>2. outcome' \in {"param_with_no_name", "multiple_params_with_same_name",
                      "multiple_consume_remaining_args"}
    BY <1>2, <2>1 DEF End
  <2> QED BY <1>1, <1>2, <2>2, OthersAnswer DEF End
<1>3. CASE /\ SpecError(k) = "none" /\ validated' = k
           /\ UNCHANGED <<argv, specs, rest, values, outcome>>
  <2>1. specs[k].name.long # <<>> \/ specs[k].name.short # NUL
    BY <1>3 DEF SpecError
  <2>2. \A j \in 1..k : specs[j].name.long # <<>> \/ specs[j].name.short # NUL
    <3> SUFFICES ASSUME NEW j \in 1..k
                 PROVE  specs[j].name.long # <<>> \/ specs[j].name.short # NUL
      OBVIOUS
    <3>1. j \in 1..validated \/ j = k
      BY <1>1
    <3> QED BY <1>1, <2>1, <3>1 DEF PInv
  <2>3. Lines'
    BY <1>1, <1>3 DEF Lines, Read
  <2>4. ParseIsDefined'
    BY <1>1, <1>3 DEF ParseIsDefined, FreeParseIsDefined, SpecifiedParseIsDefined, Errors
  <2> HIDE DEF k
  <2> QED BY <1>1, <1>3, <2>2, <2>3, <2>4 DEF PInv
<1>4. CASE Validated
  <2>1. outcome' = "parsing" /\ UNCHANGED <<argv, specs, validated, rest, values>>
    BY <1>4 DEF Validated, End
  <2>2. Division({}, 1)
    BY <1>1, StartDivides
  <2>3. Division({}, 1)'
    BY <2>1, <2>2, DivisionStays
  <2>4. Lines'
    BY <1>1, <2>1 DEF Lines, Read
  <2>5. ParseIsDefined'
    BY <2>1 DEF ParseIsDefined, FreeParseIsDefined, SpecifiedParseIsDefined, Errors
  <2> QED BY <1>1, <2>1, <2>3, <2>4, <2>5 DEF PInv
<1> QED BY <1>2, <1>3, <1>4 DEF Validate

LEMMA TakesKeep ==
    ASSUME IInv, PInv, specs # Unspecified, NEW i \in DOMAIN specs, TakeArgument(i)
    PROVE  PInv'
<1>1. outcome = "parsing" /\ rest # <<>> /\ i \in Named(Head(rest))
  BY DEF TakeArgument, Parsing
<1>2. specs \in Seq(Argument) /\ specs[i].count \in Int
  <2>1. specs \in Seq(Argument)
    BY DEF IInv, SpecKeys
  <2>2. specs[i] \in Argument
    BY <2>1
  <2> QED BY <2>1, <2>2 DEF Argument
<1>3. PICK T, p : /\ Division(T, p) /\ p \in 1..Len(argv) /\ Head(rest) = argv[p]
                  /\ argv \in Seq(Word) /\ Len(argv) \in Nat
                  /\ Len(rest) = Len(argv) - p + 1
  BY <1>1, AtWord
<1>4. Wanted(i) \in Int /\ Len(rest) \in Nat
  <2>1. Len(rest) \in Nat
    BY <1>3
  <2> QED BY <1>2, <2>1 DEF Wanted
<1>5. CASE Wanted(i) > Len(rest) - 1
  <2>1. End("not_enough_arguments_supplied")
    <3>1. ~(Wanted(i) < 0)
      BY <1>3, <1>4, <1>5
    <3> QED BY <1>5, <3>1 DEF TakeArgument
  <2>2. SpecDivision(T, p)
    BY <1>3 DEF Division
  <2>3. ArgumentAt(p) = i
    <3>1. i \in Named(argv[p])
      BY <1>1, <1>3
    <3>2. \A j \in Named(argv[p]) : j = i
      BY <1>2, <3>1, NamedOnce
    <3> QED BY <3>1, <3>2 DEF ArgumentAt
  <2>4. EndOf(p) \notin 1..Len(argv) + 1
    <3>1. specs[i].count # -1
      BY <1>4, <1>5 DEF Wanted
    <3>2. EndOf(p) = p + specs[i].count + 1 /\ specs[i].count > Len(argv) - p
      BY <1>2, <1>3, <1>4, <1>5, <2>3, <3>1 DEF EndOf, Wanted
    <3> QED BY <1>2, <1>3, <3>2
  <2>5. \A P \in SUBSET DOMAIN argv : ~Cuts(P)
    BY <1>3, <2>2, <2>4, NoCut
  <2>6. \A P : Cuts(P)' <=> Cuts(P)
    BY <2>1, CutsStay DEF End
  <2>7. ParseIsDefined'
    BY <2>1, <2>5, <2>6 DEF End, ParseIsDefined, FreeParseIsDefined, SpecifiedParseIsDefined
  <2> QED BY <2>1, <2>7, AnswersKeep DEF End
<1>6. CASE ~(Wanted(i) > Len(rest) - 1) /\ Wanted(i) < 0
  <2>1. End("length_error")
    BY <1>6 DEF TakeArgument
  <2> QED BY <2>1, OthersAnswer DEF End
<1>7. CASE ~(Wanted(i) > Len(rest) - 1) /\ ~(Wanted(i) < 0)
  <2>1. Stored(specs[i].name, SubSeq(rest, 2, Wanted(i) + 1))
    BY <1>7 DEF TakeArgument
  <2>2. Wanted(i) \in 0..Len(rest) - 1
    BY <1>4, <1>7
  <2>3. (\E T1, e : Division(T1, e))' /\ Lines'
    BY <2>1, <2>2, TakeStep
  <2>4. ParseIsDefined'
    BY <1>1, <2>1 DEF Stored, ParseIsDefined, FreeParseIsDefined, SpecifiedParseIsDefined, Errors
  <2> QED BY <1>1, <2>1, <2>3, <2>4 DEF Stored, PInv
<1> QED BY <1>5, <1>6, <1>7

(* The words are used up: the specified parser has made a division, and    *)
(* misses the required arguments that are not named in it.                 *)
LEMMA SpecAnswer ==
    ASSUME IInv, PInv, specs # Unspecified, outcome = "parsing", rest = <<>>
    PROVE  \E P \in SUBSET DOMAIN argv :
              /\ Cuts(P) /\ values = Meaning(P, SpecifiedName)
              /\ ~Missing <=> \A j \in DOMAIN specs :
                                 specs[j].required => \E i \in P : ArgumentAt(i) = j
<1>1. PICK T, p : /\ Division(T, p) /\ Means(T, p) /\ T \subseteq 1..p - 1
                  /\ p = Len(argv) + 1 /\ Len(argv) \in Nat /\ DOMAIN argv = 1..Len(argv)
  BY AtWord
<1>2. SpecDivision(T, p) /\ T \subseteq 1..Len(argv) /\ Means(T, Len(argv) + 1)
  <2>1. p - 1 = Len(argv)
    BY <1>1
  <2> QED BY <1>1, <2>1 DEF Division
<1>3. \A i : NameOf(i) = SpecifiedName(i)
  BY DEF NameOf
<1>4. values = Meaning(T, SpecifiedName)
  <2>1. values = Meaning(T, NameOf)
    BY <1>1, <1>2, MeaningIs
  <2>2. Meaning(T, NameOf) = Meaning(T, SpecifiedName)
    BY <1>3 DEF Meaning
  <2> QED BY <2>1, <2>2
<1>5. Cuts(T)
  <2>1. argv # <<>> => 1 \in T
    <3>1. argv # <<>> => Len(argv) # 0
      BY EmptySeq DEF PInv, Lines
    <3> QED BY <1>1, <1>2, <3>1 DEF SpecDivision
  <2>2. ASSUME NEW i \in T
        PROVE  Named(argv[i]) # {} /\ NextName(T, i) = EndOf(i)
    <3>1. EndsAt(T, Len(argv) + 1, i, NextName(T, i))
      BY <1>1, <1>2, NextIs
    <3>2. NextName(T, i) \in T \union {Len(argv) + 1}
      BY <3>1 DEF EndsAt
    <3> QED BY <1>1, <1>2, <3>1, <3>2 DEF SpecDivision
  <2> QED BY <2>1, <2>2 DEF Cuts, EndOf
<1>6. specs \in Seq(Argument) /\ validated = Len(specs) /\ Compared /\ DOMAIN specs = 1..Len(specs)
  <2>1. specs \in Seq(Argument) /\ validated = Len(specs) /\ Compared
    BY DEF IInv, SpecKeys
  <2> QED BY <2>1
<1>7. ASSUME NEW j \in DOMAIN specs
      PROVE  Has(values, specs[j].name) <=> \E i \in T : ArgumentAt(i) = j
  <2>1. Distinct(DOMAIN values) /\ DOMAIN values = {NameOf(i) : i \in T}
    BY <1>1, NamesAreDistinct DEF Means
  <2>2. ASSUME NEW i \in T, ArgumentAt(i) = j PROVE Has(values, specs[j].name)
    <3> DEFINE n == specs[j].name
    <3>1. n \in DOMAIN values
      BY <1>3, <2>1, <2>2 DEF SpecifiedName
    <3>2. n.long # <<>> \/ n.short # NUL
      BY <1>6 DEF PInv
    <3>3. n \in Forms(n)
      BY <3>2 DEF Forms
    <3>4. IsName(n)
      BY <3>1, NamesAreDistinct
    <3>5. FindName(values, n) = {n}
      <4> HIDE DEF n
      <4> QED BY <2>1, <3>1, <3>3, <3>4, FormsFind
    <3> QED BY <3>5 DEF Has
  <2>3. ASSUME NEW key \in FindName(values, specs[j].name) PROVE \E i \in T : ArgumentAt(i) = j
    <3>1. key \in DOMAIN values /\ SameName(key, specs[j].name)
      BY FoundIs
    <3>2. PICK i \in T : key = specs[ArgumentAt(i)].name
      BY <1>3, <2>1, <3>1 DEF SpecifiedName
    <3>3. ArgumentAt(i) \in DOMAIN specs
      <4>1. Named(argv[i]) # {}
        BY <1>2 DEF SpecDivision
      <4>2. ArgumentAt(i) \in Named(argv[i])
        BY <4>1 DEF ArgumentAt
      <4> QED BY <4>2 DEF Named
    <3>4. ArgumentAt(i) = j
      BY <1>6, <3>1, <3>2, <3>3 DEF Compared
    <3> QED BY <3>4
  <2> QED BY <2>2, <2>3 DEF Has
<1>8. ~Missing <=> \A j \in DOMAIN specs : specs[j].required => \E i \in T : ArgumentAt(i) = j
  BY <1>7 DEF Missing
<1> QED BY <1>1, <1>2, <1>4, <1>5, <1>8

LEMMA ParsedKeeps == ASSUME IInv, PInv, Parsed PROVE PInv'
<1>1. /\ specs # Unspecified /\ outcome = "parsing" /\ rest = <<>>
      /\ outcome' = IF Missing THEN "required_arg_missing" ELSE "done"
      /\ UNCHANGED <<argv, specs, validated, rest, values>>
  BY DEF Parsed, End
<1>2. PICK P \in SUBSET DOMAIN argv :
              /\ Cuts(P) /\ values = Meaning(P, SpecifiedName)
              /\ ~Missing <=> \A j \in DOMAIN specs :
                                 specs[j].required => \E i \in P : ArgumentAt(i) = j
  BY <1>1, SpecAnswer
<1>3. Cuts(P)'
  BY <1>1, <1>2, CutsStay
<1>4. values' = Meaning(P, SpecifiedName)'
  BY <1>1, <1>2, MeaningStays
<1>5. outcome' = "done" <=> \A j \in DOMAIN specs' :
                               specs'[j].required => \E i \in P : ArgumentAt(i)' = j
  <2>1. \A i : ArgumentAt(i)' = ArgumentAt(i)
    BY <1>1 DEF ArgumentAt, Named
  <2> QED BY <1>1, <1>2, <2>1
<1>6. P \in {Q \in SUBSET DOMAIN argv' : Cuts(Q)'}
  BY <1>1, <1>3
<1>7. SpecifiedParseIsDefined'
  BY <1>1, <1>4, <1>5, <1>6 DEF SpecifiedParseIsDefined
<1>8. ParseIsDefined'
  BY <1>1, <1>7 DEF ParseIsDefined, FreeParseIsDefined
<1> QED BY <1>1, <1>8, AnswersKeep

LEMMA NextPInv == ASSUME IInv, PInv, [Next]_vars PROVE PInv'
<1>1. CASE UNCHANGED vars
  <2>1. UNCHANGED <<argv, specs, validated, rest, values, outcome>>
    BY <1>1 DEF vars
  <2>2. ASSUME NEW T, NEW e, Division(T, e) PROVE Division(T, e)'
    BY <2>1, <2>2, DivisionStays
  <2>3. Lines'
    BY <2>1 DEF PInv, Lines, Read
  <2>4. ParseIsDefined'
    <3>1. \A P : /\ Meaning(P, FreeName)' = Meaning(P, FreeName)
                 /\ Meaning(P, SpecifiedName)' = Meaning(P, SpecifiedName)
      BY <2>1, MeaningStays
    <3>2. \A P : Cuts(P)' <=> Cuts(P)
      BY <2>1, CutsStay
    <3>3. \A i : ArgumentAt(i)' = ArgumentAt(i)
      BY <2>1 DEF ArgumentAt, Named
    <3>4. FreeParseIsDefined'
      BY <2>1, <3>1 DEF PInv, ParseIsDefined, FreeParseIsDefined
    <3>5. SpecifiedParseIsDefined'
      BY <2>1, <3>1, <3>2, <3>3 DEF PInv, ParseIsDefined, SpecifiedParseIsDefined
    <3> QED BY <3>4, <3>5 DEF ParseIsDefined
  <2> QED BY <2>1, <2>2, <2>3, <2>4 DEF PInv
<1>2. CASE FreeLong \/ FreeShort \/ FreeBareDash \/ FreeSkip \/ FreeDone
  BY <1>2, FreeKeeps
<1>3. CASE TakeUnknown
  BY <1>3, OthersAnswer DEF TakeUnknown, Parsing, End
<1>4. ASSUME NEW n, Erase(n) PROVE PInv'
  BY <1>4, OthersAnswer DEF Erase, Errors
<1>5. ASSUME specs # Unspecified, NEW i \in DOMAIN specs, TakeArgument(i) PROVE PInv'
  BY <1>5, TakesKeep
<1> QED BY <1>1, <1>2, <1>3, <1>4, <1>5, ValidatesKeep, ParsedKeeps DEF Next, Parse, Terminated

(* Both overloads of parse_arguments (argument_parsing.hpp:403-523)        *)
(* return, or throw, what the words on the command line mean: however      *)
(* often an argument is repeated, whatever the words look like, and        *)
(* whatever the specification is.                                          *)
THEOREM LinesMeanWhatTheySay == Spec => []ParseIsDefined
<1>1. PInv => ParseIsDefined
  BY DEF PInv
<1> QED BY <1>1, InitIInv, NextKeeps, InitPInv, NextPInv, PTL DEF Spec

=============================================================================
