------------------------------- MODULE Strings -------------------------------
(***************************************************************************)
(* The string algorithms (src/cpptools/utility/string.cpp, string.hpp), as *)
(* operators on sequences of characters, counted from 1.  The machine at   *)
(* the end types a text; in every state each algorithm is compared with    *)
(* what its documentation in string.hpp says it returns.                   *)
(***************************************************************************)
EXTENDS Integers, SequencesExt, FiniteSets

CONSTANTS Alphabets,  \* the sets of characters the texts are made of
          MaxLength,  \* the length they may have
          Others,     \* the texts a function of two texts gets as the second
          IntBits,    \* the widths of int and of long long
          LongBits

ASSUME StringsAssumption == IntBits \in Nat \ {0} /\ LongBits \in Nat /\ IntBits <= LongBits

VARIABLE text

Digits == {"0", "1", "2", "3", "4", "5", "6", "7", "8", "9"}
Spaces == {" ", "\t", "\n", "\r"}

NPos == 0

Find(s, c, from) ==
    LET at == {i \in from..Len(s) : s[i] = c} IN IF at = {} THEN NPos ELSE Min(at)

FindEndOfBlock(s, from) ==
    LET at == {i \in from..(Len(s) - 1) : s[i] = "*" /\ s[i + 1] = "/"}
    IN  IF at = {} THEN NPos ELSE Min(at)

Without(s, first, last) == SubSeq(s, 1, first - 1) \o SubSeq(s, last + 1, Len(s))

-----------------------------------------------------------------------------
(* pop_char; pop_cr and pop_lf do the same on a text that is not empty,    *)
(* and are undefined on one that is.                                       *)
PopChar(s, c) == IF s # <<>> /\ Last(s) = c THEN Front(s) ELSE s

(* Erasing moves the characters on the right, which the loop has passed.   *)
StripCr(s) ==
    LET EraseCr(i, t) == IF t[i] = "\r" THEN RemoveAt(t, i) ELSE t
    IN  FoldRightDomain(EraseCr, s, s)

(* Mutant of CommentRanges: a line comment takes its end of line away.     *)
CommentRangesWithNewline(s) ==
    LET ranges[pos \in 1..(Len(s) + 2)] ==
            LET p == Find(s, "/", pos)
                rest(end) == <<[first |-> p, last |-> end]>> \o ranges[end + 1]
            IN  CASE p = NPos \/ p = Len(s) -> <<>>
                  [] s[p + 1] = "/" -> rest(IF Find(s, "\n", p + 2) = NPos THEN Len(s)
                                            ELSE Find(s, "\n", p + 2))
                  [] s[p + 1] = "*" -> rest(IF FindEndOfBlock(s, p + 2) = NPos THEN Len(s)
                                            ELSE FindEndOfBlock(s, p + 2) + 1)
                  [] OTHER -> ranges[p + 1]
    IN  ranges[1]

(* The ranges strip_c_comments collects.  After a block comment it looks   *)
(* for the next one from one character further than its end.               *)
CommentRanges(s) ==
    LET ranges[pos \in 1..(Len(s) + 2)] ==
            LET p == Find(s, "/", pos)
                eol == Find(s, "\n", p + 2)
                end == FindEndOfBlock(s, p + 2)
                last(i) == <<[first |-> p, last |-> i]>>
            IN  CASE p = NPos \/ p = Len(s) -> <<>>
                  [] s[p + 1] = "/" -> IF eol = NPos THEN last(Len(s))
                                       ELSE last(eol - 1) \o ranges[eol + 1]
                  [] s[p + 1] = "*" -> IF end = NPos THEN last(Len(s))
                                       ELSE last(end + 1) \o ranges[end + 3]
                  [] OTHER -> ranges[p + 1]
    IN  ranges[1]

(* They are erased from the last one to the first.                         *)
StripCComments(s) ==
    LET EraseRange(range, t) == Without(t, range.first, range.last)
    IN  FoldRight(EraseRange, CommentRanges(s), s)

(* contains.                                                               *)
ContainsTimes(s, c, n, exact) ==
    LET scan[found \in 0..Len(s), i \in 0..Len(s)] ==
            LET next == Find(s, c, found + 1)
            IN  IF next = NPos THEN exact /\ i = n
                ELSE IF exact /\ i + 1 > n THEN FALSE
                ELSE IF ~exact /\ i + 1 = n THEN TRUE
                ELSE scan[next, i + 1]
    IN  IF s = <<>> THEN n = 0 ELSE IF ~exact /\ n = 0 THEN TRUE ELSE scan[0, 0]

IsInteger(s, acceptMinus) ==
    /\ s # <<>>
    /\ s[1] \in Digits \/ (acceptMinus /\ s[1] = "-")
    /\ \A i \in 2..Len(s) : s[i] \in Digits

IsWhitespace(s) == ToSet(s) \subseteq Spaces

(* First what precedes the first character that is no space goes, then, if *)
(* there is one, what follows the last.                                    *)
Trim(s) ==
    LET kept == {i \in DOMAIN s : s[i] \notin Spaces}
        front == IF kept = {} THEN <<>> ELSE SubSeq(s, Min(kept), Len(s))
        back == {i \in DOMAIN front : front[i] \notin Spaces}
    IN  IF back = {} THEN <<>> ELSE SubSeq(front, 1, Max(back))

-----------------------------------------------------------------------------
(* tokenize and what is built on it.                                       *)

(* What getline finds: a delimiter at the end is not followed by a token.  *)
GetLines(s, d) ==
    LET lines[from \in 1..(Len(s) + 1)] ==
            LET p == Find(s, d, from)
            IN  IF from > Len(s) THEN <<>>
                ELSE IF p = NPos THEN <<SubSeq(s, from, Len(s))>>
                ELSE <<SubSeq(s, from, p - 1)>> \o lines[p + 1]
    IN  lines[1]

NonEmpty(tokens) == SelectSeq(tokens, LAMBDA token : token # <<>>)

(* Mutant of Tokenize: the empty token at the end is forgotten.            *)
TokenizeByLine(s, d, discardEmpty) ==
    IF s = <<>> /\ ~discardEmpty THEN <<s>>
    ELSE IF discardEmpty THEN NonEmpty(GetLines(s, d)) ELSE GetLines(s, d)

Tokenize(s, d, discardEmpty) ==
    IF ~ContainsTimes(s, d, 1, FALSE) THEN IF s = <<>> /\ discardEmpty THEN <<>> ELSE <<s>>
    ELSE IF discardEmpty THEN NonEmpty(GetLines(s, d))
    ELSE IF Last(s) = d THEN Append(GetLines(s, d), <<>>)
    ELSE GetLines(s, d)

(* from_range on texts, with a delimiter and nothing around the elements.  *)
FromRange(tokens, d) ==
    FoldLeftDomain(LAMBDA s, i : s \o tokens[i] \o (IF i = Len(tokens) THEN <<>> ELSE <<d>>),
                   <<>>, tokens)

(* What a call returns, some numbers, or the exception it throws.          *)
Return(ints) == [throws |-> "nothing", ints |-> ints]
Throw(what)  == [throws |-> what, ints |-> <<>>]
Throws(result) == result.throws # "nothing"

Number(s) ==
    LET digit(c) == CHOOSE n \in 0..9 : ToString(n) = c
        magnitude == FoldLeft(LAMBDA n, c : IF c = "-" THEN n ELSE 10 * n + digit(c), 0, s)
    IN  IF s[1] = "-" THEN -magnitude ELSE magnitude

(* stoi and stoll, of a text that is_integer accepts.                      *)
Sto(s, bits) ==
    IF s = <<"-">> THEN Throw("invalid_argument")
    ELSE IF Number(s) \notin -(2^(bits - 1))..(2^(bits - 1) - 1) THEN Throw("out_of_range")
    ELSE Return(<<Number(s)>>)

(* The numbers are kept as size_t, which is as wide as long long.          *)
ParseIntegerSequence(s, d, action) ==
    LET parsed(token) == IF IsInteger(token, TRUE) THEN Sto(token, IntBits)
                         ELSE IF action = "exception" THEN Throw("invalid_argument")
                         ELSE IF action = "zero" THEN Return(<<0>>) ELSE Return(<<>>)
        unsigned(ints) == [i \in DOMAIN ints |-> ints[i] % 2^LongBits]
        Add(result, token) ==
            IF Throws(result) THEN result
            ELSE IF Throws(parsed(token)) THEN parsed(token)
            ELSE Return(result.ints \o unsigned(parsed(token).ints))
    IN  FoldLeft(Add, Return(<<>>), Tokenize(s, d, TRUE))

LongMin == -(2^(LongBits - 1))
LongMax == 2^(LongBits - 1) - 1

(* Mutant of ParseIntRange: the boundaries are left in the order read.     *)
ParseIntRangeAsRead(s, d) ==
    LET tokens == Tokenize(s, d, FALSE)
        bound(t, default) == IF t = <<>> THEN Return(<<default>>) ELSE Sto(t, LongBits)
        left == bound(tokens[1], LongMin)
        right == bound(tokens[2], LongMax)
    IN  IF Len(tokens) # 2 \/ \E i \in DOMAIN tokens : tokens[i] # <<>> /\ ~IsInteger(tokens[i], TRUE)
        THEN Throw("invalid_argument")
        ELSE IF Throws(left) THEN left ELSE IF Throws(right) THEN right
        ELSE Return(left.ints \o right.ints)

(* parse_int_range<long long>.  An omitted right boundary becomes min.     *)
ParseIntRange(s, d) ==
    LET tokens == Tokenize(s, d, FALSE)
        present(i) == tokens[i] # <<>>
        bound(i, default) == IF present(i) THEN Sto(tokens[i], LongBits) ELSE Return(<<default>>)
        both == <<bound(1, LongMin), bound(2, LongMin)>>
        l == both[1].ints[1]
        r == both[2].ints[1]
        single == Sto(s, IntBits)
    IN  CASE Len(tokens) = 1 -> IF ~IsInteger(s, TRUE) THEN Throw("invalid_argument")
                                ELSE IF Throws(single) THEN single
                                ELSE Return(single.ints \o single.ints)
          [] Len(tokens) > 2 -> Throw("invalid_argument")
          [] ~present(1) /\ ~present(2) -> Return(<<LongMin, LongMax>>)
          [] \E i \in 1..2 : present(i) /\ ~IsInteger(tokens[i], TRUE) -> Throw("invalid_argument")
          [] OTHER -> IF Throws(both[1]) THEN both[1]
                      ELSE IF Throws(both[2]) THEN both[2]
                      ELSE IF present(1) /\ present(2) /\ l > r THEN Return(<<r, l>>)
                      ELSE Return(<<l, r>>)

(* Mutant of MultilineConcatenate: it stops with the shorter text.         *)
MultilineConcatenateShorter(s, t) ==
    LET first  == [i \in DOMAIN Tokenize(s, "\n", FALSE) |-> PopChar(Tokenize(s, "\n", FALSE)[i], "\r")]
        second == [i \in DOMAIN Tokenize(t, "\n", FALSE) |-> PopChar(Tokenize(t, "\n", FALSE)[i], "\r")]
        both   == [i \in 1..Min({Len(first), Len(second)}) |-> first[i] \o second[i] \o <<"\n">>]
    IN  PopChar(FlattenSeq(both), "\n")

(* Lines joined while both texts have one, then what is left of either.    *)
MultilineConcatenate(s, t) ==
    LET lines(u) == [i \in DOMAIN Tokenize(u, "\n", FALSE) |->
                        PopChar(Tokenize(u, "\n", FALSE)[i], "\r")]
        first  == lines(s)
        second == lines(t)
        common == Min({Len(first), Len(second)})
        both   == [i \in 1..common |-> first[i] \o second[i] \o <<"\n">>]
        left(u) == [i \in 1..(Len(u) - common) |-> u[common + i] \o <<"\n">>]
    IN  PopChar(FlattenSeq(both \o left(first) \o left(second)), "\n")

-----------------------------------------------------------------------------
TypingInit == text = <<>>

Type(c) == /\ Len(text) < MaxLength
           /\ \E A \in Alphabets : ToSet(text) \union {c} \subseteq A
           /\ text' = Append(text, c)

TypingNext == \E c \in UNION Alphabets : Type(c)

-----------------------------------------------------------------------------
(* What is code and what is comment, read from left to right; what comes   *)
(* right after a block comment is code, whatever it is, where lax holds.   *)
CodeOf(s, lax) ==
    LET at(i, pair) == i < Len(s) /\ <<s[i], s[i + 1]>> = pair
        from[mode \in {"code", "after", "line", "block"}, i \in 1..(Len(s) + 1)] ==
            CASE i > Len(s) -> <<>>
              [] mode = "code" /\ at(i, <<"/", "/">>) -> from["line", i + 2]
              [] mode = "code" /\ at(i, <<"/", "*">>) -> from["block", i + 2]
              [] mode = "line" /\ s[i] = "\n" -> from["code", i]
              [] mode = "block" /\ at(i, <<"*", "/">>) ->
                     from[IF lax THEN "after" ELSE "code", i + 2]
              [] mode \in {"code", "after"} -> <<s[i]>> \o from["code", i + 1]
              [] OTHER -> from[mode, i + 1]
    IN  from["code", 1]

(* string.hpp:43: "Remove all the content that would be considered C / C++ *)
(* comments", and nothing else, whatever slashes and stars surround it; in *)
(* a text where a block comment is followed by a slash the character after *)
(* it stays and opens no comment (string.cpp:87), and all others go.       *)
CommentsAreStripped ==
    /\ StripCComments(text) = CodeOf(text, TRUE)
    /\ (\A i \in 1..(Len(text) - 2) : SubSeq(text, i, i + 2) # <<"*", "/", "/">>) =>
           StripCComments(text) = CodeOf(text, FALSE)

(* A text is its tokens with the delimiter between them.                   *)
TokensMakeTheText ==
    \A d \in UNION Alphabets :
        /\ FromRange(Tokenize(text, d, FALSE), d) = text
        /\ \A i \in DOMAIN Tokenize(text, d, FALSE) : d \notin ToSet(Tokenize(text, d, FALSE)[i])
        /\ Tokenize(text, d, TRUE) = NonEmpty(Tokenize(text, d, FALSE))

(* contains counts what is there; trim takes spaces off both ends and      *)
(* nothing else; strip_cr takes every carriage return.                     *)
TrimmedAndCounted ==
    LET trimmed == Trim(text)
        count(c) == Cardinality({i \in DOMAIN text : text[i] = c})
    IN  /\ trimmed # <<>> => trimmed[1] \notin Spaces /\ Last(trimmed) \notin Spaces
        /\ \E i, j \in 0..Len(text) :
              /\ i + Len(trimmed) = j
              /\ trimmed = SubSeq(text, i + 1, j)
              /\ IsWhitespace(SubSeq(text, 1, i) \o SubSeq(text, j + 1, Len(text)))
        /\ StripCr(text) = SelectSeq(text, LAMBDA c : c # "\r")
        /\ \A c \in UNION Alphabets, n \in 0..(MaxLength + 1) :
              /\ ContainsTimes(text, c, n, TRUE) <=> count(c) = n
              /\ ContainsTimes(text, c, n, FALSE) <=> count(c) >= n

(* With drop and zero the call returns one number for each token that is   *)
(* one, in order, for tokens that fit and are not a lone minus; with       *)
(* exception, it throws at one that is none.                               *)
IntegersAreParsed ==
    LET tokens == Tokenize(text, ":", TRUE)
        number(t) == IsInteger(t, TRUE)
        numbers == SelectSeq(tokens, number)
        all == [i \in DOMAIN tokens |-> IF number(tokens[i]) THEN Number(tokens[i]) ELSE 0]
        kept == [i \in DOMAIN numbers |-> Number(numbers[i])]
        unsigned(ns) == [i \in DOMAIN ns |-> IF ns[i] < 0 THEN ns[i] + 2^LongBits ELSE ns[i]]
    IN  (\A t \in ToSet(numbers) : ~Throws(Sto(t, IntBits))) =>
            /\ ParseIntegerSequence(text, ":", "zero") = Return(unsigned(all))
            /\ ParseIntegerSequence(text, ":", "drop") = Return(unsigned(kept))
            /\ ParseIntegerSequence(text, ":", "exception") =
                  IF numbers = tokens THEN Return(unsigned(all)) ELSE Throw("invalid_argument")

(* The pair is in order whatever the order in the text, and holds the      *)
(* numbers read; an omitted left boundary is the least one.                *)
RangeIsInOrder ==
    LET range == ParseIntRange(text, ":")
        tokens == Tokenize(text, ":", FALSE)
    IN  ~Throws(range) /\ ~(Len(tokens) = 2 /\ tokens[1] # <<>> /\ tokens[2] = <<>>) =>
            /\ range.ints[1] <= range.ints[2]
            /\ ToSet(range.ints) = {Number(t) : t \in ToSet(NonEmpty(tokens))}
                   \union (IF Len(tokens) = 2 /\ tokens[1] = <<>> THEN {LongMin} ELSE {})
                   \union (IF text = <<":">> THEN {LongMax} ELSE {})

(* string.hpp:97, 135-154: "Parse an integer sequence", one number for     *)
(* each token that is one, and ranges whose boundaries are in order, also  *)
(* when they are given the other way round or the left one is omitted; of  *)
(* calls that return (an omitted right boundary and numbers too large: see *)
(* README).                                                                *)
NumbersAreParsed == IntegersAreParsed /\ RangeIsInOrder

(* Two texts are concatenated line by line, with the lines of the longer   *)
(* one at the end; no line is empty (see README).                          *)
LinesAreConcatenated ==
    \A t \in Others :
        LET lines(s) == Tokenize(SelectSeq(s, LAMBDA c : c # "\r"), "\n", FALSE)
            line(s, i) == IF i <= Len(lines(s)) THEN lines(s)[i] ELSE <<>>
            crlfs(s) == \A i \in DOMAIN s : s[i] = "\r" => i = Len(s) \/ s[i + 1] = "\n"
        IN  (\A s \in {text, t} : crlfs(s) /\ <<>> \notin ToSet(Tokenize(s, "\n", FALSE))) =>
               MultilineConcatenate(text, t) =
                  FromRange([i \in 1..Max({Len(lines(text)), Len(lines(t))}) |->
                                line(text, i) \o line(t, i)], "\n")

(* string.hpp:39-75, 115, 244: nothing is lost or added when a text is     *)
(* taken apart or two are joined "line by line": tokens with their         *)
(* delimiter make the text again, also when it starts or ends with one,    *)
(* and discarding leaves out the empty tokens and no other; trim, strip_cr *)
(* and contains see every character that counts.                           *)
NothingIsLost == TokensMakeTheText /\ TrimmedAndCounted /\ LinesAreConcatenated

=============================================================================
