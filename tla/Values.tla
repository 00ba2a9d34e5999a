------------------------------- MODULE Values -------------------------------
(***************************************************************************)
(* tools::clamped_value and tools::wrapping_value (src/cpptools/utility/   *)
(* clamped_value.hpp, wrapping_value.hpp) over integer types: a number     *)
(* kept between Min and Max, or in Min..ExMax-1, and assigned, increased   *)
(* and decreased by operands of any integer type.  A type is its sign and  *)
(* its width; the rules of C++ for operands of two types decide where a    *)
(* sum is computed, and where it overflows.                                *)
(***************************************************************************)
EXTENDS Integers

CONSTANTS Instances,  \* the instances of the templates: kind, type and bounds
          Operands,   \* the types of operands
          IntWidth    \* the width of int

IntType == [signed |-> TRUE, bits |-> IntWidth]

MinOf(t) == IF t.signed THEN -(2^(t.bits - 1)) ELSE 0
MaxOf(t) == IF t.signed THEN 2^(t.bits - 1) - 1 ELSE 2^t.bits - 1
Fits(n, t) == n \in MinOf(t)..MaxOf(t)

ASSUME InstanceAssumption ==
    \A inst \in Instances :
        /\ inst.kind \in {"clamped", "wrapping"}
        /\ inst.min < inst.max
        /\ Fits(inst.min, inst.type) /\ Fits(inst.max, inst.type)
        /\ inst.max - inst.min <= MaxOf(IntType)

VARIABLES instance,   \* the template's arguments
          value,      \* _value
          undefined   \* an operation overflowed, or compared with reversed bounds

valueVars == <<instance, value, undefined>>

T == instance.type

(* static_cast to t, modulo its width.                                     *)
Cast(n, t) == IF t.signed THEN ((n - MinOf(t)) % 2^t.bits) + MinOf(t) ELSE n % 2^t.bits

Promoted(t) == IF t.bits < IntWidth THEN IntType ELSE t

(* The type in which operands of types t and u are added.                  *)
Common(t, u) ==
    LET p == Promoted(t)
        q == Promoted(u)
    IN  IF p.bits # q.bits THEN (IF p.bits > q.bits THEN p ELSE q)
        ELSE [p EXCEPT !.signed = p.signed /\ q.signed]

(* A number with its type; undefined after an overflow.                    *)
Typed(n, t) == [number |-> n, type |-> t, defined |-> TRUE]
Computed(n, t) == [number |-> Cast(n, t), type |-> t, defined |-> ~t.signed \/ Fits(n, t)]

Plus(a, b) ==
    LET c == Common(a.type, b.type) IN Computed(Cast(a.number, c) + Cast(b.number, c), c)
Minus(a, b) ==
    LET c == Common(a.type, b.type) IN Computed(Cast(a.number, c) - Cast(b.number, c), c)

(* The remainder of C++ has the sign of the dividend.                      *)
Rem(n, d) == IF n < 0 THEN -((-n) % d) ELSE n % d

(* Mutant of Clamped: what is compared is first made a T.                  *)
ClampedInT(v) ==
    LET n == Cast(v.number, T)
    IN  [number |-> IF n < instance.min THEN instance.min
                    ELSE IF n > instance.max THEN instance.max ELSE n,
         type |-> T, defined |-> TRUE]

(* clamped_value::_constrain: compared in the wider of the two types.      *)
Clamped(v) ==
    LET wider == IF T.bits < v.type.bits THEN v.type ELSE T
        n == Cast(v.number, wider)
        lo == Cast(instance.min, wider)
        hi == Cast(instance.max, wider)
    IN  [number |-> Cast(IF n < lo THEN lo ELSE IF hi < n THEN hi ELSE n, T),
         type |-> T, defined |-> lo <= hi]

(* wrapping_value::_constrain: the distance to Min, modulo the range.      *)
Wrapped(v) ==
    LET distance == Minus(v, Typed(instance.min, T))
        mod == Rem(distance.number, instance.max - instance.min)
        base == IF mod < 0 THEN instance.max ELSE instance.min
    IN  [number |-> Cast(mod + base, T), type |-> T, defined |-> distance.defined]

Constrained(v) == IF instance.kind = "clamped" THEN Clamped(v) ELSE Wrapped(v)

This == Typed(value, T)

(* operator=, operator+= and -=, which + and - have the result of, and     *)
(* v - value, which is computed as value - v.                              *)
Assigned(v)   == Constrained(v)
Increased(v)  == Constrained(Plus(This, v))
Decreased(v)  == Constrained(Minus(This, v))
Subtracted(v) == Decreased(v)

Becomes(result, wellComputed) ==
    /\ ~undefined
    /\ IF wellComputed /\ result.defined
       THEN value' = result.number /\ undefined' = FALSE
       ELSE undefined' = TRUE /\ UNCHANGED value
    /\ UNCHANGED instance

Assign(v)   == Becomes(Assigned(v), TRUE)
Increase(v) == Becomes(Increased(v), Plus(This, v).defined)
Decrease(v) == Becomes(Decreased(v), Minus(This, v).defined)

ValuesInit ==
    /\ instance \in Instances
    /\ value \in instance.min..(IF instance.kind = "clamped" THEN instance.max ELSE instance.max - 1)
    /\ undefined = FALSE

Every == UNION {{Typed(n, t) : n \in MinOf(t)..MaxOf(t)} : t \in Operands}

ValuesNext == \E v \in Every : Assign(v) \/ Increase(v) \/ Decrease(v)

-----------------------------------------------------------------------------
Span == instance.max - instance.min

(* The value kept is in its range, as long as nothing overflowed.          *)
StaysInRange ==
    /\ value >= instance.min
    /\ value < instance.max \/ (instance.kind = "clamped" /\ value = instance.max)

(* Fits(n, t) for what _constrain computes with n of type t.               *)
Representable(n, t) ==
    IF instance.kind = "clamped"
    THEN LET wider == IF T.bits < t.bits THEN t ELSE T
         IN  Fits(n, wider) /\ Fits(instance.min, wider) /\ Fits(instance.max, wider)
    ELSE LET c == Common(t, T)
         IN  Fits(n, c) /\ Fits(instance.min, c) /\ Fits(n - instance.min, c)

(* The value that stands for n: the nearest in range, or the one that is   *)
(* some times the span away.                                               *)
StandsFor(m, n) ==
    IF instance.kind = "clamped"
    THEN m = IF n < instance.min THEN instance.min ELSE IF n > instance.max THEN instance.max ELSE n
    ELSE m \in instance.min..(instance.max - 1) /\ (m - n) % Span = 0

(* It stands for the exact result, for every mix of types in which the     *)
(* numbers at hand can be represented.                                     *)
StandsForTheResult ==
    \A v \in Every :
        LET c == Common(T, v.type)
            exact(n) == Fits(value, c) /\ Fits(v.number, c) /\ Fits(n, c) /\ Representable(n, c)
        IN  /\ Representable(v.number, v.type) => StandsFor(Assigned(v).number, v.number)
            /\ exact(value + v.number) => StandsFor(Increased(v).number, value + v.number)
            /\ exact(value - v.number) => StandsFor(Decreased(v).number, value - v.number)

=============================================================================
