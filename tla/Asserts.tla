------------------------------- MODULE Asserts --------------------------------
(***************************************************************************)
(* When an assertion fails: the comparisons of crunch/Core.c and            *)
(* crunch++/core.cxx, with the conversions the arguments go through on the  *)
(* way (the prototypes of crunch.h, the templates of crunch++.h).  What a   *)
(* failure then does to the thread, the counters and the report is the      *)
(* subject of Crunch and CrunchPP.                                          *)
(*                                                                          *)
(* An integer type is its least and its greatest value.  The finite doubles *)
(* are integers with gaps that widen with the magnitude.  A text or a block *)
(* of memory is a sequence of bytes, a pointer a number, NULL being 0.      *)
(***************************************************************************)
EXTENDS Integers, Sequences

CONSTANTS
    Types,           \* the integer types
    least, greatest, \* the ends of each one's range
    Longs,           \* the types long is, on one platform or another
    Doubles,         \* the finite doubles, in some small unit
    EvenDoubles,     \* those with an even significand
    Epsilon,         \* DBL_EPSILON for "c", doubleDelta for "cxx"
    Infinity, NaN,
    Texts,           \* texts and blocks of memory
    Pointers

ASSUME TypesAssumption ==
       /\ {"uint8_t", "int32_t", "int64_t"} \subseteq Types /\ Longs \subseteq Types
       /\ \A T \in Types : least[T] \in Int /\ greatest[T] \in Int /\ least[T] <= greatest[T]
ASSUME DoublesAssumption ==
       /\ Doubles \subseteq Int /\ EvenDoubles \subseteq Doubles
       /\ Infinity \in Nat /\ \A x \in Doubles : -Infinity < x /\ x < Infinity
       /\ NaN \in Int /\ NaN > Infinity
       /\ \A lib \in {"c", "cxx"} : Epsilon[lib] \in Nat \ {0}
ASSUME TextsAssumption == Texts \subseteq Seq(Nat) /\ Pointers \subseteq Nat

VARIABLES
    call,     \* the library, the assertion and its arguments
    long,     \* the type long is
    outcome   \* "called", "returned" or "failed"

vars == <<call, long, outcome>>

Values(T) == least[T]..greatest[T]
Equalities == {"Equal", "NotEqual"}
Orders == {"GreaterThan", "LessThan"}

-----------------------------------------------------------------------------
(* Integers.                                                               *)

\* A value converted to a type: modulo the size of the range.
Convert(v, T) == least[T] + ((v - least[T]) % (greatest[T] - least[T] + 1))

\* The type of the parameters.  A function of the C library has one (int32_t,
\* or int64_t for those with 64 in the name); C++ has an overload of assertEqual()
\* for every type, and long for the orders.
Parameter(c) ==
    IF c.lib = "c" THEN c.takes
    ELSE IF c.op \in Orders THEN long ELSE c.T

\* The first argument reaches it by the call alone, ...
Result(c) == Convert(c.a, Parameter(c))
\* ... the second, when the types differ, through the T(b) of the template.
Expected(c) == Convert(c.b, Parameter(c))

\* Each function tests for the opposite of what it asserts.
IntegerFails_Lax(c) ==
    \/ c.op = "Equal" /\ Result(c) # Expected(c)
    \/ c.op = "NotEqual" /\ Result(c) = Expected(c)
    \/ c.op = "GreaterThan" /\ Result(c) < Expected(c)
    \/ c.op = "LessThan" /\ Result(c) > Expected(c)
IntegerFails(c) ==
    \/ c.op = "Equal" /\ Result(c) # Expected(c)
    \/ c.op = "NotEqual" /\ Result(c) = Expected(c)
    \/ c.op = "GreaterThan" /\ Result(c) <= Expected(c)
    \/ c.op = "LessThan" /\ Result(c) >= Expected(c)

\* assertTrue() and assertFalse() take a uint8_t in C and a bool in C++.
IsTrue(c) == IF c.lib = "c" THEN Convert(c.a, "uint8_t") # 0 ELSE c.a # 0

TruthFails(c) ==
    \/ c.op = "True" /\ ~IsTrue(c)
    \/ c.op = "False" /\ IsTrue(c)

PointerFails(c) ==
    \/ c.op = "Equal" /\ c.a # c.b
    \/ c.op = "NotEqual" /\ c.a = c.b
    \/ c.op = "Null" /\ c.a # 0
    \/ c.op = "NotNull" /\ c.a = 0

-----------------------------------------------------------------------------
(* Doubles.                                                                *)

AllDoubles == Doubles \cup {Infinity, -Infinity, NaN}
Distance(x, y) == IF x < y THEN y - x ELSE x - y

\* The double nearest to a number, and of two the even one.
Near(r) == {x \in Doubles : \A y \in Doubles : Distance(r, x) <= Distance(r, y)}
Nearest(r) == CHOOSE x \in Near(r) : Near(r) = {x} \/ x \in EvenDoubles

Epsilons == {Epsilon["c"], Epsilon["cxx"], -Epsilon["c"], -Epsilon["cxx"]}

\* A sum can be rounded: a double is nearest to it, and of two one is even.
ASSUME RoundingAssumption ==
       \A x \in Doubles, e \in Epsilons :
          \E y \in Near(x + e) : Near(x + e) = {y} \/ y \in EvenDoubles

\* x + e for an e that is no more than a rounding error to the largest doubles.
Plus == [x \in AllDoubles |->
            [e \in Epsilons |-> IF x \in Doubles THEN Nearest(x + e) ELSE x]]

\* Comparisons with NaN are false.
AtLeast(x, y) == x # NaN /\ y # NaN /\ x >= y

\* DELTA of Core.c, delta() of core.cxx.
delta_Below(c) == AtLeast(c.a, Plus[c.b][-Epsilon[c.lib]])
delta(c) ==
    /\ AtLeast(c.a, Plus[c.b][-Epsilon[c.lib]])
    /\ AtLeast(Plus[c.b][Epsilon[c.lib]], c.a)

DoubleFails(c) ==
    \/ c.op = "Equal" /\ ~delta(c)
    \/ c.op = "NotEqual" /\ delta(c)

-----------------------------------------------------------------------------
(* Texts and memory.                                                       *)

Terminated(s) == \E k \in DOMAIN s : s[k] = 0
CString(s) ==
    SubSeq(s, 1, CHOOSE k \in DOMAIN s : s[k] = 0 /\ \A j \in 1..k - 1 : s[j] # 0)

\* memcmp(s, t, n) == 0
SameMemory(s, t, n) == SubSeq(s, 1, n) = SubSeq(t, 1, n)

\* By strcmp().
StringFails(c) ==
    \/ c.op = "Equal" /\ CString(c.a) # CString(c.b)
    \/ c.op = "NotEqual" /\ CString(c.a) = CString(c.b)

\* std::string and std::string_view, as stringView.
ViewFails_Prefix(c) ==
    \/ c.op = "Equal" /\ ~(Len(c.a) = Len(c.b) /\ SameMemory(c.a, c.b, Len(c.b)))
    \/ c.op = "NotEqual" /\ Len(c.a) >= Len(c.b) /\ SameMemory(c.a, c.b, Len(c.b))
ViewFails(c) ==
    \/ c.op = "Equal" /\ ~(Len(c.a) = Len(c.b) /\ SameMemory(c.a, c.b, Len(c.b)))
    \/ c.op = "NotEqual" /\ Len(c.a) = Len(c.b) /\ SameMemory(c.a, c.b, Len(c.b))

MemoryFails(c) ==
    \/ c.op = "Equal" /\ ~SameMemory(c.a, c.b, c.length)
    \/ c.op = "NotEqual" /\ SameMemory(c.a, c.b, c.length)

-----------------------------------------------------------------------------
(* The calls a test may make, and what becomes of one.                     *)

CallIntegers ==
    \E T, U \in Types, op \in Equalities \cup Orders :
       \E a \in Values(T), b \in Values(U), lib \in {"c", "cxx"} :
          \E takes \in IF lib = "c" THEN {"int32_t", "int64_t"} ELSE {T} :
             call = [kind |-> "integer", lib |-> lib, op |-> op, T |-> T, a |-> a, b |-> b,
                     takes |-> takes]

CallTruths ==
    \E lib \in {"c", "cxx"}, op \in {"True", "False"}, T \in Types : \E a \in Values(T) :
       call = [kind |-> "truth", lib |-> lib, op |-> op, a |-> a]

CallPointers ==
    \E lib \in {"c", "cxx"}, op \in Equalities \cup {"Null", "NotNull"}, a, b \in Pointers :
       call = [kind |-> "pointer", lib |-> lib, op |-> op, a |-> a, b |-> b]

CallDoubles ==
    \E lib \in {"c", "cxx"}, op \in Equalities, a, b \in AllDoubles :
       call = [kind |-> "double", lib |-> lib, op |-> op, a |-> a, b |-> b]

\* A char * is terminated, and memory as long as the length says.
CallTexts ==
    \E lib \in {"c", "cxx"}, op \in Equalities, a, b \in Texts :
       \/ /\ Terminated(a) /\ Terminated(b)
          /\ call = [kind |-> "string", lib |-> lib, op |-> op, a |-> a, b |-> b]
       \/ /\ lib = "cxx"
          /\ call = [kind |-> "view", lib |-> lib, op |-> op, a |-> a, b |-> b]
       \/ \E length \in {n \in 0..Len(a) : n <= Len(b)} :
             call = [kind |-> "memory", lib |-> lib, op |-> op, a |-> a, b |-> b,
                     length |-> length]

Init ==
    /\ CallIntegers \/ CallTruths \/ CallPointers \/ CallDoubles \/ CallTexts
    /\ long \in Longs
    /\ outcome = "called"

Fails(c) ==
    \/ c.kind = "integer" /\ IntegerFails(c)
    \/ c.kind = "truth" /\ TruthFails(c)
    \/ c.kind = "pointer" /\ PointerFails(c)
    \/ c.kind = "double" /\ DoubleFails(c)
    \/ c.kind = "string" /\ StringFails(c)
    \/ c.kind = "view" /\ ViewFails(c)
    \/ c.kind = "memory" /\ MemoryFails(c)

\* The failure is reported and the test's thread ended, ...
Fail ==
    /\ outcome = "called" /\ Fails(call)
    /\ outcome' = "failed"
    /\ UNCHANGED <<call, long>>

\* ... or the assertion returns to the test.
Return ==
    /\ outcome = "called" /\ ~Fails(call)
    /\ outcome' = "returned"
    /\ UNCHANGED <<call, long>>

Next == Fail \/ Return

Spec == Init /\ [][Next]_vars

-----------------------------------------------------------------------------
(* Properties.                                                             *)

Decided == outcome # "called"
Holds == outcome = "returned"

\* What a reader of the test takes an assertion to say.
Relation(op, a, b) ==
    CASE op = "Equal" -> a = b
      [] op = "NotEqual" -> a # b
      [] op = "GreaterThan" -> a > b
      [] op = "LessThan" -> a < b

\* An assertion about integers says what it reads as whenever both values are in
\* the range of the parameters; one about std::string always does, whatever bytes
\* the strings hold.
SaysWhatItReads ==
    /\ Decided /\ call.kind = "integer" /\ {call.a, call.b} \subseteq Values(Parameter(call))
          => (Holds <=> Relation(call.op, call.a, call.b))
    /\ Decided /\ call.kind = "view" => (Holds <=> Relation(call.op, call.a, call.b))

\* Whatever the types of the two arguments, and whatever is lost when they are
\* converted: equal values never fail assertEqual() and never pass assertNotEqual(),
\* and no order holds between them.
NoFalseAlarm ==
    Decided /\ call.kind = "integer" /\ call.a = call.b => (Holds <=> call.op = "Equal")

Opposite(op) ==
    CASE op = "Equal" -> "NotEqual" [] op = "NotEqual" -> "Equal"
      [] op = "GreaterThan" -> "LessThan" [] op = "LessThan" -> "GreaterThan"
      [] op = "True" -> "False" [] op = "False" -> "True"
      [] op = "Null" -> "NotNull" [] op = "NotNull" -> "Null"

\* Of an assertion and its negation on the same arguments exactly one passes, NaN
\* and converted integers included; of assertGreaterThan and assertLessThan at
\* most one.
Complementary ==
    LET other == [call EXCEPT !.op = Opposite(call.op)]
    IN  Decided => /\ Holds => Fails(other)
                   /\ ~Holds /\ call.op \notin Orders => ~Fails(other)

\* Doubles no further apart than the library's epsilon count as equal, those more
\* than twice as far apart do not (the sums are rounded), an infinity equals only
\* itself and NaN nothing.
DoublesNearEqual ==
    LET same == Holds <=> call.op = "Equal"
        finite == {call.a, call.b} \subseteq Doubles
        e == Epsilon[call.lib]
    IN  Decided /\ call.kind = "double" =>
           /\ finite /\ Distance(call.a, call.b) <= e => same
           /\ finite /\ Distance(call.a, call.b) > 2 * e => ~same
           /\ ~finite => (same <=> call.a = call.b /\ call.a # NaN)
=============================================================================
