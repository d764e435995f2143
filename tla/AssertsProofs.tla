---------------------------- MODULE AssertsProofs -----------------------------
(***************************************************************************)
(* Proofs about the assertions: for integer types of any widths, any finite *)
(* doubles on which a sum can be rounded, and any texts, what passes and    *)
(* what fails is what the names of the assertions say.                      *)
(*                                                                          *)
(* The arguments never change, so the invariant is that they are those of a *)
(* call, and that the outcome is Fails(call); what is proved from it is the *)
(* arithmetic of the conversions and of the rounding.                       *)
(***************************************************************************)
EXTENDS Asserts, TLAPS

Libs == {"c", "cxx"}

\* The calls, by kind.
IntegerCalls == [kind : {"integer"}, lib : Libs, op : Equalities \cup Orders,
                 T : Types, a : Int, b : Int, takes : Types]
TruthCalls   == [kind : {"truth"}, lib : Libs, op : {"True", "False"}, a : Int]
PointerCalls == [kind : {"pointer"}, lib : Libs,
                 op : Equalities \cup {"Null", "NotNull"}, a : Pointers, b : Pointers]
DoubleCalls  == [kind : {"double"}, lib : Libs, op : Equalities,
                 a : AllDoubles, b : AllDoubles]
TextCalls    == [kind : {"string", "view"}, lib : Libs, op : Equalities,
                 a : Texts, b : Texts]
MemoryCalls  == [kind : {"memory"}, lib : Libs, op : Equalities,
                 a : Texts, b : Texts, length : Nat]

CallType ==
  /\ \/ call \in IntegerCalls \/ call \in TruthCalls \/ call \in PointerCalls
     \/ call \in DoubleCalls \/ call \in TextCalls \/ call \in MemoryCalls
  /\ long \in Types

IInv ==
  /\ CallType
  /\ outcome \in {"called", "returned", "failed"}
  /\ outcome = "returned" => ~Fails(call)
  /\ outcome = "failed" => Fails(call)

----------------------------------------------------------------------------
(* The outcome.                                                             *)

\* A test calls an assertion with arguments of its types.
LEMMA InitIInv == Init => IInv
  <1> SUFFICES ASSUME Init PROVE IInv
    OBVIOUS
  <1> USE DEF CallType, Libs
  <1>1. long \in Types /\ outcome = "called"
    BY TypesAssumption DEF Init
  <1>2. CASE CallIntegers
    <2>1. PICK T \in Types, U \in Types, op \in Equalities \cup Orders :
             \E a \in Values(T), b \in Values(U), lib \in {"c", "cxx"} :
               \E takes \in IF lib = "c" THEN {"int32_t", "int64_t"} ELSE {T} :
                  call = [kind |-> "integer", lib |-> lib, op |-> op, T |-> T, a |-> a,
                          b |-> b, takes |-> takes]
      BY <1>2 DEF CallIntegers
    <2>2. Values(T) \subseteq Int /\ Values(U) \subseteq Int
      BY TypesAssumption DEF Values
    <2>3. call \in IntegerCalls
      BY <2>1, <2>2, TypesAssumption DEF IntegerCalls
    <2> QED
      BY <1>1, <2>3 DEF IInv
  <1>3. CASE CallTruths
    <2>1. PICK lib \in {"c", "cxx"}, op \in {"True", "False"}, T \in Types :
             \E a \in Values(T) : call = [kind |-> "truth", lib |-> lib, op |-> op, a |-> a]
      BY <1>3 DEF CallTruths
    <2>2. Values(T) \subseteq Int
      BY TypesAssumption DEF Values
    <2>3. call \in TruthCalls
      BY <2>1, <2>2 DEF TruthCalls
    <2> QED
      BY <1>1, <2>3 DEF IInv
  <1>4. CASE CallPointers
    <2>1. call \in PointerCalls
      BY <1>4 DEF CallPointers, PointerCalls
    <2> QED
      BY <1>1, <2>1 DEF IInv
  <1>5. CASE CallDoubles
    <2>1. call \in DoubleCalls
      BY <1>5 DEF CallDoubles, DoubleCalls
    <2> QED
      BY <1>1, <2>1 DEF IInv
  <1>6. CASE CallTexts
    <2>1. call \in TextCalls \/ call \in MemoryCalls
      BY <1>6 DEF CallTexts, TextCalls, MemoryCalls
    <2> QED
      BY <1>1, <2>1 DEF IInv
  <1> QED
    BY <1>2, <1>3, <1>4, <1>5, <1>6 DEF Init

\* The outcome is that of the call.
LEMMA StepIInv == IInv /\ [Next]_vars => IInv'
  <1> SUFFICES ASSUME IInv, [Next]_vars PROVE IInv'
    OBVIOUS
  <1>1. UNCHANGED <<call, long>>
    BY DEF Next, Fail, Return, vars
  <1>2. CallType'
    BY <1>1 DEF IInv, CallType
  <1>3. Fails(call)' <=> Fails(call)
    BY <1>1 DEF Fails, IntegerFails, Result, Expected, Parameter
  <1> QED
    BY <1>2, <1>3 DEF IInv, Next, Fail, Return, vars

\* The outcome of a call is its own throughout.
THEOREM Invariance == Spec => []IInv
  BY InitIInv, StepIInv, PTL DEF Spec

\* A call that has an outcome holds where its test for failure is false.
LEMMA HoldsUnlessFails == IInv /\ Decided => (Holds <=> ~Fails(call))
  BY DEF IInv, Decided, Holds

----------------------------------------------------------------------------
(* Integers.                                                                *)

\* A conversion gives a value of the type, and leaves one of its own alone.
LEMMA ConvertLemma ==
  ASSUME NEW T \in Types, NEW v \in Int
  PROVE  /\ Convert(v, T) \in Values(T) /\ Convert(v, T) \in Int
         /\ v \in Values(T) => Convert(v, T) = v
  <1> DEFINE size == greatest[T] - least[T] + 1
  <1>1. least[T] \in Int /\ greatest[T] \in Int /\ size \in Nat /\ size > 0
    BY TypesAssumption
  <1>2. (v - least[T]) % size \in 0..size - 1
    BY <1>1
  <1>3. v \in Values(T) => (v - least[T]) % size = v - least[T]
    BY <1>1 DEF Values
  <1> QED
    BY <1>1, <1>2, <1>3 DEF Convert, Values

\* What reaches the comparison is a value of the type of the parameters.
LEMMA ArgumentsLemma ==
  ASSUME IInv, call.kind = "integer"
  PROVE  /\ call \in IntegerCalls /\ Parameter(call) \in Types
         /\ Result(call) \in Int /\ Expected(call) \in Int
  <1>1. call \in IntegerCalls
    BY DEF IInv, CallType, TruthCalls, PointerCalls, DoubleCalls, TextCalls, MemoryCalls
  <1>2. Parameter(call) \in Types
    BY <1>1 DEF IInv, CallType, IntegerCalls, Parameter
  <1> QED
    BY <1>1, <1>2, ConvertLemma DEF IntegerCalls, Result, Expected

\* An assertion about integers fails by IntegerFails.
LEMMA IntegerVerdict ==
  ASSUME IInv, Decided, call.kind = "integer"
  PROVE  Holds <=> Relation(call.op, Result(call), Expected(call))
  <1>1. Fails(call) <=> IntegerFails(call)
    BY DEF Fails
  <1>2. /\ Holds <=> ~IntegerFails(call)
        /\ Result(call) \in Int /\ Expected(call) \in Int
    BY <1>1, HoldsUnlessFails, ArgumentsLemma
  <1>3. call.op \in {"Equal", "NotEqual", "GreaterThan", "LessThan"}
    BY ArgumentsLemma DEF IntegerCalls, Equalities, Orders
  <1>4. CASE call.op = "Equal"
    BY <1>2, <1>4 DEF IntegerFails, Relation
  <1>5. CASE call.op = "NotEqual"
    BY <1>2, <1>5 DEF IntegerFails, Relation
  <1>6. CASE call.op = "GreaterThan"
    BY <1>2, <1>6 DEF IntegerFails, Relation
  <1>7. CASE call.op = "LessThan"
    BY <1>2, <1>7 DEF IntegerFails, Relation
  <1> QED
    BY <1>3, <1>4, <1>5, <1>6, <1>7

\* Whatever is lost in the conversions, equal values stay equal.
THEOREM EqualsNeverDiffer == Spec => []NoFalseAlarm
  <1>1. ASSUME IInv PROVE NoFalseAlarm
    <2> SUFFICES ASSUME Decided, call.kind = "integer", call.a = call.b
                 PROVE  Holds <=> call.op = "Equal"
      BY DEF NoFalseAlarm
    <2>1. Result(call) = Expected(call) /\ Result(call) \in Int
      BY <1>1, ArgumentsLemma DEF Result, Expected
    <2>2. call.op \in {"Equal", "NotEqual", "GreaterThan", "LessThan"}
      BY <1>1, ArgumentsLemma DEF IntegerCalls, Equalities, Orders
    <2>3. Holds <=> Relation(call.op, Result(call), Result(call))
      BY <1>1, <2>1, IntegerVerdict
    <2>4. CASE call.op \in {"Equal", "NotEqual"}
      BY <2>3, <2>4 DEF Relation
    <2>5. CASE call.op = "GreaterThan"
      BY <2>1, <2>3, <2>5 DEF Relation
    <2>6. CASE call.op = "LessThan"
      BY <2>1, <2>3, <2>6 DEF Relation
    <2> QED
      BY <2>2, <2>4, <2>5, <2>6
  <1> QED
    BY <1>1, Invariance, PTL

----------------------------------------------------------------------------
(* Texts.                                                                   *)

\* Two texts of one length with the same bytes are the same.
LEMMA SameTextLemma ==
  ASSUME NEW s \in Seq(Nat), NEW t \in Seq(Nat)
  PROVE  Len(s) = Len(t) /\ SameMemory(s, t, Len(t)) <=> s = t
  <1>1. ASSUME Len(s) = Len(t), SameMemory(s, t, Len(t)), NEW k \in 1..Len(s)
        PROVE  s[k] = t[k]
    BY <1>1 DEF SameMemory
  <1> QED
    BY <1>1 DEF SameMemory

\* Between values that a parameter can hold nothing is converted, and
\* std::string is compared in full.
THEOREM AssertionsSayWhatTheyRead == Spec => []SaysWhatItReads
  <1>1. ASSUME IInv PROVE SaysWhatItReads
    <2>1. ASSUME Decided, call.kind = "integer",
                 {call.a, call.b} \subseteq Values(Parameter(call))
          PROVE  Holds <=> Relation(call.op, call.a, call.b)
      <3>1. Result(call) = call.a /\ Expected(call) = call.b
        BY <1>1, <2>1, ArgumentsLemma, ConvertLemma DEF IntegerCalls, Result, Expected
      <3> QED
        BY <1>1, <2>1, <3>1, IntegerVerdict
    <2>2. ASSUME Decided, call.kind = "view"
          PROVE  Holds <=> Relation(call.op, call.a, call.b)
      <3>1. /\ call.a \in Seq(Nat) /\ call.b \in Seq(Nat)
            /\ call.op \in {"Equal", "NotEqual"}
        BY <1>1, <2>2, TextsAssumption
           DEF IInv, CallType, IntegerCalls, TruthCalls, PointerCalls, DoubleCalls,
               TextCalls, MemoryCalls, Equalities
      <3>2. Holds <=> ~ViewFails(call)
        BY <1>1, <2>2, HoldsUnlessFails DEF Fails
      <3> QED
        BY <3>1, <3>2, SameTextLemma DEF ViewFails, Relation
    <2> QED
      BY <2>1, <2>2 DEF SaysWhatItReads
  <1> QED
    BY <1>1, Invariance, PTL

----------------------------------------------------------------------------
(* An assertion and its negation.                                           *)

\* Exactly one of an assertion and its negation passes.
LEMMA OppositeVerdicts ==
  ASSUME IInv, Decided
  PROVE  LET other == [call EXCEPT !.op = Opposite(call.op)]
         IN  /\ ~Fails(call) => Fails(other)
             /\ Fails(call) /\ call.op \notin Orders => ~Fails(other)
  <1> DEFINE other == [call EXCEPT !.op = Opposite(call.op)]
  <1> USE DEF Fails, Equalities, Orders
  <1>1. CASE call \in IntegerCalls
    <2>1. ASSUME NEW o, o \in Orders <=> call.op \in Orders
          PROVE  LET with == [call EXCEPT !.op = o]
                 IN  /\ Result(with) = Result(call) /\ Expected(with) = Expected(call)
                     /\ with.kind = "integer" /\ with.op = o
      BY <1>1, <2>1 DEF IntegerCalls, Result, Expected, Parameter
    <2>0. Opposite(call.op) \in Orders <=> call.op \in Orders
      BY <1>1 DEF IntegerCalls, Opposite
    <2>2. /\ Result(other) = Result(call) /\ Expected(other) = Expected(call)
          /\ other.kind = "integer" /\ other.op = Opposite(call.op)
      BY <2>0, <2>1
    <2> HIDE DEF other
    <2>3. /\ Result(call) \in Int /\ Expected(call) \in Int /\ call.kind = "integer"
          /\ call.op \in {"Equal", "NotEqual", "GreaterThan", "LessThan"}
      BY <1>1, ArgumentsLemma DEF IntegerCalls
    <2>4. /\ Fails(call) <=> IntegerFails(call)
          /\ Fails(other) <=> IntegerFails(other)
      BY <2>2, <2>3
    <2> SUFFICES /\ ~Fails(call) => Fails(other)
                 /\ Fails(call) /\ call.op \notin Orders => ~Fails(other)
      BY DEF other
    <2>5. CASE call.op = "Equal"
      BY <2>2, <2>3, <2>4, <2>5 DEF IntegerFails, Opposite
    <2>6. CASE call.op = "NotEqual"
      BY <2>2, <2>3, <2>4, <2>6 DEF IntegerFails, Opposite
    <2>7. CASE call.op = "GreaterThan"
      BY <2>2, <2>3, <2>4, <2>7 DEF IntegerFails, Opposite
    <2>8. CASE call.op = "LessThan"
      BY <2>2, <2>3, <2>4, <2>8 DEF IntegerFails, Opposite
    <2> QED
      BY <2>3, <2>5, <2>6, <2>7, <2>8
  <1>2. CASE call \in TruthCalls
    BY <1>2 DEF TruthCalls, TruthFails, IsTrue, Opposite
  <1>3. CASE call \in PointerCalls
    BY <1>3 DEF PointerCalls, PointerFails, Opposite
  <1>4. CASE call \in DoubleCalls
    BY <1>4 DEF DoubleCalls, DoubleFails, delta, Opposite
  <1>5. CASE call \in TextCalls
    BY <1>5 DEF TextCalls, StringFails, ViewFails, Opposite
  <1>6. CASE call \in MemoryCalls
    BY <1>6 DEF MemoryCalls, MemoryFails, Opposite
  <1> QED
    BY <1>1, <1>2, <1>3, <1>4, <1>5, <1>6 DEF IInv, CallType

\* No assertion passes together with its negation, or fails together with it.
THEOREM NegationsExclude == Spec => []Complementary
  <1>1. IInv => Complementary
    BY OppositeVerdicts, HoldsUnlessFails DEF Complementary
  <1> QED
    BY <1>1, Invariance, PTL

----------------------------------------------------------------------------
(* Doubles.                                                                 *)

\* A rounded sum is a double, no farther from the sum than any other double,
\* and so on the same side of every double as the sum, or equal to it.
LEMMA RoundingLemma ==
  ASSUME NEW x \in Doubles, NEW e \in Epsilons
  PROVE  /\ Nearest(x + e) \in Doubles
         /\ \A y \in Doubles : Distance(x + e, Nearest(x + e)) <= Distance(x + e, y)
         /\ \A y \in Doubles : y <= x + e => y <= Nearest(x + e)
         /\ \A y \in Doubles : y >= x + e => y >= Nearest(x + e)
         /\ Distance(x, Nearest(x + e)) <= 2 * Distance(x, x + e)
  <1>1. x + e \in Int /\ e \in Int
    BY DoublesAssumption DEF Epsilons
  <1>2. Nearest(x + e) \in Near(x + e)
    BY RoundingAssumption DEF Nearest
  <1>3. /\ Nearest(x + e) \in Doubles /\ Nearest(x + e) \in Int
        /\ \A y \in Doubles : Distance(x + e, Nearest(x + e)) <= Distance(x + e, y)
    BY <1>2, DoublesAssumption DEF Near
  <1> HIDE DEF Nearest
  <1>4. \A y \in Doubles : y <= x + e => y <= Nearest(x + e)
    BY <1>1, <1>3, DoublesAssumption DEF Distance
  <1>5. \A y \in Doubles : y >= x + e => y >= Nearest(x + e)
    BY <1>1, <1>3, DoublesAssumption DEF Distance
  <1>6. Distance(x, Nearest(x + e)) <= 2 * Distance(x, x + e)
    BY <1>1, <1>3, DoublesAssumption DEF Distance
  <1> QED
    BY <1>3, <1>4, <1>5, <1>6

\* The comparison of doubles: as near as the library says, give or take the
\* rounding of the two sums, and exact where an argument is not finite.
LEMMA DeltaLemma ==
  ASSUME NEW a \in AllDoubles, NEW b \in AllDoubles, NEW e \in Nat \ {0},
         e \in Epsilons, -e \in Epsilons
  PROVE  LET within == AtLeast(a, Plus[b][-e]) /\ AtLeast(Plus[b][e], a)
         IN  /\ a \in Doubles /\ b \in Doubles /\ Distance(a, b) <= e => within
             /\ a \in Doubles /\ b \in Doubles /\ Distance(a, b) > 2 * e => ~within
             /\ ~(a \in Doubles /\ b \in Doubles) => (within <=> a = b /\ a # NaN)
  <1> DEFINE up == Plus[b][e]
             down == Plus[b][-e]
             within == AtLeast(a, down) /\ AtLeast(up, a)
  <1>1. /\ NaN \in Int /\ Infinity \in Int /\ NaN > Infinity /\ Infinity >= -Infinity
        /\ Doubles \subseteq Int /\ \A x \in Doubles : -Infinity < x /\ x < Infinity
    BY DoublesAssumption
  <1>2. a \in Int /\ b \in Int
    BY <1>1 DEF AllDoubles
  <1>3. b \in Doubles => up = Nearest(b + e) /\ down = Nearest(b + (-e))
    BY DEF Plus, AllDoubles
  <1>4. b \notin Doubles => up = b /\ down = b
    BY DEF Plus, AllDoubles
  <1>5. within <=> a # NaN /\ up # NaN /\ down # NaN /\ a >= down /\ up >= a
    BY DEF AtLeast
  <1> HIDE DEF up, down, within
  <1>6. ASSUME a \in Doubles, b \in Doubles
        PROVE  /\ Distance(a, b) <= e => within
               /\ Distance(a, b) > 2 * e => ~within
    <2>1. /\ up \in Doubles
          /\ a <= b + e => a <= up
          /\ Distance(b, up) <= 2 * Distance(b, b + e)
      BY <1>3, <1>6, RoundingLemma
    <2>2. /\ down \in Doubles
          /\ a >= b + (-e) => a >= down
          /\ Distance(b, down) <= 2 * Distance(b, b + (-e))
      BY <1>3, <1>6, RoundingLemma
    <2>3. within <=> a >= down /\ up >= a
      BY <1>1, <1>5, <1>6, <2>1, <2>2
    <2>4. Distance(b, up) <= 2 * e /\ Distance(b, down) <= 2 * e
      BY <1>2, <2>1, <2>2 DEF Distance
    <2>5. up \in Int /\ down \in Int
      BY <1>1, <2>1, <2>2
    <2> QED
      BY <1>2, <2>1, <2>2, <2>3, <2>4, <2>5 DEF Distance
  <1>7. ASSUME ~(a \in Doubles /\ b \in Doubles)
        PROVE  within <=> a = b /\ a # NaN
    <2>1. CASE b \notin Doubles
      BY <1>2, <1>4, <1>5, <2>1
    <2>2. CASE b \in Doubles
      <3>1. up \in Doubles /\ down \in Doubles
        BY <1>3, <2>2, RoundingLemma
      <3>2. a \in {Infinity, -Infinity, NaN}
        BY <1>7, <2>2 DEF AllDoubles
      <3> QED
        BY <1>1, <1>5, <2>2, <3>1, <3>2
    <2> QED
      BY <2>1, <2>2
  <1> QED
    BY <1>6, <1>7 DEF within, up, down

\* Doubles within the library's epsilon are equal to it, doubles more than two
\* epsilons apart never are; infinities equal themselves, and NaN nothing.
THEOREM NearDoublesAreEqual == Spec => []DoublesNearEqual
  <1>1. ASSUME IInv PROVE DoublesNearEqual
    <2> SUFFICES ASSUME Decided, call.kind = "double"
                 PROVE  DoublesNearEqual
      BY DEF DoublesNearEqual
    <2>1. call \in DoubleCalls
      BY <1>1 DEF IInv, CallType, IntegerCalls, TruthCalls, PointerCalls, TextCalls,
                  MemoryCalls
    <2>2. Holds <=> ~DoubleFails(call)
      BY <1>1, HoldsUnlessFails DEF Fails
    <2>3. (Holds <=> call.op = "Equal") <=> delta(call)
      BY <2>1, <2>2 DEF DoubleCalls, DoubleFails, Equalities
    <2>4. /\ Epsilon[call.lib] \in Nat \ {0}
          /\ Epsilon[call.lib] \in Epsilons /\ -Epsilon[call.lib] \in Epsilons
      <3>1. call.lib = "c" \/ call.lib = "cxx"
        BY <2>1 DEF DoubleCalls, Libs
      <3> QED
        BY <3>1, DoublesAssumption DEF Epsilons
    <2>5. call.a \in AllDoubles /\ call.b \in AllDoubles
      BY <2>1 DEF DoubleCalls
    <2> QED
      BY <2>3, <2>4, <2>5, DeltaLemma DEF delta, DoublesNearEqual
  <1> QED
    BY <1>1, Invariance, PTL
==============================================================================
