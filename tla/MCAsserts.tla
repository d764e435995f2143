------------------------------ MODULE MCAsserts -------------------------------
(***************************************************************************)
(* Asserts with integer types of 2, 3 and 4 bits in the place of 8, 32 and  *)
(* 64, doubles with a significand of 3 bits, and texts of up to 3 bytes.    *)
(***************************************************************************)
EXTENDS Asserts

MCBits == [T \in Types |->
    CASE T \in {"int8_t", "uint8_t"} -> 2
      [] T \in {"int32_t", "uint32_t"} -> 3
      [] T \in {"int64_t", "uint64_t"} -> 4]
MCTypes == {"int8_t", "uint8_t", "int32_t", "uint32_t", "int64_t", "uint64_t"}
Signed == {"int8_t", "int32_t", "int64_t"}
MCleast == [T \in Types |-> IF T \in Signed THEN -(2 ^ (MCBits[T] - 1)) ELSE 0]
MCgreatest == [T \in Types |-> MCleast[T] + 2 ^ MCBits[T] - 1]
MCLongs == {"int32_t", "int64_t"}

\* 1.0 is 16: the gap above it, 4, is DBL_EPSILON.  The largest doubles are 64
\* apart, more than twice either epsilon.
Positive == 0..7 \cup UNION {{m * 2 ^ k : m \in 4..7} : k \in 1..6}
MCDoubles == Positive \cup {-x : x \in Positive}
EvenPositive == {0, 2, 4, 6} \cup UNION {{m * 2 ^ k : m \in {4, 6}} : k \in 1..6}
MCEvenDoubles == EvenPositive \cup {-x : x \in EvenPositive}
MCEpsilon == [lib \in {"c", "cxx"} |-> IF lib = "c" THEN 4 ELSE 20]

MCTexts == UNION {[1..n -> {0, 1, 2}] : n \in 0..3}
=============================================================================
