SPECIFICATION Spec
CHECK_DEADLOCK FALSE
CONSTANTS
    Types <- MCTypes
    least <- MCleast
    greatest <- MCgreatest
    Longs <- MCLongs
    Doubles <- MCDoubles
    EvenDoubles <- MCEvenDoubles
    Epsilon <- MCEpsilon
    Infinity = 1000
    NaN = 5000
    Texts <- MCTexts
    Pointers = {0, 1, 2}
INVARIANTS
    SaysWhatItReads
    Complementary
    DoublesNearEqual
