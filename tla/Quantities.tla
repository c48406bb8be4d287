----------------------------- MODULE Quantities -----------------------------
(***************************************************************************)
(* Exact decimal quantities: a coefficient of bounded width times a power  *)
(* of the base.  The code has base 10, 64-bit coefficients, exponents of   *)
(* -18..18 and groups of three digits; all four are parameters here, so    *)
(* that a small instance reaches every boundary.                           *)
(***************************************************************************)
EXTENDS Integers, Sequences, SequencesExt

CONSTANTS Base,           \* 10 in the code
          MaxCoefficient, \* i64::MAX; the smallest is -MaxCoefficient - 1
          MaxExponent,    \* Quantity::MAX_EXPONENT = -Quantity::MIN_EXPONENT
          MaxWide         \* i128::MAX: the width conversions calculate in

ASSUME QuantitiesAssumption ==
    /\ Base \in Nat /\ Base > 1
    /\ MaxCoefficient \in Nat /\ MaxExponent \in Nat /\ MaxExponent % 3 = 0
    /\ MaxWide \in Nat /\ MaxCoefficient < MaxWide

Quantity(c, e, u) == [coefficient |-> c, exponent |-> e, unit |-> u]
FitsCoefficient(c) == c \in -MaxCoefficient - 1 .. MaxCoefficient
FitsWide(c) == c \in -MaxWide - 1 .. MaxWide
Largest(S) == CHOOSE x \in S : \A y \in S : y <= x
Smaller(x, y) == IF x <= y THEN x ELSE y
Magnitude(c) == IF c < 0 THEN -c ELSE c
Signum(c) == IF c < 0 THEN -1 ELSE IF c = 0 THEN 0 ELSE 1

\* The digits of a natural number, most significant first ("0" for zero).
Width(n) == CHOOSE w \in 1 .. n + 1 :
                /\ n < Base ^ w
                /\ \A v \in 1 .. w - 1 : n >= Base ^ v
DigitsOfWidth(n, w) == [i \in 1 .. w |-> (n \div Base ^ (w - i)) % Base]
Digits(n) == DigitsOfWidth(n, Width(n))

Value(digits) == FoldLeft(LAMBDA v, d : v * Base + d, 0, digits)

(***************************************************************************)
(* Normalisation: trailing zeros move into the exponent up to the largest  *)
(* one; an exponent above it is multiplied back into the coefficient.      *)
(***************************************************************************)
TrailingZeros(c, limit) ==
    Largest({j \in 0 .. Largest({0, limit}) : c % Base ^ j = 0})

\* What a conversion returns: a value, or the error it stops with.
Ok(v) == [value |-> v, error |-> "no"]
Err(kind) == [value |-> 0, error |-> kind]
IsOk(result) == result.error = "no"

Settle(c, e, u) ==
    IF e < -MaxExponent THEN Err("exponent")
    ELSE IF ~FitsCoefficient(c) THEN Err("coefficient")
    ELSE Ok(Quantity(c, e, u))
MultiplyBack(c, e, u) ==
    IF e <= MaxExponent THEN Settle(c, e, u)
    ELSE Settle(c * Base ^ (e - MaxExponent), MaxExponent, u)
TakeZeros(c, e, u, zeros) == MultiplyBack(c \div Base ^ zeros, e + zeros, u)
Normalize(c, e, u) ==
    IF c = 0 THEN Ok(Quantity(0, 0, u))
    ELSE TakeZeros(c, e, u, TrailingZeros(c, MaxExponent - e))

\* Quantity::new keeps what it was given when there is no normal form.
OrElse(result, v) == IF IsOk(result) THEN result.value ELSE v
New(c, e, u) == OrElse(Normalize(c, e, u), Quantity(c, e, u))
Canonicalized(q) == New(q.coefficient, q.exponent, q.unit)
IsCanonical(q) == q = Canonicalized(q)
ExponentIsValid(q) == q.exponent \in -MaxExponent .. MaxExponent
ExactQuantityIs(q, u) == q.unit = u /\ ExponentIsValid(q) /\ IsCanonical(q)

(***************************************************************************)
(* Comparison: -1, 0 or 1, by sign, then by the order of magnitude, then   *)
(* digit by digit with the shorter one padded; never by scaling.           *)
(***************************************************************************)

\* The sign of the first difference.
FirstSign(signs) ==
    IF \A i \in DOMAIN signs : signs[i] = 0 THEN 0
    ELSE signs[CHOOSE i \in DOMAIN signs : signs[i] # 0 /\ \A j \in 1 .. i - 1 : signs[j] = 0]
DigitAt(d, i) == IF i <= Len(d) THEN d[i] ELSE 0
ComparePadded(d1, e1, d2, e2) ==
    IF Len(d1) + e1 # Len(d2) + e2 THEN Signum(Len(d1) + e1 - (Len(d2) + e2))
    ELSE FirstSign([i \in 1 .. Largest({Len(d1), Len(d2)}) |->
                        Signum(DigitAt(d1, i) - DigitAt(d2, i))])
CompareMagnitude(m1, e1, m2, e2) == ComparePadded(Digits(m1), e1, Digits(m2), e2)

CompareDecimal(q, r) ==
    IF Signum(q.coefficient) # Signum(r.coefficient)
    THEN Signum(Signum(q.coefficient) - Signum(r.coefficient))
    ELSE Signum(q.coefficient) *
         CompareMagnitude(Magnitude(q.coefficient), q.exponent,
                          Magnitude(r.coefficient), r.exponent)
Incomparable == 2
ExactCmp(q, r) ==
    IF q.unit # r.unit THEN Incomparable ELSE CompareDecimal(q, r)

(***************************************************************************)
(* The SPICE literal: the coefficient shifted to an exponent that is a     *)
(* multiple of three; and its reader, which accepts exactly the literals   *)
(* that some quantity writes.                                              *)
(***************************************************************************)
PartsAt(q, e) == <<q.coefficient * Base ^ (q.exponent - e), e>>
EngineeringParts(q) ==
    PartsAt(q, IF ExponentIsValid(q) THEN (q.exponent \div 3) * 3 ELSE q.exponent)
SpiceLiteral(q) == EngineeringParts(q)

ParseSpiceQuantity(literal) ==
    LET Source(shift) == New(literal[1] \div Base ^ shift, literal[2] + shift, "Dimensionless")
    IN  IF /\ literal[2] % 3 = 0 /\ literal[2] \in -MaxExponent .. MaxExponent
           /\ \E shift \in 0 .. 2 :
                /\ literal[2] + shift <= MaxExponent
                /\ literal[1] % Base ^ shift = 0
                /\ FitsCoefficient(literal[1] \div Base ^ shift)
                /\ SpiceLiteral(Source(shift)) = literal
        THEN Ok(literal) ELSE Err("literal")

(***************************************************************************)
(* The front end: a literal of the source is its sign, the digits before   *)
(* the point, whether there is one, and the digits after it.               *)
(***************************************************************************)
\* The value of all digits, once the zeros at their end are taken off.
SignedBy(lit, n) == IF lit.negative THEN -n ELSE n
Decimal(c, fractional) ==
    IF ~FitsWide(c) THEN Err("overflow") ELSE Ok([c |-> c, fractional |-> fractional])
DropZeros(lit, v, zeros) == Decimal(SignedBy(lit, v \div Base ^ zeros), Len(lit.fraction) - zeros)
ParseDigits(lit, v) ==
    IF v = 0 THEN Ok([c |-> 0, fractional |-> 0])
    ELSE DropZeros(lit, v, TrailingZeros(v, Len(lit.whole) + Len(lit.fraction)))
ParseDecimal(lit) ==
    IF lit.whole = <<>> \/ (lit.point /\ lit.fraction = <<>>) THEN Err("syntax")
    ELSE ParseDigits(lit, Value(lit.whole \o lit.fraction))

WidthError(result) == IF result.error = "coefficient" THEN Err("overflow") ELSE result
LowerElectrical(lit, prefixExponent, unit, expected) ==
    LET Lower(d) ==
            IF ~IsOk(d) THEN d
            ELSE WidthError(Normalize(d.value.c, prefixExponent - d.value.fractional, unit))
    IN  IF unit # expected THEN Err("dimension") ELSE Lower(ParseDecimal(lit))

\* A length is an integer number of nanometres within the envelope.
Enveloped(v, envelope) ==
    IF ~FitsCoefficient(v) \/ Magnitude(v) > envelope THEN Err("overflow") ELSE Ok(v)
Scale(c, e, envelope) ==
    IF ~FitsWide(Base ^ Magnitude(e)) THEN Err("overflow")
    ELSE IF e >= 0 THEN Enveloped(c * Base ^ e, envelope)
    ELSE IF c % Base ^ (-e) # 0 THEN Err("precision")
    ELSE Enveloped(c \div Base ^ (-e), envelope)
LowerLength(lit, unitExponent, envelope) ==
    LET Lower(d) ==
            IF ~IsOk(d) THEN d
            ELSE Scale(d.value.c, unitExponent - d.value.fractional, envelope)
    IN  Lower(ParseDecimal(lit))

\* A rotation is a whole number of quarter turns.
QuarterTurn(v, limit) ==
    IF ~(v \in -limit - 1 .. limit) THEN Err("overflow")
    ELSE IF ~(v % 360 \in {0, 90, 180, 270}) THEN Err("rotation")
    ELSE Ok(v % 360)
LowerRotation(lit, limit) ==
    IF lit.point THEN Err("rotation")
    ELSE QuarterTurn(SignedBy(lit, Value(lit.whole)), limit)
=============================================================================
