--------------------------- MODULE SimulationGrid ---------------------------
(***************************************************************************)
(* The grids of the declared analyses: which sample of a linear frequency  *)
(* sweep or of a transient an exact quantity is, and how many samples a    *)
(* transient declares.  The code computes them on strings of digits, so    *)
(* that nothing overflows: schoolbook multiplication, subtraction and long *)
(* division.                                                               *)
(***************************************************************************)
EXTENDS Quantities

CONSTANT MaxIndex   \* u32::MAX, the width of a sample index
ASSUME SimulationGridAssumption == MaxIndex \in Nat
NoDigits == <<>>    \* no digit string
NoIndex == -1       \* no sample
StopEndpoint == -2  \* the forced last sample of a transient

\* Digits without leading zeros; zero is the one digit 0.
Strip(d) ==
    IF \A i \in DOMAIN d : d[i] = 0 THEN <<0>>
    ELSE SubSeq(d, CHOOSE i \in DOMAIN d : d[i] # 0 /\ \A j \in 1 .. i - 1 : d[j] = 0, Len(d))
Zeros(n) == [i \in 1 .. n |-> 0]
\* The i-th digit from the right, 0 beyond the left end.
Right(d, i) == IF i <= Len(d) THEN d[Len(d) + 1 - i] ELSE 0

\* A mutant: the last carry is dropped.
MultiplyDroppingCarry(d, m) ==
    LET carry[i \in 0 .. Len(d)] ==
            IF i = 0 THEN 0 ELSE (Right(d, i) * m + carry[i - 1]) \div Base
    IN  [j \in 1 .. Len(d) |->
            LET i == Len(d) + 1 - j
            IN  (Right(d, i) * m + carry[i - 1]) % Base]

Multiply(d, m) ==
    LET carry[i \in 0 .. Len(d)] ==
            IF i = 0 THEN 0 ELSE (Right(d, i) * m + carry[i - 1]) \div Base
    IN  IF m = 0 \/ Strip(d) = <<0>> THEN <<0>>
        ELSE (IF carry[Len(d)] = 0 THEN <<>> ELSE Digits(carry[Len(d)]))
             \o [j \in 1 .. Len(d) |->
                    LET i == Len(d) + 1 - j
                    IN  (Right(d, i) * m + carry[i - 1]) % Base]

CompareStripped(l, r) ==
    IF Len(l) # Len(r) THEN Signum(Len(l) - Len(r))
    ELSE FirstSign([i \in DOMAIN l |-> Signum(l[i] - r[i])])
CompareDigits(left, right) == CompareStripped(Strip(left), Strip(right))

SubtractStripped(l, r) ==
    LET borrow[i \in 0 .. Len(l)] ==
            IF i = 0 THEN 0
            ELSE IF Right(l, i) - borrow[i - 1] < Right(r, i) THEN 1 ELSE 0
        Place(i) == Right(l, i) - borrow[i - 1] - Right(r, i) + Base * borrow[i]
    IN  IF CompareStripped(l, r) = -1 \/ borrow[Len(l)] # 0 THEN NoDigits
        ELSE Strip([j \in 1 .. Len(l) |-> Place(Len(l) + 1 - j)])
Subtract(left, right) == SubtractStripped(Strip(left), Strip(right))

\* Long division; no index unless it is exact and the quotient has the width.
Quotient(state, n, rem) ==
    [rem |-> rem, quo |-> state.quo * Base + n,
     fits |-> state.fits /\ state.quo * Base + n <= MaxIndex]
DivideDigit(state, rem, by) ==
    LET less[n \in 0 .. Base] == IF n = 0 THEN rem ELSE Subtract(less[n - 1], by)
        Taken(n) == Quotient(state, n, less[n])
    IN  Taken(Largest({k \in 0 .. Base : less[k] # NoDigits}))
IndexOf(end) == IF end.fits /\ Strip(end.rem) = <<0>> THEN end.quo ELSE NoIndex
ExactQuotient(dividend, divisor) ==
    LET Step(state, digit) ==
            DivideDigit(state, Strip(Append(state.rem, digit)), divisor)
    IN  IF Strip(divisor) = <<0>> THEN NoIndex
        ELSE IndexOf(FoldLeft(Step, [rem |-> <<0>>, quo |-> 0, fits |-> TRUE], Strip(dividend)))

\* The digits of a quantity that is not negative, at a common exponent.
Scaled(q, exponent) ==
    IF q.coefficient < 0 \/ q.exponent < exponent THEN NoDigits
    ELSE Digits(q.coefficient) \o Zeros(q.exponent - exponent)
DigitDifference(g, l) == IF NoDigits \in {g, l} THEN NoDigits ELSE Subtract(g, l)
Difference(q, r, exponent) == DigitDifference(Scaled(q, exponent), Scaled(r, exponent))

Below(index, points) == IF index < points THEN index ELSE NoIndex
IndexAlong(offset, span, points) ==
    IF points < 2 \/ NoDigits \in {offset, span} THEN NoIndex
    ELSE Below(ExactQuotient(Multiply(offset, points - 1), span), points)
AcGridIndex(sample, start, stop, points) ==
    LET At(e) == IndexAlong(Difference(sample, start, e), Difference(stop, start, e), points)
    IN  IF sample.unit # start.unit \/ start.unit # stop.unit THEN NoIndex
        ELSE At(Smaller(sample.exponent, Smaller(start.exponent, stop.exponent)))

MultipleOf(s, d) == IF NoDigits \in {s, d} THEN NoIndex ELSE ExactQuotient(s, d)
TransientGridLocation(sample, step, stop) ==
    LET At(e) == MultipleOf(Scaled(sample, e), Scaled(step, e))
        Placed(order) ==
            IF order = 0 THEN StopEndpoint
            ELSE IF order # -1 THEN NoIndex
            ELSE At(Smaller(sample.exponent, step.exponent))
    IN  IF sample.unit # step.unit \/ step.unit # stop.unit THEN NoIndex
        ELSE Placed(ExactCmp(sample, stop))

\* ceil(stop / step) + 1, found by bisection and cut off at saturation.
CeilingWithin(d, s, saturation) ==
    LET Before(n) == CompareDigits(Multiply(d, n), s) = -1
        bisect[range \in (0 .. saturation) \X (0 .. saturation)] ==
            LET middle == range[1] + (range[2] - range[1]) \div 2
            IN  IF range[1] >= range[2] THEN range[1]
                ELSE bisect[IF Before(middle) THEN <<middle + 1, range[2]>>
                            ELSE <<range[1], middle>>]
    IN  IF Before(saturation - 1) THEN saturation
        ELSE Smaller(bisect[<<0, saturation - 1>>] + 1, saturation)
NominalSamples(step, stop, saturation) ==
    LET At(e) == CeilingWithin(Scaled(step, e), Scaled(stop, e), saturation)
    IN  IF \/ saturation <= 1 \/ step.coefficient <= 0 \/ stop.coefficient < 0
        THEN saturation
        ELSE At(Smaller(step.exponent, stop.exponent))
=============================================================================
