------------------------------ MODULE MCNumbers ------------------------------
(***************************************************************************)
(* Small numbers against plain arithmetic.  The state is a few numbers an  *)
(* author writes down: three quantities as they come (not normalised), the *)
(* number of points of a sweep and a literal of the source.  Each step     *)
(* changes one of them; what the code computes from them is compared with  *)
(* the integers they stand for.                                            *)
(***************************************************************************)
EXTENDS SimulationGrid, TLC

CONSTANTS PointCounts, Saturation, Envelope,
          Places    \* digits before and after the point of a literal

Coefficients == {-9, -1, 0, 1, 2, 3, 4, 6, 8}
Exponents == {-4, -1, 0, 2, 3, 5}

VARIABLES left, right, sample, points, literal
vars == <<left, right, sample, points, literal>>

RawQuantities == {Quantity(c, e, "Second") : c \in Coefficients, e \in Exponents}
Samples == {q \in RawQuantities : /\ q.coefficient \in 0 .. 7
                                  /\ q.exponent \in {-1, 0, 2}}
DigitStrings == UNION {[1 .. n -> 0 .. Base - 1] : n \in 0 .. Places}
Literals == {l \in [negative : BOOLEAN, whole : DigitStrings, point : BOOLEAN,
                    fraction : DigitStrings] :
                l.fraction # <<>> => l.point}
Zero == Quantity(0, 0, "Second")
NoLiteral == [negative |-> FALSE, whole |-> <<>>, point |-> FALSE,
              fraction |-> <<>>]

TypeOK == /\ {left, right, sample} \subseteq RawQuantities
          /\ points \in PointCounts /\ literal \in Literals

Init == /\ left = Zero /\ right = Zero /\ sample = Zero
        /\ points = 2 /\ literal = NoLiteral

\* Two quantities are compared; with a third one and a number of points
\* they are a grid and a sample of it; or a literal is written.
WriteLeft == /\ literal = NoLiteral /\ right = Zero /\ points = 2
             /\ left' \in RawQuantities
             /\ UNCHANGED <<right, sample, points, literal>>
WriteRight == /\ right = Zero /\ left # Zero /\ points = 2
              /\ right' \in RawQuantities
              /\ UNCHANGED <<left, sample, points, literal>>
WriteSample == /\ sample = Zero /\ right # Zero
               /\ sample' \in Samples
               /\ UNCHANGED <<left, right, points, literal>>
WritePoints == /\ right # Zero
               /\ points' \in PointCounts
               /\ UNCHANGED <<left, right, sample, literal>>
WriteLiteral == /\ left = Zero
                /\ literal' \in Literals
                /\ UNCHANGED <<left, right, sample, points>>
Next == WriteLeft \/ WriteRight \/ WriteSample \/ WritePoints \/ WriteLiteral
Spec == Init /\ [][Next]_vars

\* The integer a quantity stands for, in units of the smallest exponent used.
Low == CHOOSE e \in Exponents : \A f \in Exponents : e <= f
Exact(q) == q.coefficient * Base ^ (q.exponent - Low)
Representable == {Quantity(c, e, "Second") : c \in -MaxCoefficient - 1 .. MaxCoefficient,
                                            e \in -MaxExponent .. MaxExponent}
\* The same for exponents that may lie outside.
SameValue(c1, e1, c2, e2) ==
    LET e == Smaller(e1, e2) IN c1 * Base ^ (e1 - e) = c2 * Base ^ (e2 - e)

(***************************************************************************)
(* Normalising keeps the value, yields one form for each value, and gives  *)
(* up only on a value that no quantity of the width has; the comparison    *)
(* by digits is the comparison of the values.  About the boundaries of     *)
(* normalize_decimal and compare_decimal: a coefficient that loses zeros   *)
(* only up to the largest exponent, an exponent multiplied back, strings   *)
(* of digits of different lengths.                                         *)
(***************************************************************************)
NormalFormIsExact ==
    LET n == Normalize(left.coefficient, left.exponent, left.unit)
        m == Normalize(right.coefficient, right.exponent, right.unit)
    IN  /\ IsOk(n) => /\ SameValue(n.value.coefficient, n.value.exponent,
                                   left.coefficient, left.exponent)
                      /\ ExactQuantityIs(n.value, "Second")
        /\ ~IsOk(n) => \A q \in Representable :
                        ~SameValue(q.coefficient, q.exponent,
                                   left.coefficient, left.exponent)
        /\ IsOk(n) /\ IsOk(m) /\ Exact(left) = Exact(right) =>
               n.value = m.value
        /\ ExactCmp(left, right) = Signum(Exact(left) - Exact(right))
        /\ ExactQuantityIs(left, "Second") =>
               LET read == ParseSpiceQuantity(SpiceLiteral(left))
               IN  IsOk(read) /\ read.value = SpiceLiteral(left)

(***************************************************************************)
(* A literal of the source is lowered to exactly the value it writes or is *)
(* refused, and it is refused only when no quantity (no length within the  *)
(* envelope) has that value.  About lower_electrical and lower_length: the *)
(* zeros of the literal, its precision and the widths it passes through.   *)
(***************************************************************************)
LiteralsAreExact ==
    LET v == (IF literal.negative THEN -1 ELSE 1)
                * Value(literal.whole \o literal.fraction)
        e == -Len(literal.fraction)
        written == literal.whole # <<>> /\ (literal.point => literal.fraction # <<>>)
    IN  /\ \A prefix \in {-3, 0, 3} :
             LET q == LowerElectrical(literal, prefix, "Second", "Second")
             IN  /\ IsOk(q) => /\ SameValue(q.value.coefficient, q.value.exponent,
                                            v, e + prefix)
                               /\ ExactQuantityIs(q.value, "Second")
                 /\ ~IsOk(q) /\ written =>
                        \A r \in Representable :
                            ~SameValue(r.coefficient, r.exponent, v, e + prefix)
        /\ \A prefix \in {0, 2} :
             LET l == LowerLength(literal, prefix, Envelope)
             IN  /\ IsOk(l) => SameValue(l.value, 0, v, e + prefix)
                 /\ ~IsOk(l) /\ written =>
                        \A r \in -Envelope .. Envelope :
                            ~SameValue(r, 0, v, e + prefix)

(***************************************************************************)
(* The samples found on strings of digits are those of the arithmetic: the *)
(* i-th sample of a sweep divides its span evenly, a sample of a transient *)
(* is a multiple of the step or its end, and the number of samples is      *)
(* ceil(stop / step) + 1 or the cap.  About ac_grid_index,                 *)
(* transient_grid_location and transient_nominal_samples_saturating.       *)
(***************************************************************************)
GridIsExact ==
    LET a == Exact(left)  b == Exact(right)  s == Exact(sample)
        index == AcGridIndex(sample, left, right, points)
        place == TransientGridLocation(sample, left, right)
        count == NominalSamples(left, right, Saturation)
    IN  /\ a >= 0 /\ a < b /\ s >= 0 =>
             LET on == {i \in 0 .. points - 1 :
                            (s - a) * (points - 1) = i * (b - a)}
             IN  IF on = {} THEN index = NoIndex ELSE index \in on
        /\ a > 0 /\ b >= 0 /\ s >= 0 =>
             LET n == s \div a
             IN  place = IF s = b THEN StopEndpoint
                         ELSE IF s < b /\ s % a = 0 /\ n <= MaxIndex THEN n
                         ELSE NoIndex
        /\ a > 0 /\ b >= 0 =>
             count = Smaller((b + a - 1) \div a + 1, Saturation)

\* Numbers are what they are written as: as quantities, as text and on the grids.
NumbersAreExact == NormalFormIsExact /\ LiteralsAreExact /\ GridIsExact
=============================================================================
