-------------------------- MODULE DesignCanonical --------------------------
(***************************************************************************)
(* The canonical form of a design: every collection whose order of         *)
(* declaration means nothing is sorted, every quantity is normalised and   *)
(* every rotation brought to less than a turn.  What is over a bound of    *)
(* the design is left as it is.                                            *)
(***************************************************************************)
EXTENDS DesignIntent

CONSTANT NameOrder     \* the names of the instance in the order of strings

Ranks == [n \in ToSet(NameOrder) |-> CHOOSE i \in DOMAIN NameOrder : NameOrder[i] = n]
Rank(n) == IF n = NoConnect THEN Len(NameOrder) + 1 ELSE Ranks[n]
Precedes(a, b) == \E i \in DOMAIN a : (\A j \in 1 .. i - 1 : a[j] = b[j]) /\ a[i] < b[i]
\* Sorted by a key, a sequence of integers; equal keys keep their order.
SortBy(s, Key(_)) == SortSeq(s, LAMBDA a, b : Precedes(Key(a), Key(b)))
ByName(s, f) == SortSeq(s, LAMBDA a, b : Rank(a[f]) < Rank(b[f]))

UnitOrder == <<"Ohm", "Volt", "Hertz", "Second", "Degree", "Dimensionless">>
QuantityKey(q) ==
    <<CHOOSE i \in DOMAIN UnitOrder : UnitOrder[i] = q.unit, q.coefficient, q.exponent>>
SubstitutionKey(s) == <<Rank(s.maker), Rank(s.number), Rank(s.package)>>

\* A mutant: the pads keep the order the part was declared in.
CanonicalPhysicalUnsorted(p) ==
    [p EXCEPT !.rotation = @ % 360,
              !.bindings = SortBy(@, LAMBDA b : <<Rank(b.pad), Rank(b.pin)>>)]

CanonicalPhysical(p) ==
    [p EXCEPT !.rotation = @ % 360,
              !.pads = ByName(@, "number"),
              !.bindings = SortBy(@, LAMBDA b : <<Rank(b.pad), Rank(b.pin)>>)]

TerminalRank(c, pin) ==
    CASE c.model # <<>> /\ pin = c.model[1].positive -> 0
      [] c.model # <<>> /\ pin = c.model[1].negative /\ pin # c.model[1].positive -> 1
      [] OTHER -> 2

CanonicalComponent(c) ==
    [c EXCEPT
       !.part.substitutions = IF Len(@) > MaxSubstitutions THEN @
                              ELSE SortBy(@, SubstitutionKey),
       !.value = Canonicalized(@),
       !.connections = SortBy(@, LAMBDA k : <<TerminalRank(c, k.pin), Rank(k.pin), Rank(k.net)>>),
       !.pins = ByName(@, "pin"),
       !.sheet.rotation = @ % 360,
       !.physical = [i \in DOMAIN @ |-> CanonicalPhysical(@[i])]]

CanonicalAnalysis(a) ==
    CASE a.kind = "dc" -> a
      [] a.kind = "ac" -> [a EXCEPT !.start = Canonicalized(@), !.stop = Canonicalized(@),
                                    !.magnitude = Canonicalized(@), !.phase = Canonicalized(@)]
      [] a.kind = "tran" -> [a EXCEPT !.step = Canonicalized(@), !.stop = Canonicalized(@),
                                      !.start = Canonicalized(@)]
AnalysisKey(a) ==
    CASE a.kind = "dc" -> <<Rank(a.path), 0>>
      [] a.kind = "ac" -> <<Rank(a.path), 1, Rank(a.source), a.points>> \o QuantityKey(a.start)
                          \o QuantityKey(a.stop) \o QuantityKey(a.magnitude) \o QuantityKey(a.phase)
      [] a.kind = "tran" -> <<Rank(a.path), 2>> \o QuantityKey(a.step) \o QuantityKey(a.stop)
                            \o QuantityKey(a.start) \o <<IF a.uic THEN 1 ELSE 0>>

CanonicalAssertion(s) ==
    [s EXCEPT !.sample = IF s.sampleKind = "scalar" THEN @ ELSE Canonicalized(@),
              !.expected = Canonicalized(@), !.absolute = Canonicalized(@),
              !.relative = Canonicalized(@)]
SampleKey(s) == CASE s.sampleKind = "scalar" -> <<0, 0, 0, 0>>
                  [] s.sampleKind = "frequency" -> <<1>> \o QuantityKey(s.sample)
                  [] s.sampleKind = "time" -> <<2>> \o QuantityKey(s.sample)
AssertionKey(s) ==
    <<Rank(s.path), Rank(s.analysis), Rank(s.net)>> \o SampleKey(s) \o QuantityKey(s.expected)
    \o QuantityKey(s.absolute) \o QuantityKey(s.relative)

StateKey(a) == CASE a.state = "fitted" -> <<Rank(a.path), 0>>
                 [] a.state = "not fitted" -> <<Rank(a.path), 1>>
                 [] a.state = "alternate" ->
                        <<Rank(a.path), 2>> \o SubstitutionKey(a.alternate[1])
CanonicalVariant(v) ==
    [v EXCEPT !.components = SortBy(@, StateKey),
              !.configurations = SortBy(@, LAMBDA c : <<Rank(c.key), Rank(c.value)>>)]
CapabilityOrder == <<"erc", "drc", "unconnected", "parity", "inventory">>
CanonicalCheck(k) ==
    [k EXCEPT !.assertions = SortBy(@, LAMBDA a :
        <<Rank(a.path), CHOOSE i \in DOMAIN CapabilityOrder : CapabilityOrder[i] = a.capability>>)]

Each(s, Op(_)) == [i \in DOMAIN s |-> Op(s[i])]

Canonicalize(d) ==
    [d EXCEPT
       !.nets = SortBy(@, LAMBDA n : <<IF n.ground THEN 1 ELSE 0, Rank(n.name)>>),
       !.modules = ByName(Each(@, LAMBDA m : [m EXCEPT !.ports = ByName(@, "name")]), "path"),
       !.components = SortBy(Each(@, CanonicalComponent), LAMBDA c :
            <<IF c.physical = <<>> THEN 1 ELSE 0, Rank(c.reference), Rank(c.path)>>),
       !.analyses = SortBy(Each(@, CanonicalAnalysis), AnalysisKey),
       !.assertions = SortBy(Each(@, CanonicalAssertion), AssertionKey),
       !.routes = ByName(@, "path"),
       !.requests = ByName(@, "path"),
       !.variants = IF VariantResources(d) # {} THEN @ ELSE ByName(Each(@, CanonicalVariant), "path"),
       !.checks = IF Len(@) > MaxChecks \/ Len(CheckAssertions(d)) > MaxCheckAssertions THEN @
                  ELSE ByName(Each(@, CanonicalCheck), "path")]
=============================================================================
