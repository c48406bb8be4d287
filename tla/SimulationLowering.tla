------------------------- MODULE SimulationLowering -------------------------
(***************************************************************************)
(* The simulation inputs of a design: for each of its analyses a bundle of *)
(* the netlist, the request and the map of names.  The exact quantities    *)
(* become floating-point numbers here; a float is an integer, in units of  *)
(* 1/Unity, of at most FloatDigits significant digits.  All names count    *)
(* NameBytes bytes in the bound on the size of what is generated.          *)
(***************************************************************************)
EXTENDS SimulationContract

CONSTANTS FloatDigits, NameBytes, MaxGeneratedBytes
ASSUME SimulationLoweringAssumption ==
    /\ Unity = Base ^ MaxExponent
    /\ FloatDigits \in Nat \ {0} /\ NameBytes \in Nat /\ MaxGeneratedBytes \in Nat

(***************************************************************************)
(* Floats: the nearest one, and the arithmetic of a sweep.                 *)
(***************************************************************************)
RoundTo(x, unit) == Signum(x) * ((Magnitude(x) + unit \div 2) \div unit) * unit
Round(x) == RoundTo(x, Base ^ Largest({0, Width(Magnitude(x)) - FloatDigits}))
FloatOf(q) == Round(q.coefficient * Base ^ (q.exponent + MaxExponent))
FloatDivide(x, n) == Round(RoundTo(x, n) \div n)

\* The samples the backend makes of a sweep.
Sweep(start, stop, points) ==
    LET step == FloatDivide(Round(stop - start), points - 1)
    IN  [i \in 1 .. points |-> Round(start + Round(step * (i - 1)))]
SweepSamples(a) == Sweep(FloatOf(a.start), FloatOf(a.stop), a.points)
Increases(s) == \A i \in 1 .. Len(s) - 1 : s[i] < s[i + 1]

\* The axis of an analysis: its samples, or the ends of the time.
BackendAxisPlan(a) ==
    LET controls == {a.step, a.start, a.stop}
    IN  CASE a.kind = "dc" -> Ok(<<0>>)
          [] a.kind = "ac" ->
                IF FloatOf(a.start) >= FloatOf(a.stop) \/ ~Increases(SweepSamples(a))
                THEN Err("CC-SIM-LOWER-002") ELSE Ok(SweepSamples(a))
          [] a.kind = "tran" ->
                IF \E q, r \in controls : ExactCmp(q, r) # 0 /\ FloatOf(q) = FloatOf(r)
                THEN Err("CC-SIM-LOWER-002") ELSE Ok(<<FloatOf(a.start), FloatOf(a.stop)>>)
\* No two times of a transient become one, the samples of assertions included.
SamplesAreDistinct(a, assertions) ==
    a.kind = "tran" =>
        LET times == <<a.step, a.start, a.stop>>
                     \o Field(SelectSeq(assertions, LAMBDA s : s.sampleKind = "time"), "sample")
        IN  \A j \in 4 .. Len(times) : \A i \in 1 .. j - 1 :
                FloatOf(times[i]) = FloatOf(times[j]) => ExactCmp(times[i], times[j]) = 0

\* Where an assertion looks: a float of the axis, unless the backend has none.
LoweredSample(s, a, axis) ==
    LET time == FloatOf(s.sample)
        missing == Err("CC-SIM-LOWER-003")
        Frequency(index) == IF index = NoIndex THEN missing ELSE Ok(axis[index + 1])
    IN  CASE a.kind = "dc" /\ s.sampleKind = "scalar" -> Ok(0)
          [] a.kind = "ac" /\ s.sampleKind = "frequency" ->
                Frequency(AcGridIndex(s.sample, a.start, a.stop, a.points))
          [] a.kind = "tran" /\ s.sampleKind = "time" ->
                IF \/ TransientGridLocation(s.sample, a.step, a.stop) = NoIndex
                   \/ time < axis[1] \/ time > axis[2]
                THEN missing ELSE Ok(time)
          [] OTHER -> missing
LoweredAssertion(s, a, sample) ==
    [path |-> s.path, identity |-> s.net, axis |-> AxisOf(a.kind), sample |-> sample,
     signal |-> IF a.kind = "ac" THEN "voltage magnitude" ELSE "voltage", unit |-> "Volt",
     expected |-> FloatOf(s.expected), absolute |-> FloatOf(s.absolute),
     relative |-> FloatOf(s.relative)]

(***************************************************************************)
(* What a bundle must be: its netlist carries exactly the names of the     *)
(* map, uses them and no other, and simulates the analysis of the request. *)
(***************************************************************************)
LineIsSupported(line, kind) ==
    /\ CaseKey(SubSeq(line.device, 1, 1)) = line.kind
    /\ IsOk(ParseSpiceQuantity(line.value))
    /\ IF line.kind = "R" THEN line.value[1] > 0 /\ line.ac = <<>>
       ELSE line.ac # <<>> => /\ kind = "ac" /\ line.ac[1][1] >= 0
                              /\ \A i \in 1 .. 2 : IsOk(ParseSpiceQuantity(line.ac[i]))

SpiceIdentityBinds(netlist, map, kind) ==
    LET nodes == ToSet(Field(map.nets, "node"))
        devices == Field(netlist.lines, "device")
        used == UNION {ToSet(netlist.lines[i].nodes) : i \in DOMAIN netlist.lines}
        excited == {i \in DOMAIN netlist.lines : netlist.lines[i].ac # <<>>}
    IN  /\ netlist.nets = Each(map.nets, LAMBDA n : [net |-> n.net, node |-> n.node])
        /\ netlist.devices = map.devices
        /\ ~Repeats(devices) /\ ToSet(devices) = ToSet(Field(map.devices, "device"))
        /\ used \subseteq nodes
        /\ \A i \in DOMAIN map.nets : map.nets[i].ground \/ map.nets[i].node \in used
        /\ \A i \in DOMAIN netlist.lines : LineIsSupported(netlist.lines[i], kind)
        /\ Cardinality(excited) = (IF kind = "ac" THEN 1 ELSE 0)
        /\ Len(netlist.directives) = 1
        /\ netlist.directives[1].keyword =
               (CASE kind = "dc" -> ".OP" [] kind = "ac" -> ".AC" [] kind = "tran" -> ".TRAN")

BundleIsValid(b) ==
    /\ IsRequest(b.request) /\ b.request.netlist = b.netlist
    /\ b.request.path = b.path /\ b.request.kind = b.kind
    /\ b.files = <<b.request.design, b.request.path>>
    /\ MapBinds(b.map, b.request)
    /\ SpiceIdentityBinds(b.netlist, b.map, b.kind)

(***************************************************************************)
(* The lowering of an analysis.  The files of a bundle lie in a directory  *)
(* named by the hash of the names of design and analysis.                  *)
(***************************************************************************)
AssertionsOf(d, a) == ByName(SelectSeq(d.assertions, LAMBDA s : s.analysis = a.path), "path")
RequestOfBundle(d, a, deck, assertions, samples) ==
    [design |-> d.name, backend |-> Backend, path |-> a.path, kind |-> a.kind, netlist |-> deck,
     assertions |-> [i \in DOMAIN assertions |->
                        LoweredAssertion(assertions[i], a, samples[i].value)]]
MapOf(d, a, request) ==
    [design |-> d.name, path |-> a.path, request |-> request,
     nets |-> [i \in DOMAIN request.netlist.nets |->
                  [net |-> request.netlist.nets[i].net, node |-> request.netlist.nets[i].node,
                   ground |-> LastWith(d.nets, "name", request.netlist.nets[i].net).ground]],
     devices |-> request.netlist.devices]
BundleOf(d, a, request) ==
    [path |-> a.path, kind |-> a.kind, files |-> <<d.name, a.path>>,
     netlist |-> request.netlist, request |-> request, map |-> MapOf(d, a, request)]
VerifiedBundle(b) == IF BundleIsValid(b) THEN Ok(b) ELSE Err("CC-SIM-LOWER-004")
LowerAt(d, a, assertions, samples) ==
    IF ~SamplesAreDistinct(a, assertions) \/ \E i \in DOMAIN samples : ~IsOk(samples[i])
    THEN Err("CC-SIM-LOWER-003")
    ELSE VerifiedBundle(BundleOf(d, a,
            RequestOfBundle(d, a, LowerNetlist(d, a), assertions, samples)))
LowerOn(d, a, assertions, plan) ==
    IF ~IsOk(plan) THEN plan
    ELSE LowerAt(d, a, assertions,
            [i \in DOMAIN assertions |-> LoweredSample(assertions[i], a, plan.value)])
LowerOne(d, a) == LowerOn(d, a, AssertionsOf(d, a), BackendAxisPlan(a))

\* What the bundle of an analysis is at most, in bytes.
BundleSizeBound(d, a) ==
    LET Connected(c) == Cardinality({i \in DOMAIN c.connections : IsNet(c.connections[i].net)})
    IN  8192 + 32 * NameBytes + Len(d.nets) * (512 + 32 * NameBytes)
        + FoldLeft(LAMBDA n, c : n + 1024 + (64 + 16 * Connected(c)) * NameBytes, 0, Models(d))
        + Len(AssertionsOf(d, a)) * (2048 + 48 * NameBytes)

\* The bundles of a design, or the codes of the diagnostics.
Lowered(bundles, collide) ==
    LET failed == {bundles[i].error : i \in DOMAIN bundles} \ {"no"}
    IN  [bundles |-> IF failed = {} THEN Field(bundles, "value") ELSE <<>>,
         codes |-> failed \cup When(collide, "CC-SIM-LOWER-004")]
LowerValid(d) ==
    LET analyses == ByName(d.analyses, "path")
        bound == FoldLeft(LAMBDA n, a : n + BundleSizeBound(d, a), 0, analyses)
    IN  IF bound > MaxGeneratedBytes THEN [bundles |-> <<>>, codes |-> {"CC-SIM-LOWER-005"}]
        ELSE Lowered(Each(analyses, LAMBDA a : LowerOne(d, a)),
                     Repeats([i \in DOMAIN analyses |-> <<d.name, analyses[i].path>>]))
LowerInputs(d) ==
    LET Checked(codes) == IF codes = {} THEN LowerValid(d) ELSE [bundles |-> <<>>, codes |-> codes]
    IN  Checked(Diagnostics(d))
=============================================================================
