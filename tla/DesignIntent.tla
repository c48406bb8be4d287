---------------------------- MODULE DesignIntent ----------------------------
(***************************************************************************)
(* What a design says of its simulations, of its product variants and of   *)
(* its copper, the rules for that, and the validation as a whole.          *)
(***************************************************************************)
EXTENDS DesignRules

CONSTANTS MaxAnalyses, MaxAssertions,   \* MAX_SIMULATION_...
          MaxSamples, MaxTotalSamples,
          MaxVariants, MaxVariantWork,  \* MAX_PRODUCT_VARIANTS, ..._WORK
          MaxConfigurations,
          MaxChecks, MaxCheckAssertions,\* MAX_MANUFACTURABILITY_...
          LongNames                     \* longer than a configuration may be

(***************************************************************************)
(* Simulation intent.  An analysis is of kind "dc", "ac" or "tran"; an     *)
(* assertion takes a sample of kind "scalar", "frequency" or "time".       *)
(***************************************************************************)
Saturated(n) == Smaller(n, MaxTotalSamples + 1)
NominalSampleCount(a) ==
    CASE a.kind = "dc" -> 1
      [] a.kind = "ac" -> Saturated(a.points)
      [] a.kind = "tran" -> NominalSamples(a.step, a.stop, MaxTotalSamples + 1)
TotalSamples(d) ==
    FoldLeft(LAMBDA total, a : Saturated(total + NominalSampleCount(a)), 0, d.analyses)

Participates(c) == Some(c.connections, LAMBDA k : IsNet(k.net))

AcDiagnostics(d, a) ==
    LET startValid == ExactQuantityIs(a.start, "Hertz")
        stopValid == ExactQuantityIs(a.stop, "Hertz")
        drivesVoltage == /\ a.source \in ComponentPaths(d)
                         /\ Some(ComponentAt(d, a.source).model, LAMBDA m : m.kind = "V")
    IN  When(a.points \notin 2 .. MaxSamples, "CC-SIM-ANALYSIS-003")
        \cup When(~drivesVoltage, "CC-SIM-ANALYSIS-004")
        \cup When(\/ ~startValid \/ ~stopValid
                  \/ a.start.coefficient <= 0 \/ a.stop.coefficient <= 0
                  \/ ExactCmp(a.start, a.stop) # -1, "CC-SIM-ANALYSIS-005")
        \cup When(~ExactQuantityIs(a.magnitude, "Volt") \/ a.magnitude.coefficient < 0,
                  "CC-SIM-ANALYSIS-006")
        \cup When(~ExactQuantityIs(a.phase, "Degree"), "CC-SIM-ANALYSIS-007")

TransientDiagnostics(a) ==
    LET Valid(q) == ExactQuantityIs(q, "Second")
        ordered == ExactCmp(a.start, a.stop) # 1
        interval == /\ \A q \in {a.step, a.stop, a.start} : Valid(q)
                    /\ a.step.coefficient > 0 /\ a.stop.coefficient > 0
                    /\ a.start.coefficient >= 0 /\ ordered
    IN  When(\E q \in {a.step, a.stop, a.start} : ~Valid(q), "CC-SIM-ANALYSIS-008")
        \cup When(\/ \E q \in {a.step, a.stop} : Valid(q) /\ q.coefficient <= 0
                  \/ Valid(a.start) /\ a.start.coefficient < 0
                  \/ (\A q \in {a.step, a.stop, a.start} : Valid(q)) /\ ~ordered,
                  "CC-SIM-ANALYSIS-009")
        \cup When(interval /\ NominalSamples(a.step, a.stop, MaxSamples + 1) > MaxSamples,
                  "CC-SIM-ANALYSIS-010")

AnalysisDiagnostics(d, a) ==
    When(~IsName(a.path), "CC-SIM-ANALYSIS-001")
    \cup CASE a.kind = "dc" -> {}
           [] a.kind = "ac" -> AcDiagnostics(d, a)
           [] a.kind = "tran" -> TransientDiagnostics(a)

SampleDiagnostics(a, s) ==
    LET q == s.sample
        Positive(r, unit) == ExactQuantityIs(r, unit) /\ r.coefficient > 0
        inRange == ExactCmp(q, a.start) # -1 /\ ExactCmp(q, a.stop) # 1
        Placed(unit, declared, onGrid) ==
            IF ~ExactQuantityIs(q, unit) THEN {"CC-SIM-ASSERTION-006"}
            ELSE When(~inRange \/ (declared /\ ~onGrid), "CC-SIM-ASSERTION-007")
    IN  CASE a.kind = "dc" /\ s.sampleKind = "scalar" -> {}
          [] a.kind = "ac" /\ s.sampleKind = "frequency" ->
                LET declared == /\ a.points \in 2 .. MaxSamples
                                /\ Positive(a.start, "Hertz")
                                /\ ExactQuantityIs(a.stop, "Hertz")
                                /\ ExactCmp(a.start, a.stop) = -1
                IN  Placed("Hertz", declared,
                           declared => AcGridIndex(q, a.start, a.stop, a.points) # NoIndex)
          [] a.kind = "tran" /\ s.sampleKind = "time" ->
                LET declared == /\ Positive(a.step, "Second")
                                /\ ExactQuantityIs(a.start, "Second")
                                /\ ExactQuantityIs(a.stop, "Second")
                                /\ a.start.coefficient >= 0
                                /\ ExactCmp(a.start, a.stop) # 1
                IN  Placed("Second", declared,
                           declared => TransientGridLocation(q, a.step, a.stop) # NoIndex)
          [] OTHER -> {"CC-SIM-ASSERTION-005"}

AssertionDiagnostics(d, s) ==
    LET known == /\ IsName(s.analysis)
                 /\ s.analysis \in ToSet(Field(d.analyses, "path"))
        analysis == FirstWith(d.analyses, "path", s.analysis)
        NonNegative(q, unit) == ExactQuantityIs(q, unit) /\ q.coefficient >= 0
    IN  When(~IsName(s.path), "CC-SIM-ASSERTION-001")
        \cup When(~known, "CC-SIM-ASSERTION-003")
        \cup When(~IsName(s.net) \/ s.net \notin NetNames(d), "CC-SIM-ASSERTION-004")
        \cup (IF known THEN SampleDiagnostics(analysis, s) ELSE {})
        \cup When(~ExactQuantityIs(s.expected, "Volt"), "CC-SIM-ASSERTION-008")
        \cup When(~NonNegative(s.absolute, "Volt"), "CC-SIM-ASSERTION-009")
        \cup When(~NonNegative(s.relative, "Dimensionless"), "CC-SIM-ASSERTION-010")

SimulationDiagnostics(d) ==
    LET tooMany == When(Len(d.analyses) > MaxAnalyses, "CC-SIM-ANALYSIS-011")
                   \cup When(Len(d.assertions) > MaxAssertions, "CC-SIM-ASSERTION-011")
    IN  IF tooMany # {} THEN tooMany
        ELSE When(TotalSamples(d) > MaxTotalSamples, "CC-SIM-ANALYSIS-012")
             \cup When(/\ d.analyses # <<>>
                       /\ Some(d.components, LAMBDA c : Participates(c) /\ c.model = <<>>),
                       "CC-SIM-CAPABILITY-001")
             \cup When(Repeats(Field(d.analyses, "path")), "CC-SIM-ANALYSIS-002")
             \cup When(Repeats(Field(d.assertions, "path")), "CC-SIM-ASSERTION-002")
             \cup UNION {AnalysisDiagnostics(d, d.analyses[i]) : i \in DOMAIN d.analyses}
             \cup UNION {AssertionDiagnostics(d, d.assertions[i]) : i \in DOMAIN d.assertions}

(***************************************************************************)
(* Product intent.  A state of a component is "fitted", "not fitted" or an *)
(* alternate, which names a substitution of its part.                      *)
(***************************************************************************)
PhysicalPaths(d) ==
    {d.components[i].path : i \in {j \in DOMAIN d.components : IsPhysicalPart(d.components[j])}}
PhysicalCount(d) == Cardinality({j \in DOMAIN d.components : IsPhysicalPart(d.components[j])})
VariantWork(d) ==
    FoldLeft(LAMBDA work, v : work + Len(v.components) + PhysicalCount(d), 0, d.variants)

ConfigurationResources(v) ==
    IF Len(v.configurations) > MaxConfigurations THEN {"CC-PRODUCT-CONFIG-004"}
    ELSE When(Some(v.configurations, LAMBDA c : c.key \in LongNames), "CC-PRODUCT-CONFIG-005")
         \cup When(Some(v.configurations, LAMBDA c : c.value \in LongNames),
                   "CC-PRODUCT-CONFIG-006")
VariantResources(d) ==
    IF Len(d.variants) > MaxVariants THEN {"CC-PRODUCT-VARIANT-011"}
    ELSE When(VariantWork(d) > MaxVariantWork, "CC-PRODUCT-VARIANT-012")
         \cup UNION {ConfigurationResources(d.variants[i]) : i \in DOMAIN d.variants}

AssignmentDiagnostics(d, a) ==
    When(~IsName(a.path), "CC-PRODUCT-VARIANT-005")
    \cup IF a.path \notin ComponentPaths(d) THEN {"CC-PRODUCT-VARIANT-007"}
         ELSE LET c == ComponentAt(d, a.path)
              IN  IF ~IsPhysicalPart(c) THEN {"CC-PRODUCT-VARIANT-008"}
                  ELSE When(/\ a.alternate # <<>>
                            /\ a.alternate[1] \notin ToSet(c.part.substitutions),
                            "CC-PRODUCT-VARIANT-010")

VariantDiagnostics(d, v) ==
    LET assigned == Field(v.components, "path")
        keys == Field(v.configurations, "key")
    IN  When(~IsName(v.path), "CC-PRODUCT-VARIANT-002")
        \cup When(v.quantity = 0, "CC-PRODUCT-VARIANT-004")
        \cup When(Repeats(assigned), "CC-PRODUCT-VARIANT-006")
        \cup UNION {AssignmentDiagnostics(d, v.components[i]) : i \in DOMAIN v.components}
        \cup When(~(PhysicalPaths(d) \subseteq ToSet(assigned)), "CC-PRODUCT-VARIANT-009")
        \cup When(\E k \in ToSet(keys) : ~IsName(k), "CC-PRODUCT-CONFIG-001")
        \cup When(Some(v.configurations, LAMBDA c : ~IsName(c.value)), "CC-PRODUCT-CONFIG-002")
        \cup When(Repeats(keys), "CC-PRODUCT-CONFIG-003")

\* A check is a manufacturability analysis with an assertion per capability.
CheckAssertions(d) == FoldLeft(LAMBDA all, k : all \o k.assertions, <<>>, d.checks)
CheckDiagnostics(d) ==
    LET all == CheckAssertions(d)
    IN  IF Len(d.checks) > MaxChecks THEN {"CC-PRODUCT-ANALYSIS-004"}
        ELSE IF Len(all) > MaxCheckAssertions THEN {"CC-PRODUCT-ASSERTION-004"}
        ELSE When(Some(d.checks, LAMBDA k : ~IsName(k.path)), "CC-PRODUCT-ANALYSIS-001")
             \cup When(Repeats(Field(d.checks, "path")), "CC-PRODUCT-ANALYSIS-002")
             \cup When(Some(d.checks, LAMBDA k : k.adapter # "kicad" \/ k.version # "10"),
                       "CC-PRODUCT-ANALYSIS-003")
             \cup When(Some(all, LAMBDA a : ~IsName(a.path)), "CC-PRODUCT-ASSERTION-001")
             \cup When(Repeats(Field(all, "path")), "CC-PRODUCT-ASSERTION-002")
             \cup When(Some(d.checks, LAMBDA k : Repeats(Field(k.assertions, "capability"))),
                       "CC-PRODUCT-ASSERTION-003")

ProductDiagnostics(d) ==
    LET physical == PhysicalPaths(d) # {}
        resources == VariantResources(d)
    IN  When(physical /\ d.catalog = <<>>, "CC-PRODUCT-CATALOG-001")
        \cup When(Some(d.catalog, LAMBDA c : ~IsName(c.snapshot)), "CC-PRODUCT-CATALOG-002")
        \cup When(Some(d.catalog, LAMBDA c : ~IsName(c.sha256)), "CC-PRODUCT-CATALOG-003")
        \cup When(Some(d.catalog, LAMBDA c : ~IsName(c.date)), "CC-PRODUCT-CATALOG-004")
        \cup When(physical /\ d.variants = <<>>, "CC-PRODUCT-VARIANT-001")
        \cup (IF resources # {} THEN resources
              ELSE When(Repeats(Field(d.variants, "path")), "CC-PRODUCT-VARIANT-003")
                   \cup UNION {VariantDiagnostics(d, d.variants[i]) : i \in DOMAIN d.variants})
        \cup CheckDiagnostics(d)

(***************************************************************************)
(* Authored copper, and the request to route a net.                        *)
(***************************************************************************)
\* The same for a segment and its reverse.
RouteKey(r) == <<r.net, {r.from, r.to}, r.width, r.layer>>
RouteDiagnostics(d) ==
    LET R(P(_)) == Some(d.routes, P)
    IN  When(R(LAMBDA r : ~IsName(r.path)), "CC-ROUTE-006")
        \cup When(Repeats(Field(d.routes, "path")), "CC-ROUTE-007")
        \cup When(R(LAMBDA r : r.net \notin NetNames(d)), "CC-ROUTE-001")
        \cup When(R(LAMBDA r : r.width <= 0), "CC-ROUTE-002")
        \cup When(R(LAMBDA r : ~InEnvelope(r.width)), "CC-ROUTE-008")
        \cup When(R(LAMBDA r : ~PointInEnvelope(r.from) \/ ~PointInEnvelope(r.to)),
                  "CC-ROUTE-009")
        \cup When(R(LAMBDA r : r.from = r.to), "CC-ROUTE-003")
        \cup When(R(LAMBDA r : ~Inside(d.outline, r.from) \/ ~Inside(d.outline, r.to)),
                  "CC-ROUTE-004")
        \cup When(Repeats([i \in DOMAIN d.routes |-> RouteKey(d.routes[i])]), "CC-ROUTE-005")

\* The pads of a net that have a position: component, pad, centre and layer.
Terminals(d, net) ==
    {t \in UNION {{[component |-> i, pad |-> j] :
                     j \in DOMAIN d.components[i].physical[1].pads} :
                  i \in {k \in DOMAIN d.components : d.components[k].physical # <<>>}} :
        LET c == d.components[t.component]
            pad == c.physical[1].pads[t.pad]
        IN  NetForPad(c, pad.number) = net /\ Transform(c.physical[1], pad) # <<>>}
TerminalCenter(d, t) ==
    LET p == d.components[t.component].physical[1] IN Transform(p, p.pads[t.pad])[1]
TerminalLayer(d, t) == d.components[t.component].physical[1].layer

OnRoutingGrid(d, step, p) ==
    LET x == p.x - d.outline.x  y == p.y - d.outline.y
    IN  FitsInt(x) /\ FitsInt(y) /\ x % step = 0 /\ y % step = 0

RequestDiagnostics(d, r) ==
    LET terminals == Terminals(d, r.net)
    IN  When(~IsName(r.path), "CC-AUTOROUTE-002")
        \cup When(r.path \in ToSet(Field(d.routes, "path")), "CC-AUTOROUTE-004")
        \cup When(r.net \notin NetNames(d), "CC-AUTOROUTE-005")
        \cup When(r.width <= 0, "CC-AUTOROUTE-006")
        \cup When(~InEnvelope(r.width), "CC-AUTOROUTE-009")
        \cup When(r.clearance <= 0, "CC-AUTOROUTE-007")
        \cup When(~InEnvelope(r.clearance), "CC-AUTOROUTE-010")
        \cup When(r.step <= 0, "CC-AUTOROUTE-008")
        \cup When(~InEnvelope(r.step), "CC-AUTOROUTE-011")
        \cup When(Cardinality(terminals) # 2, "CC-AUTOROUTE-012")
        \cup When(\E t \in terminals : TerminalLayer(d, t) # r.layer, "CC-AUTOROUTE-013")
        \cup When(r.step > 0 /\ \E t \in terminals :
                        ~OnRoutingGrid(d, r.step, TerminalCenter(d, t)), "CC-AUTOROUTE-014")

(***************************************************************************)
(* Design::validate.                                                       *)
(***************************************************************************)
Diagnostics(d) ==
    When(d.schema # 1, "CC-IR-001")
    \cup When(~IsName(d.name), "CC-IR-002")
    \cup OutlineDiagnostics(d.outline) \cup NetDiagnostics(d) \cup ModuleDiagnostics(d)
    \cup ComponentsDiagnostics(d) \cup SimulationDiagnostics(d) \cup ProductDiagnostics(d)
    \cup RouteDiagnostics(d)
    \cup When(Len(d.requests) > 1, "CC-AUTOROUTE-001")
    \cup When(Repeats(Field(d.requests, "path")), "CC-AUTOROUTE-003")
    \cup UNION {RequestDiagnostics(d, d.requests[i]) : i \in DOMAIN d.requests}
Validates(d) == Diagnostics(d) = {}
=============================================================================
