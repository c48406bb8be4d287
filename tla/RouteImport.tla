---------------------------- MODULE RouteImport ----------------------------
(***************************************************************************)
(* What the compiler makes of the answer of the routing tool.  Nothing the *)
(* tool says is believed but that its route is admitted: the associations, *)
(* the resources, the costs and the signatures of the selected candidate   *)
(* are computed again from its geometry and from the request, and compared.*)
(* The geometry then becomes copper of the design, in nanometres, and is   *)
(* found again in the project made of it.  A digest of a text is the text. *)
(***************************************************************************)
EXTENDS RoutingLowering, StaticCompilation

Fails(bad, code) == IF bad THEN <<code>> ELSE <<>>

(***************************************************************************)
(* The answer as a whole, and what the candidate says of itself.           *)
(***************************************************************************)
ExpectedTool(digest) == [name |-> Pinned, sha256 |-> digest]
ExpectedReplay(r) ==
    [fingerprint |-> r.fingerprint, identity |-> r.identity, revision |-> r.revision,
     seed |-> r.route.policy.seed, batch |-> r.route.batch, query |-> r.route.query]
RootCodes(bundle, result, tool) ==
    Fails(result.request # bundle.sha256 \/ result.path # bundle.request.path, "CC-ROUTE-IMPORT-002")
    \o Fails(result.tool # tool \/ result.tool.name # Pinned, "CC-ROUTE-IMPORT-003")
    \o Fails(result.replay # ExpectedReplay(bundle.request), "CC-ROUTE-IMPORT-004")

ExpectedProvenance(r) ==
    [generator |-> "cpu", seed |-> r.route.policy.seed, ordinal |-> r.route.policy.ordinal,
     batch |-> r.route.batch, query |-> r.route.query]
ExpectedAssociations(r) ==
    [board |-> <<r.scale, r.revision, r.layers, r.nets, r.terminals, r.obstacles, r.profile>>,
     compiler |-> r.compiler, version |-> 1, profile |-> r.profile,
     bucket |-> <<r.profile.width, r.profile.clearance, r.profile.layers>>]
CandidateId(c) == <<c.net, c.associations, c.policyIdentity, c.provenance>>
\* The signatures and the checksum do not cover the width of a line.
Traces(geometry) == Each(geometry, LAMBDA l : <<l.layer, l.from, l.to>>)
Checksum(c) ==
    <<c.id, c.net, c.terminals, c.associations, c.policy, c.policyIdentity, c.provenance,
      Traces(c.geometry), c.resources, c.metrics, c.constraints,
      c.geometrySignature, c.resourceSignature>>
LogicalBytes(c) == 37 * Len(c.geometry) + 29 * Len(c.resources)

(***************************************************************************)
(* A chain of lines on the lattice: what is wrong with a line, and the     *)
(* unit steps it is made of.                                               *)
(***************************************************************************)
IsEven(n) == n % DbuPerNm = 0
\* A mutant: the lattice of the page, not the one of the board.
OnLatticeOfPage(r, p) == p.x % r.compiler.step = 0 /\ p.y % r.compiler.step = 0
OnLattice(r, p) == /\ (p.x - r.compiler.origin.x) % r.compiler.step = 0
                   /\ (p.y - r.compiler.origin.y) % r.compiler.step = 0
LatticeIndex(r, p) == [x |-> (p.x - r.compiler.origin.x) \div r.compiler.step,
                       y |-> (p.y - r.compiler.origin.y) \div r.compiler.step]
MovedBy(p, delta, n) == [x |-> p.x + n * delta.x, y |-> p.y + n * delta.y]
Move(p, k, n) == MovedBy(p, Delta[k], n)
Apart(a, b) == Largest({Magnitude(b.x - a.x), Magnitude(b.y - a.y)})
Span(r, l) == Apart(LatticeIndex(r, l.from), LatticeIndex(r, l.to))
DirectionsFrom(a, b, n) == {k \in DOMAIN Delta : n > 0 /\ Move(a, k, n) = b}
Directions(r, l) == DirectionsFrom(LatticeIndex(r, l.from), LatticeIndex(r, l.to), Span(r, l))
EdgeAt(r, node, k) == [layer |-> r.profile.layers[1], x |-> node.x, y |-> node.y, direction |-> k % 4]
\* An edge is named by the end its direction goes upwards from.
EdgeOf(r, at, k) == EdgeAt(r, IF k <= NorthWest THEN at ELSE Move(at, k, 1), k)
StepsAlong(r, a, n, k) ==
    [i \in 1 .. n |-> [direction |-> k, edge |-> EdgeOf(r, Move(a, k, i - 1), k)]]
LineSteps(r, l) ==
    StepsAlong(r, LatticeIndex(r, l.from), Span(r, l), CHOOSE k \in Directions(r, l) : TRUE)

PointCodes(r, p) == Fails(~IsEven(p.x) \/ ~IsEven(p.y), "CC-ROUTE-IMPORT-008")
                    \o Fails(~OnLattice(r, p), "CC-ROUTE-IMPORT-007")
\* A mutant: where the chain starts and ends is not compared.
EndCodesUnanchored(r, c, i, l) == <<>>
EndCodes(r, c, i, l) ==
    Fails(i = 1 /\ l.from # FirstWith(r.terminals, "reference", c.terminals[1]).center, "CC-ROUTE-IMPORT-007")
    \o Fails(i = Len(c.geometry) /\ l.to # FirstWith(r.terminals, "reference", c.terminals[2]).center,
             "CC-ROUTE-IMPORT-007")
\* The directions are those of the line before and of the line itself.
BendCodes(before, directions) ==
    Fails(directions = {} \/ before = directions, "CC-ROUTE-IMPORT-007")
Banned(c, l, steps) == ToSet(Field(steps, "edge")) \cap ToSet(c.policy.banned) # {}
LengthTo(r, c, i) == SumOf([j \in 1 .. i |-> Span(r, c.geometry[j])])
LineCodes(r, c, i, l) ==
    Fails(l.layer # r.profile.layers[1] \/ l.width # r.profile.width, "CC-ROUTE-IMPORT-007")
    \o EndCodes(r, c, i, l)
    \o PointCodes(r, l.from) \o PointCodes(r, l.to)
    \o Fails(~IsEven(l.width), "CC-ROUTE-IMPORT-008")
    \o BendCodes(IF i = 1 THEN DOMAIN Delta ELSE Directions(r, c.geometry[i - 1]), Directions(r, l))
    \o Fails(\/ LengthTo(r, c, i) > r.limits.edges
             \/ Directions(r, l) # {} /\ Banned(c, l, LineSteps(r, l)), "CC-ROUTE-IMPORT-007")

(***************************************************************************)
(* The resources and the metrics of a chain.                               *)
(***************************************************************************)
\* Along a span the edges are sorted: a north-west one is stored downwards.
StorageDelta(k) == IF k = NorthWest THEN [x |-> 1, y |-> -1] ELSE Delta[k]
Continues(s, e) == /\ s.layer = e.layer /\ s.direction = e.direction
                   /\ e.x = s.x + s.count * StorageDelta(s.direction).x
                   /\ e.y = s.y + s.count * StorageDelta(s.direction).y
Compressed(edges) ==
    FoldLeft(LAMBDA spans, e :
                IF spans # <<>> /\ Continues(spans[Len(spans)], e)
                THEN [spans EXCEPT ![Len(spans)].count = @ + 1]
                ELSE Append(spans, [layer |-> e.layer, x |-> e.x, y |-> e.y,
                                    direction |-> e.direction, count |-> 1, usage |-> 1]),
             <<>>, edges)

\* The costs of the steps of a walk: a step that turns costs a bend as well.
\* (The sums of a walk of at most MaxExpandedEdges steps fit 64 bits.)
Turns(walk, i) == i > 1 /\ walk[i].direction # walk[i - 1].direction
BaseCost(r, walk, i) ==
    (IF IsDiagonal(walk[i].direction) THEN r.compiler.costs.diagonal ELSE r.compiler.costs.orthogonal)
    + (IF Turns(walk, i) THEN r.compiler.costs.bend ELSE 0)
PenaltyOf(penalties) == IF penalties = {} THEN 0 ELSE (CHOOSE q \in penalties : TRUE).cost
PolicyCost(p, walk, i) ==
    (IF IsDiagonal(walk[i].direction) THEN p.diagonal ELSE p.orthogonal)
    + (IF Turns(walk, i) THEN p.bend ELSE 0)
    + PenaltyOf({q \in ToSet(p.penalties) : q.resource = walk[i].edge})
MetricsOf(r, c, walk, diagonal, base) ==
    [base |-> base, scalar |-> base + SumOf([i \in DOMAIN walk |-> PolicyCost(c.policy, walk, i)]),
     orthogonal |-> Len(walk) - diagonal, diagonal |-> diagonal,
     bends |-> Cardinality({i \in DOMAIN walk : Turns(walk, i)}), lines |-> Len(c.geometry), vias |-> 0,
     axisLength |-> (Len(walk) - diagonal) * r.compiler.step,
     diagonalLength |-> diagonal * r.compiler.step]
Metrics(r, c, walk) ==
    MetricsOf(r, c, walk, Cardinality({i \in DOMAIN walk : IsDiagonal(walk[i].direction)}),
              SumOf([i \in DOMAIN walk |-> BaseCost(r, walk, i)]))

\* derive_candidate_fields
GeometryCodes(r, c) == Flat([i \in DOMAIN c.geometry |-> LineCodes(r, c, i, c.geometry[i])])
WalkOf(r, c) == Flat([i \in DOMAIN c.geometry |-> LineSteps(r, c.geometry[i])])
FieldsOfWalk(r, c, walk, edges) ==
    IF Repeats(edges) THEN Err("CC-ROUTE-IMPORT-007")
    ELSE Ok([resources |-> Compressed(SortBy(edges, EdgeKey)), metrics |-> Metrics(r, c, walk)])
FieldsAlong(r, c, walk) == FieldsOfWalk(r, c, walk, Field(walk, "edge"))
DeriveFields(r, c) == OrRefused(GeometryCodes(r, c), FieldsAlong(r, c, WalkOf(r, c)))

\* authenticate_candidate, in the order of the code; an empty sequence accepts.
Associated(r, c) ==
    /\ c.net = r.profile.net /\ c.terminals = r.nets[1].terminals
    /\ c.policy = r.route.policy /\ c.policyIdentity = c.policy
    /\ c.provenance = ExpectedProvenance(r) /\ c.constraints = Admitted
    /\ c.associations = ExpectedAssociations(r)
Signed(c) == /\ c.geometrySignature = Traces(c.geometry) /\ c.resourceSignature = c.resources
             /\ c.checksum = Checksum(c) /\ c.bytes = LogicalBytes(c)
DerivedCodes(c, derived) ==
    IF ~IsOk(derived) THEN <<derived.error>>
    ELSE Fails(\/ derived.value # [resources |-> c.resources, metrics |-> c.metrics]
               \/ ~Signed(c), "CC-ROUTE-IMPORT-006")
CandidateCodes(r, c) ==
    IF ~Associated(r, c) THEN <<"CC-ROUTE-IMPORT-005">>
    ELSE IF c.id # CandidateId(c) THEN <<"CC-ROUTE-IMPORT-006">>
    ELSE DerivedCodes(c, DeriveFields(r, c))

(***************************************************************************)
(* The design with the route in place of the request.                      *)
(***************************************************************************)
Nanometres(p) == [x |-> p.x \div DbuPerNm, y |-> p.y \div DbuPerNm]
SegmentPrefix(path) == path \o ".segment."
SegmentPath(path, i) == SegmentPrefix(path) \o ToString(i - 1)
SegmentOf(r, net, l, i) ==
    [path |-> SegmentPath(r.path, i), net |-> net, from |-> Nanometres(l.from), to |-> Nanometres(l.to),
     width |-> l.width \div DbuPerNm, layer |-> r.profile.layers[1]]
SegmentsOf(r, net, geometry) == [i \in DOMAIN geometry |-> SegmentOf(r, net, geometry[i], i)]
ImportAt(d, r, geometry, at) ==
    Canonicalize([d EXCEPT !.requests = RemoveAt(@, at),
                           !.routes = @ \o SegmentsOf(r, d.requests[at].net, geometry)])
ImportGeometry(d, r, c) ==
    ImportAt(d, r, c.geometry, First(d.requests, LAMBDA q : q.path = r.path))

Chosen(result) == result.outcome.candidates[Selected(result.outcome)]
IfValid(imported, bundle, result) ==
    IF Validates(imported) THEN Ok([design |-> imported, bundle |-> bundle, result |-> result])
    ELSE Err("CC-ROUTE-IMPORT-009")
ImportCandidate(d, bundle, result, c) ==
    OrRefused(CandidateCodes(bundle.request, c),
              IfValid(ImportGeometry(d, bundle.request, c), bundle, result))
ImportCurrent(d, bundle, result, tool, current) ==
    IF ~IsOk(current) THEN Err("CC-ROUTE-IMPORT-009")
    ELSE IF d.requests = <<>> \/ current.value # bundle THEN Err("CC-ROUTE-IMPORT-002")
    ELSE IF ~RouteResultIsValid(result) THEN Err("CC-ROUTE-IMPORT-001")
    ELSE OrRefused(RootCodes(bundle, result, tool),
            IF result.outcome.kind # "completed" THEN Err("CC-ROUTE-IMPORT-006")
            ELSE ImportCandidate(d, bundle, result, Chosen(result)))
\* import_result: the design with the route, or the code it is refused with.
ImportResult(d, bundle, result, tool) ==
    IF ~RouteRequestIsValid(bundle.request) THEN Err("CC-ROUTE-IMPORT-001")
    ELSE IF bundle.sha256 # bundle.request THEN Err("CC-ROUTE-IMPORT-002")
    ELSE ImportCurrent(d, bundle, result, tool, LowerRequest(d))

(***************************************************************************)
(* The route in the project.                                               *)
(***************************************************************************)
StartsWith(text, prefix) ==
    Len(text) >= Len(prefix) /\ SubSeq(text, 1, Len(prefix)) = prefix
ProjectedSegment(s, i) ==
    [ordinal |-> i - 1, path |-> s.path, uuid |-> Uuid("route-segment", <<s.path>>), net |-> s.net,
     layer |-> s.layer, from |-> s.from, to |-> s.to, width |-> s.width]
RoutesOf(imported) ==
    SelectSeq(imported.design.routes,
              LAMBDA s : StartsWith(s.path, SegmentPrefix(imported.bundle.request.path)))
Shape(s) == <<s.path, s.from, s.to, s.width, s.layer>>
Once(s, f, v) == Cardinality({i \in DOMAIN s : s[i][f] = v}) = 1
\* The copper in the request's own names is the candidate's geometry, in order,
\* and each piece is once in the board under the identity of its path.
Binds(routes, expected, artifacts) ==
    /\ Each(routes, Shape) = Each(expected, Shape)
    /\ \A i \in DOMAIN routes :
          /\ Once(artifacts.identities, "path", routes[i].path)
          /\ Once(artifacts.board.segments, "uuid", Uuid("route-segment", <<routes[i].path>>))
BindsSegments(imported, artifacts) ==
    Binds(RoutesOf(imported),
          SegmentsOf(imported.bundle.request, imported.bundle.request.nets[1].name,
                     Chosen(imported.result).geometry), artifacts)

\* What is kept of a routed design, beside the project: CompiledRouting.
RoutingEvidence(imported, artifacts, routes) ==
    [path |-> imported.bundle.request.path, identity |-> imported.bundle.request.identity,
     request |-> imported.bundle.request, result |-> imported.result,
     projection |-> [design |-> imported.design.name, board |-> artifacts.board,
                     tool |-> imported.result.tool, selected |-> imported.result.outcome.selected,
                     segments |-> [i \in DOMAIN routes |-> ProjectedSegment(routes[i], i)]]]
\* The project of an imported design and the evidence of its route.
ProjectStatic(imported, static) ==
    IF ~IsOk(static)
    THEN IF imported.design.analyses = <<>> THEN Refuse({"CC-ROUTE-PROJECTION-001"}) ELSE static
    ELSE IF \/ ~Validates(imported.design) \/ imported.design.requests # <<>>
            \/ ~BindsSegments(imported, static.value)
    THEN Refuse({"CC-ROUTE-PROJECTION-001"})
    ELSE Ok([artifacts |-> static.value,
             routing |-> RoutingEvidence(imported, static.value, RoutesOf(imported))])
ProjectRoute(imported) ==
    ProjectStatic(imported, IF imported.design.analyses = <<>> THEN Compile(imported.design)
                            ELSE CompileStatic(imported.design))

(***************************************************************************)
(* What the published texts of a route show by themselves, without the     *)
(* design they were made for.                                              *)
(***************************************************************************)
EvidenceOfCandidate(request, c) ==
    OrRefused(CandidateCodes(request, c),
        Ok([i \in DOMAIN c.geometry |->
              ProjectedSegment(SegmentOf(request, request.nets[1].name, c.geometry[i], i), i)]))
VerifyEvidence(request, result, provenance) ==
    IF ~RouteRequestIsValid(request) \/ ~RouteResultIsValid(result) \/ provenance.name # Pinned
    THEN Err("CC-ROUTE-EVIDENCE-001")
    ELSE OrRefused(RootCodes([request |-> request, sha256 |-> request], result,
                             ExpectedTool(provenance.sha256)),
            IF result.outcome.kind # "completed" THEN Err("CC-ROUTE-EVIDENCE-001")
            ELSE EvidenceOfCandidate(request, Chosen(result)))
=============================================================================
