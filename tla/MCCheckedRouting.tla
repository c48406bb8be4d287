-------------------------- MODULE MCCheckedRouting --------------------------
(***************************************************************************)
(* The voltage divider with a request to route its middle, on boards with  *)
(* a lattice of their own, turned parts, copper of the author's and things *)
(* the tool cannot be told; and a tool that prints a right answer, or one  *)
(* with one thing wrong and everything else made to agree with it.         *)
(***************************************************************************)
EXTENDS CheckedRouting, MCDesigns

(***************************************************************************)
(* The designs.                                                            *)
(***************************************************************************)
Request(width, step, layer) ==
    [path |-> "n.vout", net |-> "VOUT", width |-> width, clearance |-> 1, step |-> step, layer |-> layer]
Routed == [Divider EXCEPT !.requests = <<Request(2, 1, "front")>>]
Track(path, net, x1, y1, x2, y2, width) ==
    [path |-> path, net |-> net, from |-> [x |-> x1, y |-> y1], to |-> [x |-> x2, y |-> y2],
     width |-> width, layer |-> "front"]
WithTrack(d, t) == [d EXCEPT !.routes = Append(@, t)]
OnBoard(d, x, width) == [d EXCEPT !.outline.x = x, !.outline.width = width]
Parts2(d, Op(_)) == [d EXCEPT !.components = Each(@, LAMBDA c :
    IF c.physical = <<>> THEN c ELSE [c EXCEPT !.physical = <<Op(c.physical[1])>>])]
Coarse == [OnBoard(Routed, -1, 9) EXCEPT !.requests = <<Request(1, 2, "front")>>]
TurnedPart == [Routed EXCEPT !.components[1].physical[1].rotation = 90]
Behind == [Parts2(Routed, LAMBDA p : [p EXCEPT !.layer = "back"]) EXCEPT
                !.requests = <<Request(1, 1, "back")>>]
Obstructed == WithTrack(Routed, Track("b.t1", "GND", 4, 1, 4, 3, 1))
\* Valid designs the tool cannot be given.
Overhanging == WithTrack(Routed, Track("b.t1", "GND", 4, 0, 6, 0, 2))
Outlying == [OnBoard(Routed, 1, 7) EXCEPT !.requests = <<Request(1, 2, "front")>>]
Large == OnBoard(Routed, 0, 9)
NoNumbers == {[Routed EXCEPT !.name = n] : n \in {"m", "EU"}}
\* Valid designs the answer cannot be imported to: the copper is there, or its name.
Drawn == WithTrack(Routed, Track("b.t1", "VOUT", 5, 2, 3, 2, 2))
Named1 == WithTrack(Routed, Track("n.vout.segment.1", "VOUT", 3, 2, 3, 1, 2))
Named2 == WithTrack(Routed, Track("n.vout.segment.x", "VOUT", 3, 2, 3, 1, 2))
Coincident == [Routed EXCEPT !.components[2].physical[1].x = 4]
Unroutable == {Overhanging, Outlying, Large, Coincident} \cup NoNumbers
Occupied == {Drawn, Named1, Named2}
Analysed == [Routed EXCEPT !.analyses = Simulated.analyses, !.assertions = Simulated.assertions]
Designs == {Canonicalize(d) : d \in {Routed, [Routed EXCEPT !.name = "b.t1"], Coarse, TurnedPart,
                                     Behind, Obstructed, Analysed} \cup Unroutable \cup Occupied}

\* The numbers of entities: different, but for the designs named for what they are.
Number(fields) == FoldLeft(LAMBDA n, f : 100 * n + Rank(f), 0, fields)
Domains == <<"layer", "net", "terminal", "pad-obstacle", "route-obstacle">>
Plain(domain, fields) ==
    IF domain = "layer" THEN 1
    ELSE 100000 * (CHOOSE i \in DOMAIN Domains : Domains[i] = domain) + Number(fields)
MCIdOf(name, domain, fields) ==
    CASE name = "m" /\ domain = "terminal" -> 7
      [] name = "EU" /\ domain = "net" -> 0
      [] name = "b.t1" -> 1000000 - Plain(domain, fields)
      [] OTHER -> Plain(domain, fields)

(***************************************************************************)
(* The answers.                                                            *)
(***************************************************************************)
Line(r, p, q) == [layer |-> r.profile.layers[1], from |-> p, to |-> q, width |-> r.profile.width]
Chain(r, points) == [i \in 1 .. Len(points) - 1 |-> Line(r, points[i], points[i + 1])]
Ends(r) == LET Center(t) == FirstWith(r.terminals, "reference", t).center
           IN  Each(r.nets[1].terminals, Center)
Sealed(c) ==
    LET identified == [c EXCEPT !.id = CandidateId(c), !.geometrySignature = Traces(c.geometry),
                                !.resourceSignature = c.resources]
    IN  [identified EXCEPT !.checksum = Checksum(identified), !.bytes = LogicalBytes(identified)]
NoFields == [resources |-> <<[layer |-> "front", x |-> 0, y |-> 0, direction |-> 0, count |-> 1, usage |-> 1]>>,
             metrics |-> [base |-> 0, scalar |-> 0, orthogonal |-> 0, diagonal |-> 0, bends |-> 0,
                          lines |-> 1, vias |-> 0, axisLength |-> 0, diagonalLength |-> 0]]
CandidateFor(r, geometry) ==
    LET bare == [net |-> r.profile.net, terminals |-> r.nets[1].terminals,
                 associations |-> ExpectedAssociations(r), policy |-> r.route.policy,
                 policyIdentity |-> r.route.policy, provenance |-> ExpectedProvenance(r),
                 constraints |-> Admitted, geometry |-> geometry, id |-> 0,
                 geometrySignature |-> 0, resourceSignature |-> 0, checksum |-> 0, bytes |-> 0]
        derived == DeriveFields(r, bare)
        fields == IF IsOk(derived) THEN derived.value
                  ELSE [NoFields EXCEPT !.metrics.lines = Len(geometry)]
    IN  Sealed(bare @@ fields)
Answer(b, digest, outcome_) ==
    [request |-> b.sha256, path |-> b.request.path, tool |-> ExpectedTool(digest),
     replay |-> ExpectedReplay(b.request), outcome |-> outcome_]
Completed(b, digest, c) ==
    Answer(b, digest, [kind |-> "completed", selected |-> c.id, candidates |-> <<c>>])
Failure(wordy) == [kind |-> "failure", wordy |-> wordy]

\* Chains of at most three lines from one end to the other: at 45 degrees,
\* bent at every joint, and never twice along the same edge.
Octilinear(p, q) == LET dx == Abs(p.x - q.x)  dy == Abs(p.y - q.y)
                    IN  p # q /\ (dx = 0 \/ dy = 0 \/ dx = dy)
Heading(p, q) == <<Signum(q.x - p.x), Signum(q.y - p.y)>>
Stride(r, p, q) == Largest({Abs(p.x - q.x), Abs(p.y - q.y)}) \div r.compiler.step
UnitEdges(r, p, q) ==
    LET At(i) == [x |-> p.x + i * r.compiler.step * Heading(p, q)[1],
                  y |-> p.y + i * r.compiler.step * Heading(p, q)[2]]
    IN  {{At(i - 1), At(i)} : i \in 1 .. Stride(r, p, q)}
Nodes(r) ==
    LET e == Ends(r)  s == r.compiler.step
    IN  {p \in {[x |-> e[1].x + i * s, y |-> e[1].y + j * s] : i \in -2 .. 2, j \in -2 .. 2} :
            BoxContains(r.compiler.roi, p)}
Paths(r) == LET e == Ends(r)
            IN  {<<e[1], e[2]>>} \cup {<<e[1], p, e[2]>> : p \in Nodes(r)}
                \cup {<<e[1], p, q, e[2]>> : p \in Nodes(r), q \in Nodes(r)}
Honest(r) ==
    {path \in Paths(r) :
        /\ \A i \in 1 .. Len(path) - 1 : Octilinear(path[i], path[i + 1])
        /\ \A i \in 2 .. Len(path) - 1 : Heading(path[i - 1], path[i]) # Heading(path[i], path[i + 1])
        /\ \A i, j \in 1 .. Len(path) - 1 : i < j =>
              UnitEdges(r, path[i], path[i + 1]) \cap UnitEdges(r, path[j], path[j + 1]) = {}}
Shortest(r) == CHOOSE path \in Honest(r) : \A other \in Honest(r) : Len(path) <= Len(other)

WrongChains(r) ==
    LET e == Ends(r)
        By(p, x, y) == [x |-> p.x + x, y |-> p.y + y]
        s == r.compiler.step
        path == Shortest(r)
    IN  {<<e[2], e[1]>>, <<e[1], By(e[1], s, 0)>>, <<By(e[1], s, 0), By(e[1], 2 * s, 0)>>,
         <<e[1], By(e[1], s, 0), e[1], By(e[1], 0, s), By(e[1], s, s), e[2]>>,
         <<e[1], By(e[1], 1, 0), By(e[1], 1, s), e[2]>>,
         <<e[1], By(e[1], 0, -4 * s), By(e[1], 4 * s, 0), e[2]>>,
         <<e[1]>> \o [i \in 1 .. 2 |-> By(e[1], i * s, 0)] \o Tail(path)}
WrongCandidates(r) ==
    LET c == CandidateFor(r, Chain(r, Shortest(r)))
    IN  {CandidateFor(r, Chain(r, path)) : path \in WrongChains(r)}
        \cup {CandidateFor(r, Each(c.geometry, LAMBDA l : [l EXCEPT !.width = w])) : w \in {1, 3, 6}}
        \cup {Sealed([c EXCEPT !.resources[1].count = @ + 1]), Sealed([c EXCEPT !.metrics.bends = @ + 1]),
              Sealed([c EXCEPT !.net = @ + 1]), Sealed([c EXCEPT !.terminals = Reverse(@)]),
              Sealed([c EXCEPT !.associations.board = <<>>]), Sealed([c EXCEPT !.provenance.seed = 1]),
              Sealed([c EXCEPT !.policy.bend = 1]), Sealed([c EXCEPT !.constraints.satisfied = FALSE]),
              [c EXCEPT !.id = <<>>], [c EXCEPT !.checksum = <<>>], [c EXCEPT !.bytes = @ + 1],
              [c EXCEPT !.geometry = Each(@, LAMBDA l : [l EXCEPT !.width = 2 * @])]}
WrongAnswers(b, digest) ==
    LET r == b.request
        c == CandidateFor(r, Chain(r, Shortest(r)))
        t == Completed(b, digest, c)
    IN  {Completed(b, digest, w) : w \in WrongCandidates(r)}
        \cup {[t EXCEPT !.tool = ExpectedTool(Foreign)], [t EXCEPT !.tool.name = "m"],
              [t EXCEPT !.path = "m"], [t EXCEPT !.request.profile.clearance = 4],
              [t EXCEPT !.replay.seed = 1], [t EXCEPT !.replay.revision = <<>>], [t EXCEPT !.outcome.selected = <<>>],
              [t EXCEPT !.outcome.candidates = <<@[1], @[1]>>],
              Answer(b, digest, Failure(TRUE)), Answer(b, digest, Failure(FALSE))}
MCResults(b, digest) ==
    LET r == b.request
    IN  {Completed(b, digest, CandidateFor(r, Chain(r, path))) :
            path \in {p \in Honest(r) : Len(p) <= 3}}
        \cup WrongAnswers(b, digest)

MCDigests == {"d1", "d2"}
Init == \E d \in Designs : Start(d, "d1")
Spec == Init /\ [][Next]_vars

(***************************************************************************)
(* Properties.                                                             *)
(***************************************************************************)
Succeeded == pc = "done" /\ IsOk(outcome)
RequestedPads(d) == Terminals(d, d.requests[1].net)

\* A routed project is the project of the design and nothing else, but for a
\* chain of copper between the two pads the request is about, of the width, on
\* the layer and in the net it asks for.
Authored(d) == [d EXCEPT !.requests = <<>>]
ChainConnects ==
        LET r == design.requests[1]
            chain == outcome.value.routing.projection.segments
            board == BoardOf(Authored(design))
            drawn == outcome.value.artifacts.board
        IN  /\ {chain[1].from, chain[Len(chain)].to}
                    = {TerminalCenter(design, t) : t \in RequestedPads(design)}
            /\ \A i \in 2 .. Len(chain) : chain[i].from = chain[i - 1].to
            /\ \A i \in DOMAIN chain :
                  /\ chain[i].width = r.width /\ chain[i].layer = r.layer /\ chain[i].net = r.net
                  /\ OnRoutingGrid(design, r.step, chain[i].from)
                  /\ Inside(design.outline, chain[i].from) /\ Inside(design.outline, chain[i].to)
            /\ [drawn EXCEPT !.segments = <<>>] = [board EXCEPT !.segments = <<>>]
            /\ Len(drawn.segments) = Len(board.segments) + Len(chain)
            /\ ToSet(drawn.segments) = ToSet(board.segments)
                    \cup {[from |-> k.from, to |-> k.to, width |-> k.width, layer |-> k.layer,
                           net |-> k.net, uuid |-> k.uuid] : k \in ToSet(chain)}
            /\ outcome.value.artifacts.schematic = Schematic(design)
            /\ outcome.value.bundles = LowerInputs(Authored(design)).bundles

\* A route in the project was printed by a copy of the executable whose digest is
\* in its evidence, which is one the provenance named while it was installed; a
\* run that leaves its directory behind is not a success.
SuccessIsAuthentic ==
    /\ printer = cached
    /\ outcome.value.routing.projection.tool = ExpectedTool(printer[1])
    /\ ~left

\* A success is a board that is connected as asked, by an authentic tool.
RoutedDesignConnects == Succeeded => ChainConnects /\ SuccessIsAuthentic

\* Every chain the tool may find is imported and projected as it is, whatever the
\* origin of the lattice, the turn of a part or the order of the ends, unless the
\* author has drawn one of its pieces, or copper in the names of the request.
Clashes(d, r, path) ==
    \/ Some(d.routes, LAMBDA t : StartsWith(t.path, SegmentPrefix(r.path)))
    \/ \E i \in 1 .. Len(path) - 1 : Some(d.routes, LAMBDA t :
            {DbuPoint(t.from), DbuPoint(t.to)} = {path[i], path[i + 1]}
            /\ t.net = d.requests[1].net /\ Dbu(t.width) = r.profile.width)
ComesThrough(path, result) ==
    LET imported == ImportResult(design, bundle, result, ExpectedTool(cached[1]))
    IN  Clashes(design, bundle.request, path)
            # (IsOk(imported) /\ IsOk(ProjectRoute(imported.value)))
\* The resources of a route are its geometry: the spans name the unit edges under
\* it, each once, in the one order a route and its reverse both have.
EdgesOfSpan(r, s) ==
    LET At(i) == [x |-> r.compiler.origin.x + r.compiler.step * i.x,
                  y |-> r.compiler.origin.y + r.compiler.step * i.y]
        \* a span goes on to the right, or upwards
        Node(i) == Move([x |-> s.x, y |-> s.y], IF s.direction = NorthWest THEN 7 ELSE s.direction, i)
    IN  [i \in 1 .. s.count |-> {At(Node(i - 1)), At(Move(Node(i - 1), s.direction, 1))}]
SpansCover(r, path, edges) ==
    /\ ~Repeats(edges)
    /\ ToSet(edges) = UNION {UnitEdges(r, path[i], path[i + 1]) : i \in 1 .. Len(path) - 1}
ResourcesAreTheGeometry(r, path) ==
    SpansCover(r, path, Flat(Each(CandidateFor(r, Chain(r, path)).resources,
                                  LAMBDA s : EdgesOfSpan(r, s))))

\* Every route that is right is taken for what it is (judged when the tool is
\* about to run): it comes through, and what is derived of it is its geometry.
AboutToRun == pc = "check" /\ pc' = "run" /\ faults = 0
RightRoute(r, path) ==
    /\ ComesThrough(path, Completed(bundle, cached[1], CandidateFor(r, Chain(r, path))))
    /\ ResourcesAreTheGeometry(r, path)
AdmittedRoutesComeThrough ==
    [][AboutToRun => \A path \in Honest(bundle.request) : RightRoute(bundle.request, path)]_vars

\* The request is the board: the tool is told of every pad and every piece of
\* copper on the layer, with a box around all of it, and that it may touch what is
\* in the net and nothing else; and a valid design that cannot be put to it has
\* something beyond its edge or too far out, or has met with numbers that clash.
Around(points) == [min |-> [x |-> Min({p.x : p \in points}), y |-> Min({p.y : p \in points})],
                   max |-> [x |-> Max({p.x : p \in points}), y |-> Max({p.y : p \in points})]]
Aside(p, dx, dy) == {[x |-> p.x + i * dx, y |-> p.y + j * dy] : i \in {-1, 1}, j \in {-1, 1}}
\* The corners of a pad, turned with its part; half a side in database units is
\* the side in nanometres.
Turned(p, off) == Transform([x |-> 0, y |-> 0, rotation |-> p.rotation], off)[1]
PadCorners(d, t) ==
    LET p == d.components[t.component].physical[1]
        center == DbuPoint(TerminalCenter(d, t))
    IN  {[x |-> center.x + Turned(p, off).x, y |-> center.y + Turned(p, off).y] :
            off \in Aside([x |-> 0, y |-> 0], p.pads[t.pad].width, p.pads[t.pad].height)}
Pads(d, layer) == {t \in UNION {Terminals(d, net) : net \in NetNames(d)} : TerminalLayer(d, t) = layer}
Copper(d, r) ==
    {[box |-> Around(PadCorners(d, t)), own |-> t \in RequestedPads(d)] : t \in Pads(d, r.layer)}
    \cup {[box |-> Around(Aside(DbuPoint(t.from), t.width, t.width)
                          \cup Aside(DbuPoint(t.to), t.width, t.width)), own |-> t.net = r.net] :
            t \in {k \in ToSet(d.routes) : k.layer = r.layer}}
Tellable(d, r) ==
    /\ BoxFits(BoardBounds(d)) /\ d.name \notin {"m", "EU"}
    /\ \A c \in Copper(d, r) : BoxInside(BoardBounds(d), c.box)
    /\ Cardinality({TerminalCenter(d, t) : t \in RequestedPads(d)}) = 2
RequestIsTheBoard ==
    [][pc = "lower" /\ pc' # "lower" =>
          LET r == design.requests[1]
          IN  /\ (bundle' # <<>>) <=> Tellable(design, r)
              /\ bundle' # <<>> =>
                   {[box |-> o.bounds, own |-> o.owner # <<>>] : o \in ToSet(bundle'.request.obstacles)}
                        = Copper(design, r)]_vars

\* The evidence of a route is accepted again with its design, in whatever order
\* that is declared, and shows by itself the segments that were published; with
\* another design, or altered, it is not accepted.
Reordered(d) == [d EXCEPT !.components = Reverse(Each(@, LAMBDA c :
                    [c EXCEPT !.physical = Each(@, LAMBDA p : [p EXCEPT !.pads = Reverse(@)])])),
                          !.nets = Reverse(@), !.routes = Reverse(@)]
Others(d) ==
    {[d EXCEPT !.requests[1].clearance = 2], [d EXCEPT !.components[1].value = Quantity(2, 1, "Ohm")],
     [d EXCEPT !.outline.height = 3], [d EXCEPT !.requests = <<>>], [d EXCEPT !.requests[1].net = "GND"],
     [d EXCEPT !.name = "vin"], WithTrack(d, Track("b.t2", "GND", 6, 3, 7, 3, 1))}
Alterations(e) ==
    {[e EXCEPT !.routing.projection.segments[1].width = @ + 1],
     [e EXCEPT !.artifacts.board.segments = Tail(@)],
     [e EXCEPT !.routing.result.outcome.candidates[1].geometry[1].width = @ + 2],
     [e EXCEPT !.routing.result.tool.sha256 = "d2", !.routing.projection.tool.sha256 = "d1"],
     [e EXCEPT !.routing.identity = <<>>]}
EvidenceBinds(e) ==
    /\ VerifyEvidence(e.routing.request, e.routing.result, ExpectedTool(printer[1]))
            = Ok(e.routing.projection.segments)
    /\ \A d \in {design, Canonicalize(Reordered(design))} : Authenticates(d, LowerRequest(d), e)
    /\ \A d \in Others(design) : ~Authenticates(d, LowerRequest(d), e)
    /\ \A k \in Alterations(e) : ~Authenticates(design, LowerRequest(design), k)
RoutingEvidenceIsBound ==
    [][pc # "done" /\ Succeeded' =>
          EvidenceBinds([routing |-> outcome'.value.routing, artifacts |-> outcome'.value.artifacts])]_vars
=============================================================================
