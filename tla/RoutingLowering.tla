-------------------------- MODULE RoutingLowering --------------------------
(***************************************************************************)
(* The request the routing tool gets for a design: the pads and the copper *)
(* of one layer in database units, two of the pads as terminals, and the   *)
(* identities its result will have to repeat.  A digest of a text is the   *)
(* text; the number an entity is referred to by is a hash that may be zero *)
(* or meet another's, and whose order means nothing.                       *)
(***************************************************************************)
EXTENDS RoutingContract

CONSTANT IdOf(_, _, _)     \* a design's name, a domain and fields, hashed to a number

Flat(s) == FoldLeft(LAMBDA all, k : all \o k, <<>>, s)

(***************************************************************************)
(* Nanometres in database units.                                           *)
(***************************************************************************)
Dbu(n) == DbuPerNm * n
DbuPoint(p) == [x |-> Dbu(p.x), y |-> Dbu(p.y)]
Box(x1, y1, x2, y2) == [min |-> [x |-> x1, y |-> y1], max |-> [x |-> x2, y |-> y2]]
BoxFits(b) == PointFits(b.min) /\ PointFits(b.max)
\* A mutant: a turned pad keeps its width.
PadBoundsUnturned(place, center, pad) ==
    Box(center.x - pad.width, center.y - pad.height, center.x + pad.width, center.y + pad.height)
\* Half a dimension is, in database units, as many as it has nanometres.
PadBounds(place, center, pad) ==
    IF place.rotation % 360 \in {90, 270}
    THEN Box(center.x - pad.height, center.y - pad.width, center.x + pad.height, center.y + pad.width)
    ELSE Box(center.x - pad.width, center.y - pad.height, center.x + pad.width, center.y + pad.height)
LineBounds(a, b, width) ==
    Box(Smaller(a.x, b.x) - width, Smaller(a.y, b.y) - width,
        Largest({a.x, b.x}) + width, Largest({a.y, b.y}) + width)
RouteBounds(r) == LineBounds(DbuPoint(r.from), DbuPoint(r.to), r.width)
BoardBounds(d) ==
    Box(Dbu(d.outline.x), Dbu(d.outline.y),
        Dbu(d.outline.x + d.outline.width), Dbu(d.outline.y + d.outline.height))

(***************************************************************************)
(* The pads and the segments of the layer, in the order they are lowered.  *)
(***************************************************************************)
PadAt(c, pad, place, center) ==
    [component |-> c.path, pad |-> pad.number, net |-> NetForPad(c, pad.number),
     center |-> center, bounds |-> PadBounds(place, center, pad)]
PadOf(c, pad) == PadAt(c, pad, c.physical[1], DbuPoint(Transform(c.physical[1], pad)[1]))
PadsOf(c) == Each(ByName(c.physical[1].pads, "number"), LAMBDA a : PadOf(c, a))
LayerPads(d, layer) ==
    Flat(Each(SortBy(SelectSeq(d.components, LAMBDA c :
                        c.physical # <<>> /\ c.physical[1].layer = layer),
                     LAMBDA c : <<Rank(c.path), Rank(c.reference)>>), PadsOf))
LayerRoutes(d, layer) == ByName(SelectSeq(d.routes, LAMBDA r : r.layer = layer), "path")

Entity(domain, fields) == [domain |-> domain, fields |-> fields]
TerminalEntity(p) == Entity("terminal", <<p.component, p.pad>>)
PadEntity(p) == Entity("pad-obstacle", <<p.component, p.pad>>)
RouteEntity(r) == Entity("route-obstacle", <<r.path>>)
LayerEntity(layer) == Entity("layer", <<layer>>)
NetEntity(net) == Entity("net", <<net>>)
Reference(d, e) == IdOf(d.name, e.domain, e.fields)

\* What is converted or given a reference on the way, in that order; an entity
\* has an empty box, a conversion no entity.
Converted(b) == [fits |-> BoxFits(b), entity |-> <<>>]
Named(e) == [fits |-> TRUE, entity |-> <<e>>]
SizeConverted(n) == [fits |-> Dbu(n) \in 1 .. MaxDbu, entity |-> <<>>]
StepsOfPad(r, p) ==
    <<Converted([min |-> p.center, max |-> p.center]), Converted(p.bounds)>>
    \o (IF p.net = r.net THEN <<Named(TerminalEntity(p))>> ELSE <<>>) \o <<Named(PadEntity(p))>>
Steps(d, r, pads, routes) ==
    <<Named(LayerEntity(r.layer)), Named(NetEntity(r.net))>>
    \o Flat([i \in DOMAIN pads |-> StepsOfPad(r, pads[i])])
    \o Flat([i \in DOMAIN routes |-> <<Named(RouteEntity(routes[i])), Converted(RouteBounds(routes[i]))>>])
    \o <<Converted(BoardBounds(d)), SizeConverted(r.width), SizeConverted(r.clearance),
         SizeConverted(r.step)>>

\* A number is not zero, and no two entities have the same one.
Meet(d, e, other) == e # other /\ Reference(d, e) = Reference(d, other)
ReferenceFails(d, steps, i, e) ==
    Reference(d, e) = 0 \/ \E j \in 1 .. i - 1 : \E other \in ToSet(steps[j].entity) : Meet(d, e, other)
StepError(d, steps, i) ==
    IF ~steps[i].fits THEN "CC-ROUTE-LOWER-001"
    ELSE IF \E e \in ToSet(steps[i].entity) : ReferenceFails(d, steps, i, e) THEN "CC-ROUTE-LOWER-002"
    ELSE "no"
StepErrors(d, steps) == SelectSeq([i \in DOMAIN steps |-> StepError(d, steps, i)], LAMBDA e : e # "no")

(***************************************************************************)
(* The request.                                                            *)
(***************************************************************************)
ByReference(s) == SortBy(s, LAMBDA e : <<e.reference>>)
OwnerOf(r, own, net) == IF net = r.net THEN <<own>> ELSE <<>>
TerminalsOf(d, r, pads) ==
    Each(SelectSeq(pads, LAMBDA p : p.net = r.net), LAMBDA p :
            [reference |-> Reference(d, TerminalEntity(p)), net |-> Reference(d, NetEntity(r.net)),
             component |-> p.component, pad |-> p.pad, center |-> p.center,
             region |-> p.bounds, layers |-> <<r.layer>>])
ObstaclesOf(d, r, pads, routes, own) ==
    Each(pads, LAMBDA p :
            [reference |-> Reference(d, PadEntity(p)), layer |-> r.layer, bounds |-> p.bounds,
             owner |-> OwnerOf(r, own, p.net), provenance |-> <<p.component, p.pad>>])
    \o Each(routes, LAMBDA t :
            [reference |-> Reference(d, RouteEntity(t)), layer |-> r.layer,
             bounds |-> RouteBounds(t), owner |-> OwnerOf(r, own, t.net), provenance |-> <<t.path>>])

Fingerprint(d, content) == [name |-> d.name, content |-> content]
\* The parts of a request the fingerprint of the design is taken of.
Content(d, r, net, terminals, obstacles, board) ==
    [path |-> r.path,
     layers |-> <<[reference |-> Reference(d, LayerEntity(r.layer)), layer |-> r.layer]>>,
     nets |-> <<[reference |-> net, name |-> r.net, terminals |-> Field(terminals, "reference")]>>,
     terminals |-> terminals, obstacles |-> obstacles,
     profile |-> [net |-> net, width |-> Dbu(r.width), clearance |-> Dbu(r.clearance),
                  layers |-> <<r.layer>>],
     compiler |-> [origin |-> board.min, step |-> Dbu(r.step), roi |-> board, costs |-> Costs,
                   regions |-> <<[layer |-> r.layer, bounds |-> board]>>]]
RequestIdentity(r, fingerprint) ==
    <<fingerprint, r.path, r.net, r.width, r.clearance, r.step, r.layer>>
\* (ends are the terminals in the order of their paths.)
RequestOf(d, r, ends, content, fingerprint, identity) ==
    [design |-> d.name, fingerprint |-> fingerprint, path |-> r.path, identity |-> identity,
     tool |-> Pinned, scale |-> DbuPerNm, revision |-> <<"revision", fingerprint>>,
     layers |-> content.layers, nets |-> content.nets, terminals |-> content.terminals,
     obstacles |-> content.obstacles, profile |-> content.profile,
     compiler |-> content.compiler,
     route |-> [net |-> content.profile.net, from |-> ends[1].center, to |-> ends[2].center,
                layers |-> <<r.layer, r.layer>>, policy |-> BasePolicy,
                batch |-> <<"batch", identity>>, query |-> <<"query", identity>>],
     limits |-> [milliseconds |-> 30000, edges |-> MaxExpandedEdges]]
BundleOfRequest(request) ==
    IF RouteRequestIsValid(request) THEN Ok([request |-> request, sha256 |-> request])
    ELSE Err("CC-ROUTE-LOWER-003")
BundleOfIdentity(d, r, ends, content, fingerprint) ==
    BundleOfRequest(RequestOf(d, r, ends, content, fingerprint, RequestIdentity(r, fingerprint)))
BundleOfContent(d, r, ends, content) ==
    BundleOfIdentity(d, r, ends, content, Fingerprint(d, content))
LowerTerminals(d, r, pads, routes, net, ends) ==
    IF Len(ends) # 2 THEN Err("CC-ROUTE-LOWER-003")
    ELSE BundleOfContent(d, r, ends, Content(d, r, net, ByReference(ends),
            ByReference(ObstaclesOf(d, r, pads, routes, net)), BoardBounds(d)))
OrRefused(codes, answer) == IF codes # <<>> THEN Err(codes[1]) ELSE answer
LowerLayer(d, r, pads, routes) ==
    OrRefused(StepErrors(d, Steps(d, r, pads, routes)),
        LowerTerminals(d, r, pads, routes, Reference(d, NetEntity(r.net)), TerminalsOf(d, r, pads)))

\* lower_request: nothing without a request, else its bundle or what it is
\* refused with.
LowerRequest(d) ==
    IF ~Validates(d) THEN Err("design")
    ELSE IF d.requests = <<>> THEN Ok(<<>>)
    ELSE LowerLayer(d, d.requests[1], LayerPads(d, d.requests[1].layer),
                    LayerRoutes(d, d.requests[1].layer))
=============================================================================
