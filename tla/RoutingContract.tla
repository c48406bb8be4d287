-------------------------- MODULE RoutingContract --------------------------
(***************************************************************************)
(* What is said between the compiler and the routing tool: a request, in   *)
(* database units, and its result, and the rules either is parsed and      *)
(* rendered by.  Lengths of digests and the form of texts are left out; an *)
(* entity is referred to by the number its identity is hashed to.          *)
(***************************************************************************)
EXTENDS DesignCanonical

CONSTANTS MaxDbu,              \* MAX_ABS_DBU_COORDINATE
          MaxContractEntries,  \* MAX_CONTRACT_ENTRIES
          MaxExpandedEdges     \* MAX_EXPANDED_RESOURCE_EDGES
ASSUME RoutingContractAssumption ==
    MaxDbu \in Nat /\ MaxContractEntries \in Nat /\ MaxExpandedEdges \in Nat

DbuPerNm == 2
Pinned == "apgar cpu"          \* the names of the tool the compiler is built for
Costs == [orthogonal |-> 1000, diagonal |-> 1414, bend |-> 100]

(***************************************************************************)
(* Points, boxes and orders.                                               *)
(***************************************************************************)
PointFits(p) == Magnitude(p.x) <= MaxDbu /\ Magnitude(p.y) <= MaxDbu
SizeFits(n) == n \in 1 .. MaxDbu
BoxIsValid(b) == /\ PointFits(b.min) /\ PointFits(b.max)
                 /\ b.min.x <= b.max.x /\ b.min.y <= b.max.y
BoxContains(b, p) == p.x \in b.min.x .. b.max.x /\ p.y \in b.min.y .. b.max.y
BoxInside(outer, b) == BoxContains(outer, b.min) /\ BoxContains(outer, b.max)
Ascending(s) == \A i \in 1 .. Len(s) - 1 : s[i] < s[i + 1]
AscendingBy(s, Key(_)) == \A i \in 1 .. Len(s) - 1 : Precedes(Key(s[i]), Key(s[i + 1]))
Bounded(s) == Len(s) <= MaxContractEntries

(***************************************************************************)
(* A grid edge is a node of the lattice and one of the first four of the   *)
(* eight directions, counted from east against the clock.                  *)
(***************************************************************************)
East == 0
NorthWest == 3
Delta == [k \in 0 .. 7 |-> <<[x |-> 1, y |-> 0], [x |-> 1, y |-> 1], [x |-> 0, y |-> 1],
                            [x |-> -1, y |-> 1], [x |-> -1, y |-> 0], [x |-> -1, y |-> -1],
                            [x |-> 0, y |-> -1], [x |-> 1, y |-> -1]>>[k + 1]]
IsDiagonal(k) == k % 2 = 1
EdgeKey(e) == <<e.x, e.y, e.direction>>

BasePolicy == [seed |-> 0, ordinal |-> 0, orthogonal |-> 0, diagonal |-> 0, bend |-> 0,
               banned |-> <<>>, penalties |-> <<>>]
PolicyIsValid(p) ==
    /\ Bounded(p.banned) /\ Bounded(p.penalties)
    /\ AscendingBy(p.banned, EdgeKey)
    /\ AscendingBy(p.penalties, LAMBDA q : EdgeKey(q.resource) \o <<q.cost>>)
    /\ \A i \in DOMAIN p.penalties : p.penalties[i].cost # 0

(***************************************************************************)
(* A request.                                                              *)
(***************************************************************************)
References(r) == Field(r.layers, "reference") \o Field(r.nets, "reference")
                 \o Field(r.terminals, "reference") \o Field(r.obstacles, "reference")
CountsAreRight(r) ==
    Len(r.layers) = 1 /\ Len(r.nets) = 1 /\ Len(r.terminals) = 2 /\ Bounded(r.obstacles)
ItemsAreValid(r) ==
    /\ Ascending(Field(r.terminals, "reference"))
    /\ Ascending(Field(r.obstacles, "reference"))
    /\ 0 \notin ToSet(References(r)) /\ ~Repeats(References(r))
    /\ \A i \in DOMAIN r.terminals :
         LET t == r.terminals[i]
         IN  PointFits(t.center) /\ BoxIsValid(t.region) /\ BoxContains(t.region, t.center)
    /\ \A i \in DOMAIN r.obstacles : BoxIsValid(r.obstacles[i].bounds)
ProfilesAreValid(r) ==
    /\ SizeFits(r.profile.width) /\ SizeFits(r.profile.clearance) /\ Len(r.profile.layers) = 1
    /\ PointFits(r.compiler.origin) /\ SizeFits(r.compiler.step) /\ BoxIsValid(r.compiler.roi)
    /\ Len(r.compiler.regions) = 1
    /\ r.compiler.costs.orthogonal # 0 /\ r.compiler.costs.diagonal # 0
    /\ PointFits(r.route.from) /\ PointFits(r.route.to) /\ r.route.from # r.route.to
    /\ PolicyIsValid(r.route.policy)
\* What the parts of a request say of one another.
NetAgrees(r, net) ==
    /\ r.profile.net = net /\ r.route.net = net
    /\ r.nets[1].terminals = Field(r.terminals, "reference")
ItemsAgree(r, net, layer) ==
    /\ \A i \in DOMAIN r.terminals :
         LET t == r.terminals[i]
         IN  t.net = net /\ t.layers = <<layer>> /\ BoxInside(r.compiler.roi, t.region)
    /\ \A i \in DOMAIN r.obstacles :
         LET o == r.obstacles[i]
         IN  /\ o.layer = layer /\ ToSet(o.owner) \subseteq {net}
             /\ BoxInside(r.compiler.roi, o.bounds)
RouteAgrees(r, layer) ==
    /\ r.profile.layers = <<layer>> /\ r.route.layers = <<layer, layer>>
    /\ r.compiler.regions[1].layer = layer
    /\ BoxInside(r.compiler.roi, r.compiler.regions[1].bounds)
    /\ {r.route.from, r.route.to} = ToSet(Field(r.terminals, "center"))
PartsAgree(r) ==
    LET net == r.nets[1].reference  layer == r.layers[1].layer
    IN  NetAgrees(r, net) /\ ItemsAgree(r, net, layer) /\ RouteAgrees(r, layer)
RouteRequestIsValid(r) ==
    /\ r.tool = Pinned /\ r.scale = DbuPerNm /\ IsName(r.design) /\ IsName(r.path)
    /\ \A n \in DOMAIN r.limits : r.limits[n] # 0
    /\ CountsAreRight(r) /\ ItemsAreValid(r) /\ ProfilesAreValid(r) /\ PartsAgree(r)

(***************************************************************************)
(* A result: a failure, or candidates of which one is selected.  A line of *)
(* a candidate's geometry is horizontal, vertical or at 45 degrees; its    *)
(* resources are spans of grid edges.                                      *)
(***************************************************************************)
LineIsValid(l) ==
    LET dx == Magnitude(l.to.x - l.from.x)  dy == Magnitude(l.to.y - l.from.y)
    IN  /\ PointFits(l.from) /\ PointFits(l.to) /\ SizeFits(l.width)
        /\ l.from # l.to /\ (dx = 0 \/ dy = 0 \/ dx = dy)
SpanIsValid(s) == /\ s.direction \in East .. NorthWest /\ s.count > 0 /\ s.usage = 1
                  /\ Magnitude(s.x) <= MaxDbu /\ Magnitude(s.y) <= MaxDbu
SumOf(s) == FoldLeft(LAMBDA n, k : n + k, 0, s)
Admitted == [satisfied |-> TRUE, unsupported |-> FALSE, terminals |-> 2, status |-> "passed"]

CandidateIsValid(c) ==
    /\ c.terminals[1] < c.terminals[2]
    /\ PolicyIsValid(c.policy)
    /\ c.geometry # <<>> /\ Bounded(c.geometry)
    /\ \A i \in DOMAIN c.geometry : LineIsValid(c.geometry[i])
    /\ \A i \in 2 .. Len(c.geometry) : /\ c.geometry[i - 1].to = c.geometry[i].from
                                       /\ c.geometry[i - 1].layer = c.geometry[i].layer
    /\ c.resources # <<>> /\ Bounded(c.resources)
    /\ AscendingBy(c.resources, EdgeKey)
    /\ \A i \in DOMAIN c.resources : SpanIsValid(c.resources[i])
    /\ SumOf(Field(c.resources, "count")) <= MaxExpandedEdges
    /\ c.metrics.lines = Len(c.geometry) /\ c.metrics.vias = 0
    /\ c.constraints = Admitted

Selected(outcome) == First(outcome.candidates, LAMBDA c : c.id = outcome.selected)
RouteResultIsValid(s) ==
    /\ IsName(s.path)
    /\ s.outcome.kind = "completed" =>
         LET candidates == s.outcome.candidates
         IN  /\ candidates # <<>> /\ Bounded(candidates)
             /\ ~Repeats(Field(candidates, "id"))
             /\ \A i \in DOMAIN candidates : CandidateIsValid(candidates[i])
             /\ s.outcome.selected \in ToSet(Field(candidates, "id"))
             /\ LET p == candidates[Selected(s.outcome)].provenance
                IN  /\ p.seed = s.replay.seed /\ p.batch = s.replay.batch
                    /\ p.query = s.replay.query
=============================================================================
