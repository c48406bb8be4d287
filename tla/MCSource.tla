------------------------------ MODULE MCSource ------------------------------
(***************************************************************************)
(* What an author writes.  Either it is the numbers of MCNumbers, or the   *)
(* source of a design: a tree the author edits, and its text, of which a   *)
(* few tokens are lost or turned into others.  The state keeps what the    *)
(* parser and the elaboration make of it.                                  *)
(***************************************************************************)
EXTENDS SourceMap, MCNumbers

CONSTANT MaxDamage

VARIABLES tree, damage, outcome
sourceVars == <<tree, damage, outcome>>
allVars == <<vars, sourceVars>>

(***************************************************************************)
(* Values of the instance.  Numbers are written in the instance's base.    *)
(***************************************************************************)
MCNameOrder ==
    <<"", "0", "0603", "1", "2", "EU", "GND", "PART", "R1", "R2", "RC0603", "V1", "VIN", "VOUT",
      "Yageo", "b.q", "b.t", "design.board.outline", "f.ac", "f.dc", "f.s1", "f.s2", "f.s3",
      "f.tran", "m", "m.r1", "m.r1.footprint", "m.r2", "m.v1", "m.x", "m..x", "p.check", "p.one", "x">>
MCParent == [p \in ToSet(MCNameOrder) |->
                IF p \in {"m.r1", "m.r2", "m.v1", "m.x"} THEN "m"
                ELSE IF p = "m.r1.footprint" THEN "m.r1"
                ELSE IF p \in {"b.q", "b.t"} THEN "b" ELSE IF p \in {"f.ac", "f.dc", "f.s1",
                    "f.s2", "f.s3", "f.tran"} THEN "f"
                ELSE IF p \in {"p.one", "p.check"} THEN "p"
                ELSE IF p = "design.board.outline" THEN "design.board" ELSE Absent]
MCPinOffset == ("1" :> [x |-> 0, y |-> -1]) @@ ("2" :> [x |-> 0, y |-> 1])
Pad(n, x) == [number |-> n, x |-> x, y |-> 0, width |-> 1, height |-> 2, shape |-> "rect"]
MCPadGeometry == <<Pad("1", -1), Pad("2", 1)>>
MCUuid(kind, fields) == <<kind, fields>>
Whole(n) == [negative |-> FALSE, whole |-> Digits(n), point |-> FALSE, fraction |-> <<>>]
MCDecimals ==
    [t \in {ToString(n) : n \in {0, 1, 2, 3, 4, 6, 8, 45, 90}} |->
        Whole(CHOOSE n \in 0 .. 90 : ToString(n) = t)]
    @@ ("-1" :> [Whole(1) EXCEPT !.negative = TRUE])
    @@ ("1.1" :> [Whole(1) EXCEPT !.point = TRUE, !.fraction = <<1>>])

(***************************************************************************)
(* The trees an author starts from.                                        *)
(***************************************************************************)
Node(keyword, fields, nodes) ==
    [keyword |-> keyword, fields |-> fields, nodes |-> nodes, first |-> 0, last |-> 0]
Line(keyword, fields) == Node(keyword, fields, <<>>)
M(field, text, unit) == (field :> text) @@ (field \o " unit" :> unit)
P(field, x, y) == M(field \o " x", x, "nm") @@ M(field \o " y", y, "nm")
Pair(keyword, one, first, two, second) == Line(keyword, (one :> first) @@ (two :> second))
Net(name) == Line("net", [name |-> name])
Ground == Line("ground", [name |-> "GND"])
Port(direction, name, net) ==
    Line("port", ("direction" :> direction) @@ ("name" :> name) @@ ("type" :> "passive")
                 @@ IF net = NoConnect THEN <<>> ELSE "net" :> net)
Bind(pin, symbolPin) == Line("bind", [pin |-> pin, symbolPin |-> symbolPin, type |-> "passive"])
SymbolNode(library) == Node("symbol", [library |-> library], <<Bind("1", "1"), Bind("2", "2")>>)
Sheet(x, y, rotation) == Line("schematic", P("at", x, y) @@ ("rotation" :> rotation))
Substitute(number) == [manufacturer |-> "PART", number |-> number, package |-> "0603"]
Resistor(path, reference, sheet, n1, n2) ==
    Node("resistor", [path |-> path, reference |-> reference],
         <<Line("part", [function |-> "resistor", manufacturer |-> "Yageo", number |-> "RC0603",
                         package |-> "0603"]),
           Line("lifecycle", [status |-> "active"]),
           Line("sourcing", [minimum_available |-> "1", maximum_lead_time_days |-> "2",
                             region |-> "EU"]),
           Line("substitute", Substitute("1")), SymbolNode("R"), Line("model", [id |-> "R"]),
           sheet, Line("resistance", M("value", "1", "kohm")),
           Pair("terminals", "positive", "1", "negative", "2"),
           Pair("connect", "pin", "1", "net", n1), Pair("connect", "pin", "2", "net", n2),
           Node("footprint", [library |-> "R_0603"],
                <<Pair("bind", "pin", "1", "pad", "1"), Pair("bind", "pin", "2", "pad", "2")>>)>>)
Voltage(path, reference, sheet, n1, n2) ==
    Node("dc_source", [path |-> path, reference |-> reference],
         <<Line("part", [function |-> "dc_voltage_source"]), SymbolNode("VDC"),
           Line("model", [id |-> "V"]), sheet, Line("voltage", M("value", "4", "V")),
           Pair("terminals", "positive", "1", "negative", "2"),
           Pair("connect", "pin", "1", "net", n1), Pair("connect", "pin", "2", "net", n2)>>)
PlaceNode(reference, x) ==
    Line("place", [reference |-> reference, rotation |-> "0", layer |-> "front"] @@ P("at", x, "2"))
RouteNode(path) ==
    Line("route", [path |-> path, net |-> "VOUT", layer |-> "front"] @@ P("from", "3", "2")
                  @@ P("to", "4", "2") @@ M("width", "1", "nm"))
RequestNode(path) ==
    Line("autoroute", [path |-> path, net |-> "VOUT", layer |-> "front"] @@ M("width", "1", "nm")
                      @@ M("clearance", "1", "nm") @@ M("grid", "1", "nm"))
Outline8 == Line("rectangle", P("at", "0", "0") @@ P("size", "8", "4"))

Dc == Line("analysis", [kind |-> "dc_operating_point", path |-> "f.dc"])
Ac == Line("analysis", [kind |-> "ac_linear_sweep", path |-> "f.ac", source |-> "m.v1",
                        points |-> "3"]
           @@ M("start_frequency", "1", "Hz") @@ M("stop_frequency", "3", "Hz")
           @@ M("magnitude", "1", "V") @@ M("phase", "0", "deg"))
Tran == Line("analysis", [kind |-> "transient", path |-> "f.tran", uic |-> "false"]
             @@ M("step", "1", "s") @@ M("stop", "2", "s") @@ M("start", "0", "s"))
AssertNode(path, analysis, kind, at) ==
    Line("assert", [path |-> path, analysis |-> analysis, net |-> "VOUT", sample |-> kind]
         @@ M("expected", "2", "V") @@ M("absolute_tolerance", "1", "V")
         @@ M("relative_tolerance", "0", "ratio") @@ at)
CheckNode(path) == Node("manufacturability", [path |-> path, adapter |-> "kicad", version |-> "1"],
    <<Pair("assert", "path", "1", "capability", "erc_clean"),
      Pair("assert", "path", "2", "capability", "drc_clean")>>)
VariantNode == Node("variant", [path |-> "p.one", build_quantity |-> "1"],
    <<Line("fit", [path |-> "m.r1"]), Line("alternate", [path |-> "m.r2"] @@ Substitute("1")),
      Pair("configure", "key", "1", "value", "EU")>>)
Catalog == Line("catalog_snapshot", [snapshot |-> "PART", sha256 |-> "1", evaluated_on |-> "2"])

\* What is placed and routed, and what else is declared.
Physical1 ==
    [name |-> "x", nodes |->
        <<Net("VIN"), Net("VOUT"),
          Node("module", [path |-> "m"], <<Port("input", "VIN", "VIN"), Port("inout", "x", NoConnect)>>),
          Resistor("m.r1", "R1", Sheet("0", "0", "0"), "VIN", "VOUT"),
          Voltage("m.v1", "V1", Sheet("4", "0", "90"), "VIN", "GND"), Ground,
          Node("board", <<>>, <<Outline8, PlaceNode("R1", "2"), RouteNode("b.t"), RequestNode("b.q")>>)>>]
Intended ==
    [name |-> "x", nodes |->
        <<Net("VOUT"), Catalog, VariantNode, CheckNode("p.check"), Dc, Ac, Tran,
          AssertNode("f.s1", "f.dc", "scalar", <<>>),
          AssertNode("f.s2", "f.ac", "frequency", M("at", "2", "Hz")),
          AssertNode("f.s3", "f.tran", "time", M("at", "1", "s")), Node("board", <<>>, <<Outline8>>)>>]
\* A small one, of which pairs of tokens are damaged.
Small ==
    [name |-> "x", nodes |->
        <<Net("VIN"), Node("module", [path |-> "m"], <<Port("input", "VIN", "VIN")>>),
          Node("variant", [path |-> "p.one", build_quantity |-> "1"], <<>>),
          Node("board", <<>>, <<Outline8>>)>>]
Starts == {Physical1, Intended, Small}
NoTree == [name |-> "", nodes |-> <<>>]

(***************************************************************************)
(* The text, as it arrives, and what becomes of it.                        *)
(***************************************************************************)
Tokens(t, d) ==
    LET Arriving(token) == IF token.place \in DOMAIN d
                           THEN [token EXCEPT !.kind = d[token.place], !.text = ""] ELSE token
    IN  SelectSeq(Each(Placed(Text(t)), Arriving), LAMBDA token : token.kind # "lost")
\* What is read, and made of it, of a text as it arrives.
Outcome(tokens, reports, read) ==
    [arrived |-> Each(tokens, LAMBDA x : Token(x.kind, x.text)), reports |-> reports, read |-> read,
     made |-> IF reports = <<>> THEN Elaborate(read) ELSE Refusal({})]
ReadOf(tokens, p) == Outcome(tokens, p.reports, IF Parsed(p) THEN TreeOf(p) ELSE NoTree)
OutcomeOf(tokens) == ReadOf(tokens, Parse(tokens))

RECURSIVE PlacesIn(_), Changed(_, _, _), NodeAt(_, _)
\* Where the nodes of a tree are, as sequences of indices.
PlacesIn(nodes) ==
    UNION {{<<i>>} \cup {<<i>> \o q : q \in PlacesIn(nodes[i].nodes)} : i \in DOMAIN nodes}
\* The nodes with those at a place replaced by others.
Changed(nodes, place, others) ==
    LET i == Head(place)
    IN  IF Len(place) = 1 THEN SubSeq(nodes, 1, i - 1) \o others \o SubSeq(nodes, i + 1, Len(nodes))
        ELSE [nodes EXCEPT ![i].nodes = Changed(@, Tail(place), others)]
NodeAt(nodes, place) == IF Len(place) = 1 THEN nodes[place[1]]
                        ELSE NodeAt(nodes[Head(place)].nodes, Tail(place))

(***************************************************************************)
(* The author.  A field gets a text that another node has in it or one     *)
(* that is odd there; the kinds of analyses and samples are left alone.    *)
(***************************************************************************)
SomeUnits == {"nm", "V", "kohm", "furlong"}
OddTexts(field) ==
    CASE field \in {"at x", "size x", "from y", "width", "grid", "value", "start", "points",
                    "expected", "rotation", "build_quantity", "minimum_available"} ->
            {"0", "-1", "1.1", "8", "45", "x"}
      [] field \in {"at x unit", "to y unit", "value unit", "step unit", "expected unit"} -> SomeUnits
      [] field = "path" -> {"m", "m.r1", "m.r1.footprint", "design.board.outline", "m..x"}
      [] field \in {"name", "reference", "pin"} -> {"m..x", "x"}
      [] field \in {"net", "layer", "type", "direction", "capability", "uic", "status"} -> {"x"}
      [] field = "library" -> {"R", "R_0402"}
      [] OTHER -> {}
Alternatives(field) ==
    OddTexts(field) \cup {NodeAt(tree.nodes, q).fields[field] :
                            q \in {r \in PlacesIn(tree.nodes) :
                                    field \in DOMAIN NodeAt(tree.nodes, r).fields}}

\* An author changes one thing of a source that was read: a node is left out or
\* repeated, or a field of it gets another text.
Edit(place, others) ==
    /\ tree \in Starts /\ damage = <<>> /\ outcome # <<>>
    /\ tree' = [tree EXCEPT !.nodes = Changed(@, place, others)]
    /\ outcome' = <<>> /\ UNCHANGED <<damage, vars>>
Drop == \E q \in PlacesIn(tree.nodes) : Edit(q, <<>>)
Repeat == \E q \in PlacesIn(tree.nodes) :
    Edit(q, <<NodeAt(tree.nodes, q), NodeAt(tree.nodes, q)>>)
SetTextOf(q, n) ==
    \E f \in DOMAIN n.fields \ {"kind", "sample"} : \E text \in Alternatives(f) :
        text # n.fields[f] /\ Edit(q, <<[n EXCEPT !.fields[f] = text]>>)
SetText == \E q \in PlacesIn(tree.nodes) : SetTextOf(q, NodeAt(tree.nodes, q))
\* A token of the text is lost or arrives as another; of several, all are lost.
Damage == /\ tree = Small /\ Cardinality(DOMAIN damage) < MaxDamage
          /\ \A j \in DOMAIN damage : damage[j] = "lost"
          /\ \E i \in 1 .. Len(Text(tree)) - 1 :
                \E what \in {"lost", ";", "{", "}"} :
                    /\ \A j \in DOMAIN damage : j < i /\ what = "lost"
                    /\ damage' = (i :> what) @@ damage
          /\ outcome' = <<>> /\ UNCHANGED <<tree, vars>>
\* The parser, and what is made of the tree it reads.
ReadIt == /\ tree # NoTree /\ outcome = <<>>
          /\ outcome' = <<OutcomeOf(Tokens(tree, damage))>>
          /\ UNCHANGED <<tree, damage, vars>>
WriteNumber == tree = NoTree /\ Next /\ UNCHANGED sourceVars

SourceInit == /\ tree \in Starts \cup {NoTree}
              /\ damage = <<>>
              /\ outcome = <<>>
              /\ Init
SourceNext == WriteNumber \/ Drop \/ Repeat \/ SetText \/ Damage \/ ReadIt
SourceSpec == SourceInit /\ [][SourceNext]_allVars

(***************************************************************************)
(* Properties of a reading: o is what was made of the tree t and of the    *)
(* damage d to its text.                                                   *)
(***************************************************************************)
IsRead == outcome = <<>> /\ outcome' # <<>>
Accepted(o) == o.made.design # <<>>

\* Nothing is read into a source that is not there, and nothing of it is passed
\* over: a text the parser takes, damaged or not, is the text its tree is written
\* as, and whatever a tree is written as is taken.  About the loops over
\* statements and the recovery within them.
RECURSIVE NumbersAreNumbers(_, _)
NumbersAreNumbers(nodes, block) ==
    \A n \in ToSet(nodes) :
        LET entry == block[n.keyword]
            form == entry.form \o IF entry.rest.by \in {"kind", "sample"}
                                  THEN entry.rest.forms[n.fields[entry.rest.by]] ELSE <<>>
        IN  /\ \A part \in ToSet(form) :
                    part.expect = "number" => n.fields[part.field] \in DOMAIN Decimals
            /\ NumbersAreNumbers(n.nodes, entry.body)
WritingAndReading(t, d, o) ==
    /\ o.reports = <<>> => Text(o.read) = o.arrived
    /\ d = <<>> /\ NumbersAreNumbers(t.nodes, Grammar) => o.reports = <<>>
AcceptedIsWritten == [][IsRead => WritingAndReading(tree, damage, outcome'[1])]_allVars

\* One error hides no other: of two tokens lost in different statements, each is
\* reported within its statement or at the token after it; only a lost semicolon
\* may take along the statement or block after it.  About recover_item and the
\* blocks that go on after it.
NodesOf(t) == {NodeAt(t.nodes, q) : q \in PlacesIn(t.nodes)}
Leaves(t) == {n \in NodesOf(t) : Text(t)[n.last].kind = ";"}
LostOf(d, n) == DOMAIN d \cap (n.first .. n.last)
\* n is in the statement, of which a block is one, after m.
Follows(nodes, n, m) ==
    \E s \in nodes : s.first = m.last + 1 /\ n.first >= s.first /\ n.last <= s.last
ReportsAreNear(nodes, hit, d, o) ==
    (\A i \in DOMAIN d : \E n \in hit : LostOf(d, n) = {i}) =>
        \A n \in hit : (\A m \in hit : ~(m.last \in LostOf(d, m) /\ Follows(nodes, n, m))) =>
            \E r \in ToSet(o.reports) : r.place \in n.first .. n.last + 1
DamageShows(t, d, o) ==
    LET read == TreeOf(Parse(Placed(Text(t))))
    IN  ReportsAreNear(NodesOf(read), {n \in Leaves(read) : LostOf(d, n) # {}}, d, o)
EveryDamageIsReported ==
    [][IsRead /\ damage # <<>> /\ ToSet(damage) = {"lost"} =>
            DamageShows(tree, damage, outcome'[1])]_allVars

\* Nothing that is declared is dropped, overwritten or merged: an accepted design
\* has as many entities of each kind as the source declares, under the names it
\* declares; and with the statements of every block turned round it is accepted
\* and the same design.  About the maps by name of the elaboration, of which the
\* first entry wins, and what may be declared once only.
Declares(nodes, keywords, field, entities, name) ==
    /\ Len(Of(nodes, keywords)) = Len(entities)
    /\ ToSet(Texts(Of(nodes, keywords), field)) = ToSet(Field(entities, name))
ComponentIsKept(n, c) ==
    /\ Len(Of(n.nodes, {"connect", "no_connect"})) = Len(c.connections)
    /\ Len(Items(n, "substitute")) = Len(c.part.substitutions)
    /\ Len(Items(n, "sourcing")) = Len(c.part.sourcing)
    /\ Len(Values(n)) = 1 /\ Len(Items(n, "part")) = 1
    /\ Len(Items(n, "symbol")[1].nodes) = Len(c.pins)
    /\ Len(Items(n, "footprint")) = Len(c.physical)
    /\ Len(Items(n, "terminals")) = Len(c.model)
AllIsKept(t, d) ==
    /\ Declares(t.nodes, {"net", "ground"}, "name", d.nets, "name")
    /\ Declares(t.nodes, {"module"}, "path", d.modules, "path")
    /\ Declares(t.nodes, {"resistor", "dc_source"}, "path", d.components, "path")
    /\ Declares(t.nodes, {"analysis"}, "path", d.analyses, "path")
    /\ Declares(t.nodes, {"assert"}, "path", d.assertions, "path")
    /\ Declares(t.nodes, {"variant"}, "path", d.variants, "path")
    /\ Declares(t.nodes, {"manufacturability"}, "path", d.checks, "path")
    /\ Len(Of(t.nodes, {"catalog_snapshot"})) = Len(d.catalog)
    /\ Len(Of(t.nodes, {"board"})) = 1
    /\ \A n \in Components(t) :
            ComponentIsKept(n, FirstWith(d.components, "path", n.fields["path"]))
BoardIsKept(board, d) ==
    /\ Len(Of(board.nodes, {"rectangle"})) = 1
    /\ Declares(board.nodes, {"route"}, "path", d.routes, "path")
    /\ Declares(board.nodes, {"autoroute"}, "path", d.requests, "path")
    /\ Len(Of(board.nodes, {"place"}))
            = Len(SelectSeq(d.components, LAMBDA c : c.physical # <<>>))
RECURSIVE TurnedRound(_)
TurnedRound(nodes) == Reverse(Each(nodes, LAMBDA n : [n EXCEPT !.nodes = TurnedRound(@)]))
Kept(t, made) ==
    /\ made.design # <<>> =>
            AllIsKept(t, made.design[1]) /\ BoardIsKept(Of(t.nodes, {"board"})[1], made.design[1])
    /\ Elaborate([t EXCEPT !.nodes = TurnedRound(@)]).design = made.design
NothingIsDropped ==
    [][IsRead /\ outcome'[1].reports = <<>> => Kept(outcome'[1].read, outcome'[1].made)]_allVars

\* The project's evidence leads back to the source: the location given for the
\* identity of anything of a component, a footprint or a route is within the
\* declaration of that component, footprint or route, whatever else has a path
\* that begins like its own; only a request of such a path takes it, or a variant,
\* a check or an assertion of one of that very path.  About span_for_identity and its maps of owners.
LiesIn(location, nodes) ==
    \E n \in nodes : location # NoLocation /\ n.first <= location[1] /\ location[2] <= n.last
Taken(source, path) ==
    \/ \E r \in BoardStatements(source, "autoroute") : Within(path, r.fields["path"])
    \/ \E v \in ToSet(Of(source.nodes, {"variant", "manufacturability"})) :
            \/ v.fields["path"] = path
            \/ v.keyword = "manufacturability" /\ \E a \in ToSet(v.nodes) : a.fields["path"] = path
PartsOf(c, kind) == IF SubSeq(kind, 1, 9) = "footprint" THEN ToSet(Items(c, "footprint")) ELSE {c}
DeclarationOf(source, kind, owner) ==
    CASE kind = "board-outline" -> BoardStatements(source, "rectangle")
      [] kind = "route-segment" ->
            {r \in BoardStatements(source, "route") : r.fields["path"] = owner}
      [] OTHER -> PartsOf(CHOOSE n \in Components(source) : n.fields["path"] = owner, kind)
IsLocated(source, identity, location) ==
    \/ identity.uuid[1] = "schematic-root"
    \/ LiesIn(location, DeclarationOf(source, identity.uuid[1], identity.uuid[2][1]))
    \/ Taken(source, identity.path) /\ identity.uuid[1] # "route-segment"
AllLocated(source, listed, map) ==
    \A i \in DOMAIN listed : IsLocated(source, listed[i], map[i].location)
IdentitiesAreLocated ==
    [][IsRead /\ Accepted(outcome'[1]) =>
            LET o == outcome'[1]  d == o.made.design[1]
            IN  AllLocated(o.read, Identities(d), IdentityMap(o.read, d))]_allVars
=============================================================================
