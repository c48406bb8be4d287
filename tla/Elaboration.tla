----------------------------- MODULE Elaboration -----------------------------
(***************************************************************************)
(* From the tree of a source to the design it declares.  Every declaration *)
(* is looked at, whatever was wrong with the ones before it; of several    *)
(* with one name the first counts, and each of the others is reported.     *)
(* The result is the design in its canonical form or the set of the codes. *)
(***************************************************************************)
EXTENDS KicadProject, SourceText

CONSTANTS MaxU64, MaxU32, MaxI16

Of(nodes, keywords) == SelectSeq(nodes, LAMBDA n : n.keyword \in keywords)
Texts(nodes, field) == [i \in DOMAIN nodes |-> nodes[i].fields[field]]
\* Of the nodes with one text in a field, the first.
Firsts(nodes, field) ==
    LET kept == SelectSeq([i \in DOMAIN nodes |-> i], LAMBDA i :
                    \A j \in 1 .. i - 1 : nodes[j].fields[field] # nodes[i].fields[field])
    IN  Each(kept, LAMBDA i : nodes[i])
All(nodes, Codes(_)) == UNION {Codes(nodes[i]) : i \in DOMAIN nodes}
\* A mutant: what is declared once too often is dropped without a word.
SingleOfMany(nodes, required, missing, repeated) == When(required /\ nodes = <<>>, missing)
\* select_single: what must, or may, be declared once.
Single(nodes, required, missing, repeated) ==
    When(required /\ nodes = <<>>, missing) \cup When(Len(nodes) > 1, repeated)
AtMostFirst(nodes) == SubSeq(nodes, 1, Smaller(Len(nodes), 1))

(***************************************************************************)
(* Numbers and their units.  A result is as Quantities has it.             *)
(***************************************************************************)
QuantityCodes == [unit |-> "CC-LANG-QUANTITY-002", dimension |-> "CC-LANG-QUANTITY-005",
                  syntax |-> "CC-LANG-QUANTITY-001", overflow |-> "CC-LANG-QUANTITY-004",
                  exponent |-> "CC-LANG-QUANTITY-006", precision |-> "CC-LANG-QUANTITY-003",
                  rotation |-> "CC-LANG-QUANTITY-007"]
Wrong(results) == {QuantityCodes[results[i].error] : i \in {j \in DOMAIN results : ~IsOk(results[j])}}
ElectricalUnits == [ohm |-> <<"Ohm", 0>>, kohm |-> <<"Ohm", 3>>, V |-> <<"Volt", 0>>,
                    Hz |-> <<"Hertz", 0>>, kHz |-> <<"Hertz", 3>>, s |-> <<"Second", 0>>,
                    ms |-> <<"Second", -3>>, us |-> <<"Second", -6>>, deg |-> <<"Degree", 0>>,
                    ratio |-> <<"Dimensionless", 0>>]
LengthUnits == [nm |-> 0, um |-> 3, mm |-> 6]
Electrical(n, field, expected) ==
    LET unit == n.fields[field \o " unit"]
    IN  IF unit \notin DOMAIN ElectricalUnits THEN Err("unit")
        ELSE LowerElectrical(Decimals[n.fields[field]], ElectricalUnits[unit][2],
                             ElectricalUnits[unit][1], expected)
Length(n, field) ==
    LET unit == n.fields[field \o " unit"]
    IN  IF unit \notin DOMAIN LengthUnits THEN Err("unit")
        ELSE LowerLength(Decimals[n.fields[field]], LengthUnits[unit], MaxCoordinate)
Turn(n) == LowerRotation(Decimals[n.fields["rotation"]], MaxI16)
Unsigned(n, field, limit) ==
    LET literal == Decimals[n.fields[field]]
    IN  IF literal.negative \/ literal.point \/ Value(literal.whole) > limit
        THEN Err("unsigned") ELSE Ok(Value(literal.whole))
PointOf(n, field) == [x |-> Length(n, field \o " x").value, y |-> Length(n, field \o " y").value]
PointResults(n, field) == <<Length(n, field \o " x"), Length(n, field \o " y")>>
Positive(n, field, code) == LET l == Length(n, field) IN When(IsOk(l) /\ l.value <= 0, code)

Layers == {"front", "back"}
Types == {"input", "output", "bidirectional", "passive", "power_input", "power_output",
          "open_collector", "open_emitter"}
Statuses == {"active", "not_recommended_for_new_designs", "obsolete"}
LayerCodes(n) == When(n.fields["layer"] \notin Layers, "CC-LANG-LAYER-001")
TypeCodes(n) == When(n.fields["type"] \notin Types, "CC-LANG-PIN-TYPE-001")
Unknown(n, nets) == When("net" \in DOMAIN n.fields /\ n.fields["net"] \notin nets, "CC-LANG-RESOLVE-001")
NetOf(n) == IF "net" \in DOMAIN n.fields THEN n.fields["net"] ELSE NoConnect

(***************************************************************************)
(* Nets and modules.                                                       *)
(***************************************************************************)
NetCodes(nets) ==
    LET names == Texts(nets, "name")
    IN  When(\E n \in ToSet(names) : ~IsName(n), "CC-LANG-NET-001")
        \cup When(Repeats(names), "CC-LANG-NET-002")
Nets(nets) == Each(Firsts(nets, "name"), LAMBDA n : [name |-> n.fields["name"],
                                                    ground |-> n.keyword = "ground"])

Directions == {"input", "output", "inout"}
PortCodes(ports, nets) ==
    LET names == Texts(ports, "name")
    IN  When(\E n \in ToSet(names) : ~IsName(n), "CC-LANG-PORT-001")
        \cup When(Repeats(names), "CC-LANG-PORT-002")
        \cup All(Firsts(ports, "name"), LAMBDA p :
                When(p.fields["direction"] \notin Directions, "CC-LANG-PORT-003")
                \cup TypeCodes(p) \cup Unknown(p, nets))
ModuleCodes(modules, nets) ==
    LET paths == ToSet(Texts(modules, "path"))
    IN  When(\E p \in paths : ~IsName(p), "CC-LANG-MODULE-001")
        \cup When(Repeats(Texts(modules, "path")), "CC-LANG-MODULE-002")
        \cup When(\E p \in paths : Parent[p] \notin paths \cup {Absent}, "CC-LANG-MODULE-003")
        \cup All(Firsts(modules, "path"), LAMBDA m : PortCodes(m.nodes, nets))
Modules(modules) ==
    Each(Firsts(modules, "path"), LAMBDA m :
        [path |-> m.fields["path"],
         ports |-> Each(Firsts(m.nodes, "name"), LAMBDA p : [name |-> p.fields["name"],
                                                             net |-> NetOf(p)])])

(***************************************************************************)
(* Simulations.                                                            *)
(***************************************************************************)
AnalysisResults(a) ==
    LET E(field, unit) == Electrical(a, field, unit)
    IN  CASE a.fields["kind"] = "dc_operating_point" -> <<>>
          [] a.fields["kind"] = "ac_linear_sweep" ->
                <<E("start_frequency", "Hertz"), E("stop_frequency", "Hertz"),
                  E("magnitude", "Volt"), E("phase", "Degree")>>
          [] a.fields["kind"] = "transient" ->
                <<E("step", "Second"), E("stop", "Second"), E("start", "Second")>>
AnalysisCodes(a) ==
    Wrong(AnalysisResults(a))
    \cup When(/\ a.fields["kind"] = "ac_linear_sweep"
              /\ ~IsOk(Unsigned(a, "points", MaxU32)), "CC-LANG-ANALYSIS-001")
    \cup When(/\ a.fields["kind"] = "transient"
              /\ a.fields["uic"] \notin {"true", "false"}, "CC-LANG-ANALYSIS-002")
AnalysesCodes(analyses) ==
    LET paths == Texts(analyses, "path")
    IN  When(\E p \in ToSet(paths) : ~IsName(p), "CC-LANG-ANALYSIS-003")
        \cup When(Repeats(paths), "CC-LANG-ANALYSIS-004")
        \cup All(Firsts(analyses, "path"), AnalysisCodes)
Analysis(a) ==
    LET q == Each(AnalysisResults(a), LAMBDA r : r.value)
        path == a.fields["path"]
    IN  CASE a.fields["kind"] = "dc_operating_point" -> [path |-> path, kind |-> "dc"]
          [] a.fields["kind"] = "ac_linear_sweep" ->
                [path |-> path, kind |-> "ac", source |-> a.fields["source"],
                 points |-> Unsigned(a, "points", MaxU32).value,
                 start |-> q[1], stop |-> q[2], magnitude |-> q[3], phase |-> q[4]]
          [] a.fields["kind"] = "transient" ->
                [path |-> path, kind |-> "tran", step |-> q[1], stop |-> q[2], start |-> q[3],
                 uic |-> a.fields["uic"] = "true"]

AssertionResults(s) ==
    <<Electrical(s, "expected", "Volt"), Electrical(s, "absolute_tolerance", "Volt"),
      Electrical(s, "relative_tolerance", "Dimensionless")>>
    \o CASE s.fields["sample"] = "scalar" -> <<>>
         [] s.fields["sample"] = "frequency" -> <<Electrical(s, "at", "Hertz")>>
         [] s.fields["sample"] = "time" -> <<Electrical(s, "at", "Second")>>
AssertionsCodes(assertions) ==
    LET paths == Texts(assertions, "path")
    IN  When(\E p \in ToSet(paths) : ~IsName(p), "CC-LANG-ASSERTION-001")
        \cup When(Repeats(paths), "CC-LANG-ASSERTION-002")
        \cup All(Firsts(assertions, "path"), LAMBDA s : Wrong(AssertionResults(s)))
Assertion(s) ==
    LET q == Each(AssertionResults(s), LAMBDA r : r.value)
    IN  [path |-> s.fields["path"], analysis |-> s.fields["analysis"], net |-> s.fields["net"],
         sampleKind |-> s.fields["sample"], sample |-> IF Len(q) = 4 THEN q[4] ELSE Absent,
         expected |-> q[1], absolute |-> q[2], relative |-> q[3]]

(***************************************************************************)
(* Product intent.                                                         *)
(***************************************************************************)
CatalogCodes(catalogs) == When(Len(catalogs) > 1, "CC-LANG-CATALOG-001")
CatalogOf(n) == [snapshot |-> n.fields["snapshot"], sha256 |-> n.fields["sha256"],
               date |-> n.fields["evaluated_on"]]

SubstitutionOf(n) == [maker |-> n.fields["manufacturer"], number |-> n.fields["number"],
                      package |-> n.fields["package"]]
VariantItems(v) == Of(v.nodes, {"fit", "not_fitted", "alternate"})
VariantSettings(v) == Of(v.nodes, {"configure"})
AssignedTwice(v) == Repeats(Texts(VariantItems(v), "path"))
\* A quantity that is none ends the variant before its items are looked at.
VariantCodes(v) ==
    IF ~IsOk(Unsigned(v, "build_quantity", MaxU64)) THEN {"CC-LANG-VARIANT-002"}
    ELSE When(AssignedTwice(v), "CC-LANG-VARIANT-003")
         \cup When(Repeats(Texts(VariantSettings(v), "key")), "CC-LANG-VARIANT-004")
VariantsCodes(variants) ==
    When(Repeats(Texts(variants, "path")), "CC-LANG-VARIANT-001")
    \cup All(Firsts(variants, "path"), VariantCodes)
Population(n) ==
    [path |-> n.fields["path"],
     state |-> CASE n.keyword = "fit" -> "fitted" [] n.keyword = "not_fitted" -> "not fitted"
                 [] n.keyword = "alternate" -> "alternate",
     alternate |-> IF n.keyword = "alternate" THEN <<SubstitutionOf(n)>> ELSE <<>>]
Variant(v) ==
    [path |-> v.fields["path"], quantity |-> Unsigned(v, "build_quantity", MaxU64).value,
     components |-> Each(Firsts(VariantItems(v), "path"), Population),
     configurations |-> Each(Firsts(VariantSettings(v), "key"), LAMBDA n :
                                [key |-> n.fields["key"], value |-> n.fields["value"]])]

Capabilities == [erc_clean |-> "erc", drc_clean |-> "drc", unconnected_clean |-> "unconnected",
                 schematic_parity_clean |-> "parity",
                 fabrication_inventory_complete |-> "inventory"]
\* The paths of the assertions are unique over all analyses.
ChecksCodes(checks) ==
    LET assertions == FoldLeft(LAMBDA all, k : all \o k.nodes, <<>>, Firsts(checks, "path"))
    IN  When(Repeats(Texts(checks, "path")), "CC-LANG-MANUFACTURABILITY-001")
        \cup When(Repeats(Texts(assertions, "path")), "CC-LANG-MANUFACTURABILITY-002")
        \cup When(Some(Firsts(assertions, "path"), LAMBDA a :
                        a.fields["capability"] \notin DOMAIN Capabilities),
                  "CC-LANG-MANUFACTURABILITY-003")
Check(k) ==
    [path |-> k.fields["path"], adapter |-> k.fields["adapter"], version |-> k.fields["version"],
     assertions |-> Each(k.nodes, LAMBDA a :
                        [path |-> a.fields["path"],
                         capability |-> Capabilities[a.fields["capability"]]])]

(***************************************************************************)
(* The board.  A placement counts once one of its reference was lowered.   *)
(***************************************************************************)
OutlineCodes(r) ==
    Wrong(PointResults(r, "at") \o PointResults(r, "size"))
    \cup Positive(r, "size x", "CC-LANG-SIZE-001") \cup Positive(r, "size y", "CC-LANG-SIZE-001")
Outline(r) == LET size == PointOf(r, "size")
              IN  PointOf(r, "at") @@ [width |-> size.x, height |-> size.y]

PlacementCodes(n) == Wrong(PointResults(n, "at") \o <<Turn(n)>>) \cup LayerCodes(n)
\* The lowered placements of known references, the first of each.
Placements(places, references) ==
    Firsts(SelectSeq(places, LAMBDA n : /\ n.fields["reference"] \in references
                                       /\ PlacementCodes(n) = {}), "reference")
PlacementsCodes(places, references) ==
    LET known == SelectSeq(places, LAMBDA n : n.fields["reference"] \in references)
        Late(i) == \E j \in 1 .. i - 1 : /\ PlacementCodes(known[j]) = {}
                                        /\ known[j].fields["reference"] = known[i].fields["reference"]
    IN  When(Len(known) < Len(places), "CC-LANG-RESOLVE-004")
        \cup UNION {IF Late(i) THEN {"CC-LANG-PLACE-001"} ELSE PlacementCodes(known[i]) :
                        i \in DOMAIN known}

RouteCodes(r, nets) ==
    Unknown(r, nets) \cup LayerCodes(r) \cup Positive(r, "width", "CC-LANG-ROUTE-003")
    \cup Wrong(PointResults(r, "from") \o PointResults(r, "to") \o <<Length(r, "width")>>)
RequestCodes(r, nets) ==
    When(r.fields["net"] \notin nets, "CC-LANG-AUTOROUTE-003") \cup LayerCodes(r)
    \cup Wrong(<<Length(r, "width"), Length(r, "clearance"), Length(r, "grid")>>)
    \cup Positive(r, "width", "CC-LANG-AUTOROUTE-004")
    \cup Positive(r, "clearance", "CC-LANG-AUTOROUTE-005")
    \cup Positive(r, "grid", "CC-LANG-AUTOROUTE-006")
BoardCodes(board, nets, references) ==
    LET outlines == Of(board.nodes, {"rectangle"})  places == Of(board.nodes, {"place"})
        routes == Of(board.nodes, {"route"})  requests == Of(board.nodes, {"autoroute"})
        Paths(nodes, bad, repeated) ==
            When(\E p \in ToSet(Texts(nodes, "path")) : ~IsName(p), bad)
            \cup When(Repeats(Texts(nodes, "path")), repeated)
    IN  Single(outlines, TRUE, "CC-LANG-BOARD-003", "CC-LANG-BOARD-004")
        \cup All(AtMostFirst(outlines), OutlineCodes)
        \cup PlacementsCodes(places, references)
        \cup Paths(routes, "CC-LANG-ROUTE-001", "CC-LANG-ROUTE-002")
        \cup All(Firsts(routes, "path"), LAMBDA r : RouteCodes(r, nets))
        \cup Paths(requests, "CC-LANG-AUTOROUTE-001", "CC-LANG-AUTOROUTE-002")
        \cup All(Firsts(requests, "path"), LAMBDA r : RequestCodes(r, nets))
BoardsCodes(boards) == Single(boards, TRUE, "CC-LANG-BOARD-001", "CC-LANG-BOARD-002")
Route(r) == [path |-> r.fields["path"], net |-> r.fields["net"], from |-> PointOf(r, "from"),
             to |-> PointOf(r, "to"), width |-> Length(r, "width").value, layer |-> r.fields["layer"]]
Request(r) == [path |-> r.fields["path"], net |-> r.fields["net"],
               width |-> Length(r, "width").value, clearance |-> Length(r, "clearance").value,
               step |-> Length(r, "grid").value, layer |-> r.fields["layer"]]

(***************************************************************************)
(* A component: its statements by keyword.                                 *)
(***************************************************************************)
Items(c, keyword) == Of(c.nodes, {keyword})
IsReal(c) == LET part == Items(c, "part")
             IN  part # <<>> /\ "manufacturer" \in DOMAIN part[1].fields
Connections(c) == Firsts(Of(c.nodes, {"connect", "no_connect"}), "pin")
Pins(symbol) == Firsts(Firsts(symbol.nodes, "pin"), "symbolPin")
LoweredPins(symbol) == SelectSeq(Pins(symbol), LAMBDA b : /\ b.fields["symbolPin"] \in SymbolPins
                                                        /\ b.fields["type"] \in Types)

PartCodes(c) ==
    LET real == IsReal(c)
        lifecycle == Items(c, "lifecycle")  sourcing == Items(c, "sourcing")
    IN  Single(Items(c, "part"), TRUE, "CC-LANG-PART-001", "CC-LANG-PART-002")
        \cup Single(lifecycle, real, "CC-LANG-LIFECYCLE-001", "CC-LANG-LIFECYCLE-002")
        \cup Single(sourcing, real, "CC-LANG-SOURCING-001", "CC-LANG-SOURCING-002")
        \cup When(~real /\ lifecycle # <<>>, "CC-LANG-LIFECYCLE-003")
        \cup When(~real /\ sourcing # <<>>, "CC-LANG-SOURCING-003")
        \cup IF Items(c, "part") = <<>> THEN {}
             ELSE All(AtMostFirst(lifecycle), LAMBDA n :
                        When(n.fields["status"] \notin Statuses, "CC-LANG-LIFECYCLE-004"))
                  \cup All(AtMostFirst(sourcing), LAMBDA n :
                        When(~IsOk(Unsigned(n, "minimum_available", MaxU64)), "CC-LANG-SOURCING-004")
                        \cup When(~IsOk(Unsigned(n, "maximum_lead_time_days", MaxU32)),
                                  "CC-LANG-SOURCING-005"))

\* The connections and the lowered pins of a symbol are the same pins.
PinCodes(c, symbol) ==
    LET connected == ToSet(Texts(Connections(c), "pin"))
        lowered == ToSet(Texts(LoweredPins(symbol), "pin"))
    IN  When(\E p \in connected : p \notin lowered, "CC-LANG-SYMBOL-007")
        \cup When(\E p \in lowered : p \notin connected, "CC-LANG-CONNECT-002")
SymbolCodes(c, symbol) ==
    LET pins == symbol.nodes  once == Firsts(pins, "pin")
    IN  IF symbol.fields["library"] \notin Symbols THEN {"CC-LANG-SYMBOL-003"}
        ELSE When(Repeats(Texts(pins, "pin")), "CC-LANG-SYMBOL-004")
             \cup When(Repeats(Texts(once, "symbolPin")), "CC-LANG-SYMBOL-005")
             \cup All(Pins(symbol), LAMBDA b :
                    IF b.fields["symbolPin"] \notin SymbolPins THEN {"CC-LANG-SYMBOL-006"}
                    ELSE TypeCodes(b) \cup When(b.fields["type"] \in Types \ {"passive"},
                                                "CC-LANG-SYMBOL-008"))
             \cup When(\E p \in SymbolPins : p \notin ToSet(Texts(once, "symbolPin")),
                       "CC-LANG-SYMBOL-009")
             \cup PinCodes(c, symbol)

ValueKeyword(c) == IF c.keyword = "resistor" THEN "resistance" ELSE "voltage"
ValueUnit(c) == IF c.keyword = "resistor" THEN "Ohm" ELSE "Volt"
Values(c) == Of(c.nodes, {"resistance", "voltage"})
ValueCodes(c) ==
    Single(Values(c), TRUE, "CC-LANG-COMP-005", "CC-LANG-COMP-006")
    \cup All(AtMostFirst(Values(c)), LAMBDA v :
            When(v.keyword # ValueKeyword(c), "CC-LANG-COMP-007")
            \cup Wrong(<<Electrical(v, "value", ValueUnit(c))>>))

ConnectionCodes(c, nets) ==
    LET all == Of(c.nodes, {"connect", "no_connect"})
    IN  When(\E p \in ToSet(Texts(all, "pin")) : ~IsName(p), "CC-LANG-RESOLVE-002")
        \cup When(Repeats(Texts(all, "pin")), "CC-LANG-CONNECT-001")
        \cup All(Connections(c), LAMBDA k : Unknown(k, nets))

TerminalCodes(c, t) ==
    LET ends == {t.fields["positive"], t.fields["negative"]}
        Of1(pin) == SelectSeq(Connections(c), LAMBDA k : k.fields["pin"] = pin)
    IN  When(Cardinality(ends) = 1, "CC-LANG-TERMINAL-001")
        \cup When(\E p \in ends : Of1(p) = <<>>, "CC-LANG-RESOLVE-002")
        \cup When(\E p \in ends : Of1(p) # <<>> /\ Of1(p)[1].keyword = "no_connect",
                  "CC-LANG-SIM-002")

FootprintCodes(c, f, placed) ==
    LET bindings == f.nodes
        pins == ToSet(Texts(bindings, "pin"))  pads == ToSet(Texts(bindings, "pad"))
        numbers == ToSet(Field(PadGeometry, "number"))
        connected == Texts(Connections(c), "pin")
    IN  When(c.fields["reference"] \notin placed, "CC-LANG-PLACE-002")
        \cup IF f.fields["library"] \notin Footprints THEN {"CC-LANG-FOOTPRINT-003"}
             ELSE When(~(pins \subseteq ToSet(connected)), "CC-LANG-RESOLVE-002")
                  \cup When(~(pads \subseteq numbers), "CC-LANG-RESOLVE-003")
                  \cup When(Repeats(Texts(bindings, "pad")), "CC-LANG-BIND-002")
                  \cup When(~(numbers \subseteq pads), "CC-LANG-BIND-003")
                  \cup When(Some(Items(c, "connect"), LAMBDA k :
                                /\ k \in ToSet(Connections(c)) /\ k.fields["pin"] \notin pins),
                            "CC-LANG-BIND-004")

ParentCodes(c, modules) == When(Parent[c.fields["path"]] \notin modules, "CC-LANG-COMP-010")
SheetCodes(n) == Wrong(PointResults(n, "at") \o <<Turn(n)>>)
ComponentCodes(c, nets, modules, placed) ==
    LET sheets == Items(c, "schematic")  models == Items(c, "model")
        terminals == Items(c, "terminals")  footprints == Items(c, "footprint")
    IN  ParentCodes(c, modules) \cup PartCodes(c) \cup ValueCodes(c)
        \cup ConnectionCodes(c, nets)
        \cup Single(Items(c, "symbol"), TRUE, "CC-LANG-SYMBOL-001", "CC-LANG-SYMBOL-002")
        \cup All(AtMostFirst(Items(c, "symbol")), LAMBDA s : SymbolCodes(c, s))
        \cup Single(models, FALSE, "CC-LANG-MODEL-001", "CC-LANG-MODEL-002")
        \cup Single(sheets, TRUE, "CC-LANG-SCHEMATIC-001", "CC-LANG-SCHEMATIC-002")
        \cup All(AtMostFirst(sheets), SheetCodes)
        \cup Single(terminals, FALSE, "CC-LANG-COMP-008", "CC-LANG-COMP-009")
        \cup All(AtMostFirst(terminals), LAMBDA t : TerminalCodes(c, t))
        \cup Single(footprints, FALSE, "CC-LANG-FOOTPRINT-001", "CC-LANG-FOOTPRINT-002")
        \cup All(AtMostFirst(footprints), LAMBDA f : FootprintCodes(c, f, placed))
        \cup When((terminals = <<>>) # (models = <<>>), "CC-LANG-SIM-001")

PartOf(c) ==
    LET part == Items(c, "part")[1]
        identity == IF IsReal(c) THEN SubstitutionOf(part)
                    ELSE [maker |-> Absent, number |-> Absent, package |-> Absent]
    IN  identity @@
        [function |-> part.fields["function"],
         lifecycle |-> IF IsReal(c) THEN Items(c, "lifecycle")[1].fields["status"] ELSE Absent,
         sourcing |-> Each(AtMostFirst(Items(c, "sourcing")), LAMBDA n :
                        [quantity |-> Unsigned(n, "minimum_available", MaxU64).value,
                         days |-> Unsigned(n, "maximum_lead_time_days", MaxU32).value,
                         region |-> n.fields["region"]]),
         substitutions |-> Each(Items(c, "substitute"), SubstitutionOf)]
Physical(f, place) ==
    PointOf(place, "at") @@
    [library |-> f.fields["library"], pads |-> PadGeometry, rotation |-> Turn(place).value,
     layer |-> place.fields["layer"],
     bindings |-> Each(f.nodes, LAMBDA b : [pin |-> b.fields["pin"], pad |-> b.fields["pad"]])]
ModelOf(c, m) ==
    LET t == Items(c, "terminals")[1]
    IN  [kind |-> IF c.keyword = "resistor" THEN "R" ELSE "V", id |-> m.fields["id"],
         positive |-> t.fields["positive"], negative |-> t.fields["negative"]]
ComponentOf(c, placements) ==
    LET symbol == Items(c, "symbol")[1]  sheet == Items(c, "schematic")[1]
        place == SelectSeq(placements, LAMBDA n : n.fields["reference"] = c.fields["reference"])
    IN  [path |-> c.fields["path"], reference |-> c.fields["reference"], part |-> PartOf(c),
         library |-> symbol.fields["library"],
         pins |-> Each(LoweredPins(symbol), LAMBDA b :
                    [pin |-> b.fields["pin"], symbolPin |-> b.fields["symbolPin"],
                     type |-> b.fields["type"]]),
         sheet |-> PointOf(sheet, "at") @@ [rotation |-> Turn(sheet).value],
         valueKind |-> ValueKeyword(c),
         value |-> Electrical(Values(c)[1], "value", ValueUnit(c)).value,
         connections |-> Each(Connections(c), LAMBDA k : [pin |-> k.fields["pin"], net |-> NetOf(k)]),
         physical |-> Each(Items(c, "footprint"), LAMBDA f : Physical(f, place[1])),
         model |-> Each(Items(c, "model"), LAMBDA m : ModelOf(c, m))]

(***************************************************************************)
(* elaborate.                                                              *)
(***************************************************************************)
IsSimulated(c) == Items(c, "terminals") # <<>> /\ Items(c, "model") # <<>>
\* elaborate_component returns a component, whatever else it reported of it.
IsLowered(c, modules) ==
    LET FirstHas(keyword, Has(_)) == All(AtMostFirst(Items(c, keyword)), LAMBDA n : {Has(n)}) = {TRUE}
    IN  /\ ParentCodes(c, modules) = {}
        /\ Items(c, "part") # <<>>
        /\ IsReal(c) => /\ FirstHas("lifecycle", LAMBDA n : n.fields["status"] \in Statuses)
                        /\ FirstHas("sourcing", LAMBDA n :
                                /\ IsOk(Unsigned(n, "minimum_available", MaxU64))
                                /\ IsOk(Unsigned(n, "maximum_lead_time_days", MaxU32)))
        /\ FirstHas("symbol", LAMBDA n : n.fields["library"] \in Symbols)
        /\ FirstHas("schematic", LAMBDA n : SheetCodes(n) = {})
        /\ Values(c) # <<>> /\ IsOk(Electrical(Values(c)[1], "value", ValueUnit(c)))
        /\ (Items(c, "terminals") = <<>>) = (Items(c, "model") = <<>>)
ElaborationCodes(tree) ==
    LET nets == Of(tree.nodes, {"net", "ground"})  names == ToSet(Texts(nets, "name"))
        modules == Of(tree.nodes, {"module"})  paths == ToSet(Texts(modules, "path"))
        components == Of(tree.nodes, {"resistor", "dc_source"})
        references == ToSet(Texts(components, "reference"))
        boards == Of(tree.nodes, {"board"})  board == AtMostFirst(boards)
        places == IF board = <<>> THEN <<>> ELSE Of(board[1].nodes, {"place"})
        placed == ToSet(Texts(Placements(places, references), "reference"))
        OfReference(r) == Firsts(components, "reference")[
                            First(Firsts(components, "reference"), LAMBDA c : c.fields["reference"] = r)]
        Lowered(c) == ComponentCodes(c, names, paths, placed)
    IN  When(~IsName(tree.name), "CC-LANG-DESIGN-001")
        \cup NetCodes(nets) \cup ModuleCodes(modules, names)
        \cup When(Some(components, LAMBDA c : ~IsName(c.fields["path"])), "CC-LANG-COMP-001")
        \cup When(\E r \in references : ~IsName(r), "CC-LANG-COMP-002")
        \cup When(Repeats(Texts(components, "path")), "CC-LANG-COMP-003")
        \cup When(Repeats(Texts(components, "reference")), "CC-LANG-COMP-004")
        \cup AnalysesCodes(Of(tree.nodes, {"analysis"}))
        \cup AssertionsCodes(Of(tree.nodes, {"assert"}))
        \cup CatalogCodes(Of(tree.nodes, {"catalog_snapshot"}))
        \cup VariantsCodes(Of(tree.nodes, {"variant"}))
        \cup ChecksCodes(Of(tree.nodes, {"manufacturability"}))
        \cup BoardsCodes(boards)
        \cup All(board, LAMBDA b : BoardCodes(b, names, references))
        \cup All(Firsts(components, "path"), Lowered)
        \cup When(\E r \in placed : Items(OfReference(r), "footprint") = <<>>, "CC-LANG-PLACE-004")
        \cup When(/\ Some(Firsts(components, "path"), LAMBDA c : IsSimulated(c) /\ IsLowered(c, paths))
                  /\ Len(SelectSeq(Firsts(nets, "name"), LAMBDA n : n.keyword = "ground")) # 1,
                  "CC-LANG-GROUND-001")

\* What the declarations say, once there is nothing wrong with them.
Declared(tree) ==
    LET board == Of(tree.nodes, {"board"})[1].nodes
        components == Of(tree.nodes, {"resistor", "dc_source"})
    IN  [schema |-> 1, name |-> tree.name, outline |-> Outline(Of(board, {"rectangle"})[1]),
         nets |-> Nets(Of(tree.nodes, {"net", "ground"})),
         modules |-> Modules(Of(tree.nodes, {"module"})),
         components |-> Each(components, LAMBDA c : ComponentOf(c, Of(board, {"place"}))),
         analyses |-> Each(Of(tree.nodes, {"analysis"}), Analysis),
         assertions |-> Each(Of(tree.nodes, {"assert"}), Assertion),
         catalog |-> Each(AtMostFirst(Of(tree.nodes, {"catalog_snapshot"})), CatalogOf),
         variants |-> Each(Of(tree.nodes, {"variant"}), Variant),
         checks |-> Each(Of(tree.nodes, {"manufacturability"}), Check),
         routes |-> Each(Of(board, {"route"}), Route),
         requests |-> Each(Of(board, {"autoroute"}), Request)]

\* A design without codes is accepted unless two of its entities share a path.
Refusal(codes) == [codes |-> codes, design |-> <<>>]
Unambiguous(design) ==
    IF Repeats(Field(Identities(design), "path")) THEN Refusal({"CC-KICAD-ID-002"})
    ELSE [codes |-> {}, design |-> <<Canonicalize(design)>>]
Elaborate(tree) ==
    LET codes == ElaborationCodes(tree)
    IN  IF codes # {} THEN Refusal(codes) ELSE Unambiguous(Declared(tree))
=============================================================================
