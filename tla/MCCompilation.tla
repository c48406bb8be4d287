--------------------------- MODULE MCCompilation ---------------------------
(***************************************************************************)
(* Designs an author arrives at.  The state is a design and, once it was   *)
(* compiled, the codes it is refused with: none, and everything is made of *)
(* it.  From a voltage divider, bare or with simulations, an author makes a few      *)
(* edits, each of which may leave a design the program has to refuse; what *)
(* is made of an accepted one is compared with the design it came from.    *)
(***************************************************************************)
EXTENDS StaticCompilation, MCDesigns

CONSTANTS MaxEdits

VARIABLES design, codes, edits
vars == <<design, codes, edits>>

(***************************************************************************)
(* The author.                                                             *)
(***************************************************************************)
CodesIn(r) == IF IsOk(r) THEN {} ELSE r.codes
CodesOf(d) == CodesIn(PrepareChecked(d))
NotCompiled == {"not compiled"}
Init == /\ design \in {Divider, Simulated}
        /\ codes = NotCompiled /\ edits = 0
CompileIt == codes = NotCompiled /\ codes' = CodesOf(design) /\ UNCHANGED <<design, edits>>
\* An author goes on from a design that compiles.
Edit(d) == /\ edits < MaxEdits /\ edits' = edits + 1
           /\ codes = {}
           /\ design' = d /\ codes' = NotCompiled

Indices == 1 .. 2                       \* the first two components are edited
RenameNet ==
    \E from \in {"VIN", "GND"}, to \in {"vin", "VIN", "gnd", "0", "V+", "CCN_6", "ccn_6", "VOUT"} :
        Edit([design EXCEPT
            !.nets = Renamed(@, "name", from, to),
            !.modules = Each(@, LAMBDA m : [m EXCEPT !.ports = Renamed(@, "net", from, to)]),
            !.components = Each(@, LAMBDA c : [c EXCEPT !.connections = Renamed(@, "net", from, to)]),
            !.assertions = Renamed(@, "net", from, to), !.routes = Renamed(@, "net", from, to)])
AddNet == \E n \in {"vin", "gnd", "CCN_6"}, ground \in BOOLEAN :
    Edit([design EXCEPT !.nets = Append(@, [name |-> n, ground |-> ground])])
SetReference == \E r \in {"X9", "r1", "R2", "R-2", "V1", "v1", "RCC_7", ""} :
    Edit([design EXCEPT !.components[1].reference = r])
SetPath == LET to == "m.r1.footprint" IN
    Edit([design EXCEPT
            !.components[1].path = to,
            !.variants = Each(@, LAMBDA v : [v EXCEPT !.components = Renamed(@, "path", "m.r1", to)])])
AddModule == \E p \in {"m.r1", "m", "m.r1.footprint"} :
    Edit([design EXCEPT !.modules = Append(@, [path |-> p, ports |-> <<>>])])
Reconnect == \E i \in Indices, pin \in 1 .. 2, n \in {"VIN", "GND", "vin", "CCN_6", NoConnect} :
    Edit([design EXCEPT !.components[i].connections =
            IF pin \in DOMAIN @ THEN [@ EXCEPT ![pin].net = n] ELSE @])
RepeatConnection == \E n \in {"VIN", NoConnect} :
    Edit([design EXCEPT !.components[1].connections = Append(@, [pin |-> "2", net |-> n])])
DropConnection == Edit([design EXCEPT !.components[1].connections = SubSeq(@, 1, 1)])
PlaceSymbol == \E i \in Indices, place \in {Place(0, 2, 0), Place(1, 1, 90), Place(0, 0, 180),
                                           Place(1, 0, 450), Place(0, 0, 45), Place(9, 0, 90)} :
    Edit([design EXCEPT !.components[i].sheet = place])
PlaceFootprint == \E place \in {Place(1, 2, 450), Place(0, 2, 0), Place(7, 2, 180),
                                Place(8, 2, 270), Place(2, 0, 90)} :
    Edit([design EXCEPT !.components[1].physical = Each(@, LAMBDA p :
            [p EXCEPT !.x = place.x, !.y = place.y, !.rotation = place.rotation])])
TurnOver == Edit([design EXCEPT !.components[1].physical =
                    Each(@, LAMBDA p : [p EXCEPT !.layer = "back"])])
Rebind == \E pads \in {<<"2", "1">>, <<"1", "1">>} :
    Edit([design EXCEPT !.components[1].physical = Each(@, LAMBDA p :
            [p EXCEPT !.bindings = [i \in DOMAIN @ |-> [@[i] EXCEPT !.pad = pads[i]]]])])
ReorderPads == Edit([design EXCEPT !.components[1].physical = Each(@, LAMBDA p :
                        [p EXCEPT !.pads = Reverse(@)])])
DropFootprint == Edit([design EXCEPT !.components[1].physical = <<>>])
SetOutline == \E x \in {0, -8, 6}, w \in {0, 7} :
    Edit([design EXCEPT !.outline.x = x, !.outline.width = w])
SetPins == \E pins \in {<<"2", "1">>, <<"1", "1">>}, type \in {"passive", "input"} :
    Edit([design EXCEPT !.components[1].pins =
            [i \in DOMAIN @ |-> [@[i] EXCEPT !.symbolPin = pins[i], !.type = type]]])
SetModel == \E i \in Indices, m \in {<<>>, Model("V"), <<[Model("R")[1] EXCEPT !.positive = "2"]>>,
                    <<[kind |-> "R", id |-> "R", positive |-> "2", negative |-> "1"]>>} :
    Edit([design EXCEPT !.components[i].model = m])
SetValue == \E c \in {-1, 0, 10}, e \in {-4, 0, 1} :
    Edit([design EXCEPT !.components[1].value = Quantity(c, e, "Ohm")])
SetPart == \E p \in {VirtualPart, [RealPart EXCEPT !.package = Absent],
                     [RealPart EXCEPT !.substitutions = Append(@, @[1])],
                     [RealPart EXCEPT !.number = "PART"]} :
    Edit([design EXCEPT !.components[1].part = p])
AddRoute == \E path \in {"b.t1", "b.t2", "m.r1.footprint", "design.schematic", "m.r2"},
               to \in {3, 5, 9}, back \in BOOLEAN :
    LET a == [x |-> 3, y |-> 2]  b == [x |-> to, y |-> 2]
    IN  /\ path = "b.t1" \/ to = 5
        /\ Edit([design EXCEPT !.routes = Append(@, [path |-> path, net |-> "VOUT", width |-> 1,
                layer |-> "front", from |-> IF back THEN b ELSE a, to |-> IF back THEN a ELSE b])])
AddRequest == Edit([design EXCEPT !.requests = Append(@, [path |-> "b.t1", net |-> "VOUT",
                width |-> 1, clearance |-> 1, step |-> 1, layer |-> "front"])])
AddAnalysis == \E a \in {Dc("f.dc"), Dc("f.ac")} \cup Sweeps \cup Transients :
    Edit([design EXCEPT !.analyses = Append(@, a)])
SetAnalysis == \E i \in DOMAIN design.analyses, a \in Sweeps \cup Transients :
    Edit([design EXCEPT !.analyses[i] = a])
AddAssertion ==
    \E a \in {Assertion("f.s2", "f.tran", "VOUT", "time", q) :
                    q \in {Second(1, 0), Second(101, -2), Second(199, -2), Second(3, 0)}}
             \cup {Assertion("f.s2", "f.tran", n, "time", Second(1, 0)) : n \in {"VIN", "CCN_6"}}
             \cup {Assertion("f.s2", "f.ac", "VOUT", "frequency", q) :
                    q \in {Hertz(1, 0), Hertz(2, 0), Hertz(105, -2), Hertz(15, -1)}}
             \cup {Assertion("f.s1", "f.dc", "VOUT", "scalar", Absent)} :
        Edit([design EXCEPT !.assertions = Append(@, a)])
SetSource == \E path \in {"m.r1", "m.v2"} :
    Edit([design EXCEPT !.analyses = Each(@, LAMBDA a :
            IF a.kind = "ac" THEN [a EXCEPT !.source = path] ELSE a)])
SetPopulation == \E s \in {Fitted("m.v1"), Fitted("m.r1"), [path |-> "m.r2", state |-> "not fitted",
                                                           alternate |-> <<>>],
                           [path |-> "m.r2", state |-> "alternate",
                            alternate |-> <<RealPart.substitutions[2]>>]} :
    Edit([design EXCEPT !.variants[1].components = IF s.path = "m.r2" THEN <<@[1], s>>
                                                   ELSE Append(@, s)])
SetCatalog == Edit([design EXCEPT !.catalog = <<>>])

Next == \/ CompileIt
        \/ RenameNet \/ AddNet \/ SetReference \/ SetPath \/ AddModule \/ Reconnect
        \/ RepeatConnection \/ DropConnection \/ PlaceSymbol \/ PlaceFootprint \/ TurnOver
        \/ Rebind \/ ReorderPads \/ DropFootprint \/ SetOutline \/ SetPins \/ SetModel \/ SetValue
        \/ SetPart \/ AddRoute \/ AddRequest \/ AddAnalysis \/ SetAnalysis \/ AddAssertion
        \/ SetSource \/ SetPopulation \/ SetCatalog
Spec == Init /\ [][Next]_vars

(***************************************************************************)
(* What an accepted design must be.                                        *)
(***************************************************************************)
Accepted == codes = {}

\* Everything the emitters take for granted of a design holds of one that is
\* accepted: every `expect` of the netlist, the schematic and the board finds
\* what it looks for, and all that lies on the board lies within its outline.
\* And the lowering of a valid design never makes a bundle that its own
\* verification refuses: names, excitation and directive are those of the map.
EmittersAreTotal ==
    /\ "CC-SIM-LOWER-004" \notin codes
    /\ Accepted =>
        /\ DeckIsTotal(design) /\ ProjectIsTotal(design)
        /\ \A i \in DOMAIN design.components : \A p \in ToSet(design.components[i].physical) :
            \A j \in DOMAIN p.pads : \A at \in ToSet(Transform(p, p.pads[j])) :
                /\ at.x \in design.outline.x .. design.outline.x + design.outline.width
                /\ at.y \in design.outline.y .. design.outline.y + design.outline.height

\* In the deck, case aside, different nets are different nodes and different
\* components different devices, "0" is the ground and no other net, and the
\* letter of a device tells its kind: about names that differ in case only, are
\* reserved or look like a mangled name.
SpiceNamesAreInjective ==
        LET deck == LowerNetlist(design, NoAnalysis)
            IsGround(net) == \E i \in DOMAIN design.nets :
                                design.nets[i].name = net /\ design.nets[i].ground
        IN  /\ \A i, j \in DOMAIN deck.nets : i # j =>
                    CaseKey(deck.nets[i].node) # CaseKey(deck.nets[j].node)
            /\ \A i \in DOMAIN deck.nets : (deck.nets[i].node = "0") <=> IsGround(deck.nets[i].net)
            /\ \A i, j \in DOMAIN deck.lines : i # j =>
                    CaseKey(deck.lines[i].device) # CaseKey(deck.lines[j].device)
            /\ \A i \in DOMAIN deck.lines :
                    CaseKey(SubSeq(deck.lines[i].device, 1, 1)) = deck.lines[i].kind

\* Different samples an author asserts on stay different as floats, and so do
\* the times that control a transient: no assertion is moved to another sample.
SamplesStayDistinct ==
        \A a \in ToSet(design.analyses) :
            LET assertions == AssertionsOf(design, a)
                lowered == LowerOne(design, a).value.request.assertions
                controls == IF a.kind = "tran" THEN {a.step, a.start, a.stop} ELSE {}
            IN  /\ \A i, j \in DOMAIN assertions :
                        a.kind # "dc" /\ lowered[i].sample = lowered[j].sample =>
                            ExactCmp(assertions[i].sample, assertions[j].sample) = 0
                /\ \A i \in DOMAIN assertions : \A q \in controls :
                        lowered[i].sample = FloatOf(q) => ExactCmp(assertions[i].sample, q) = 0
                /\ \A q, r \in controls : FloatOf(q) = FloatOf(r) => ExactCmp(q, r) = 0

\* Nothing an author tells apart becomes one thing in a request to a simulator:
\* neither two names nor two samples.
LoweringIsInjective == Accepted => SpiceNamesAreInjective /\ SamplesStayDistinct

\* What is drawn connects what the design connects: marks at one point of the
\* sheet carry one net, and an open pin shares its point with none; the pad of
\* the board that has the number of a pin of the symbol is on the net of that
\* pin, and an open pad is on a net of its own.
MarksKeepNets ==
        LET marks == Schematic(design).marks
            footprints == BoardOf(design).footprints
            pads == UNION {{<<i, j>> : j \in DOMAIN footprints[i].pads} : i \in DOMAIN footprints}
            At(p) == footprints[p[1]].pads[p[2]]
            MarkOf(uuid) == {i \in DOMAIN marks : marks[i].uuid = uuid}
        IN  /\ \A i, j \in DOMAIN marks : i # j /\ marks[i].at = marks[j].at =>
                    marks[i].net = marks[j].net /\ marks[i].net # NoConnect
            /\ \A c \in ToSet(design.components) : \A b \in ToSet(c.pins) :
                    \A i \in DOMAIN footprints : \A p \in ToSet(footprints[i].pads) :
                        footprints[i].reference = c.reference /\ p.number = b.symbolPin =>
                            LET net == ConnectionForPin(c, b.pin)
                            IN  IF net = NoConnect THEN p.net \notin NetNames(design)
                                ELSE p.net = net
            /\ \A p, q \in pads : p # q /\ At(p).net = At(q).net =>
                    At(p).net \in NetNames(design)

\* Everything drawn that has an identifier is listed with it, under a path of its
\* own, and nothing else is: no entity of the project is lost to the evidence.
IdentitiesAreComplete ==
        LET sheet == Schematic(design)  board == BoardOf(design)
            Pick(s, f) == ToSet(Field(s, f))
            drawn == {sheet.root, board.outlineUuid} \cup Pick(sheet.marks, "uuid")
                     \cup Pick(sheet.symbols, "uuid")
                     \cup UNION {Pick(sheet.symbols[i].pins, "uuid") : i \in DOMAIN sheet.symbols}
                     \cup Pick(board.segments, "uuid") \cup Pick(board.footprints, "uuid")
                     \cup UNION {f.properties \cup f.graphics \cup Pick(f.pads, "uuid") :
                                    f \in ToSet(board.footprints)}
            listed == Identities(design)
        IN  /\ Pick(listed, "uuid") = drawn
            /\ Cardinality(Pick(listed, "path")) = Len(listed)
            /\ Cardinality(Pick(listed, "uuid")) = Len(listed)

\* The drawings are the design: what they connect, and what is listed of them.
DrawingsKeepNets == Accepted => MarksKeepNets /\ IdentitiesAreComplete

\* The order an author declares things in means nothing: the canonical form is
\* the same for any order and is its own canonical form, a design in it is
\* accepted if it was before, and the same is made of it.
Turned(s) == IF s = <<>> THEN s ELSE Append(Tail(s), Head(s))
Shuffled(d) ==
    [d EXCEPT
       !.nets = Turned(@),
       !.modules = Reverse(Each(@, LAMBDA m : [m EXCEPT !.ports = Reverse(@)])),
       !.components = Turned(Each(@, LAMBDA c :
            [c EXCEPT !.part.substitutions = Reverse(@), !.pins = Reverse(@),
                      !.connections = Reverse(@),
                      !.physical = Each(@, LAMBDA p :
                            [p EXCEPT !.pads = Reverse(@), !.bindings = Reverse(@)])])),
       !.analyses = Reverse(@), !.assertions = Reverse(@), !.routes = Reverse(@),
       !.variants = Each(@, LAMBDA v : [v EXCEPT !.components = Reverse(@),
                                                 !.configurations = Reverse(@)]),
       !.checks = Each(@, LAMBDA k : [k EXCEPT !.assertions = Reverse(@)])]
OrderMeansNothing ==
    Accepted =>
        LET canonical == Canonicalize(design)
            Made(d) == [ArtifactsOf(d) EXCEPT !.identities = ToSet(@)]
        IN  /\ Canonicalize(Shuffled(design)) = canonical
            /\ Canonicalize(canonical) = canonical
            /\ CodesOf(canonical) = {} /\ CodesOf(Shuffled(design)) = {}
            /\ Made(canonical) = Made(design) /\ Made(Shuffled(design)) = Made(design)
            /\ LowerInputs(canonical) = LowerInputs(design)

=============================================================================
