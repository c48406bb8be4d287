---------------------------- MODULE KicadProject ----------------------------
(***************************************************************************)
(* The KiCad project of a design: the vendored catalog, the rules a design *)
(* is held to before it is lowered, the identities of everything that will *)
(* be written, and the schematic and the board themselves.                 *)
(***************************************************************************)
EXTENDS DesignCanonical

CONSTANTS PinOffset,   \* [symbol pin |-> offset] of the two-pin symbols
          PadGeometry, \* the pads of the resistor's footprint, a sequence
          Uuid(_, _)   \* the identifier of a kind and its fields

(***************************************************************************)
(* The catalog: two parts, their symbols, and one footprint with a drawing.*)
(***************************************************************************)
Parts == {[function |-> "resistor", maker |-> "Yageo", number |-> "RC0603", package |-> "0603",
           symbol |-> "R", footprint |-> "R_0603"],
          [function |-> "dc_voltage_source", maker |-> Absent, number |-> Absent,
           package |-> Absent, symbol |-> "VDC", footprint |-> Absent]}
PartsFor(c) == {p \in Parts : /\ p.function = c.part.function /\ p.maker = c.part.maker
                              /\ p.number = c.part.number /\ p.package = c.part.package}
Symbols == {"R", "VDC"}
SymbolOnBoard(library) == library = "R"
SymbolPins == DOMAIN PinOffset
Footprints == {"R_0603"}
GeometryMatches(p) ==
    /\ Len(p.pads) = Len(PadGeometry)
    /\ ToSet(PadGeometry) \subseteq ToSet(p.pads)
SilkscreenLines == {"top", "bottom"}

(***************************************************************************)
(* Where a pin of a placed symbol is: at most one point.                   *)
(***************************************************************************)
PinPosition(c, symbolPin) ==
    IF c.library \in Symbols /\ symbolPin \in SymbolPins
    THEN Transform(c.sheet, PinOffset[symbolPin]) ELSE <<>>

CatalogSymbolDiagnostics(c) ==
    LET bound == Field(c.pins, "symbolPin")
        Type(pin) == LastWith(c.pins, "symbolPin", pin).type
        InPlace(pin) == PinPosition(c, pin) # <<>> /\ PointInEnvelope(PinPosition(c, pin)[1])
    IN  IF c.library \notin Symbols THEN {"CC-KICAD-SYMBOL-006"}
        ELSE When(\E p \in SymbolPins : p \in ToSet(bound) /\ Type(p) # "passive",
                  "CC-KICAD-SYMBOL-002")
             \cup When(~(SymbolPins \subseteq ToSet(bound)), "CC-KICAD-SYMBOL-003")
             \cup When(~(ToSet(bound) \subseteq SymbolPins), "CC-KICAD-SYMBOL-004")
             \cup When(\E p \in ToSet(bound) : ~InPlace(p), "CC-KICAD-SCHEMATIC-001")
             \cup When(SymbolOnBoard(c.library) # (c.physical # <<>>), "CC-KICAD-SYMBOL-005")
\* The footprint the part has in the catalog: the vendored geometry, and pads
\* that have the numbers of the symbol's pins.
PadsMismatch(c, b) == /\ b.pin \in ToSet(Field(c.pins, "pin"))
                      /\ FirstWith(c.pins, "pin", b.pin).symbolPin # b.pad
CatalogFootprintDiagnostics(c, expected) ==
    IF c.physical = <<>> THEN When(expected # Absent, "CC-KICAD-FOOTPRINT-004")
    ELSE IF expected = Absent THEN {"CC-KICAD-FOOTPRINT-003"}
    ELSE IF c.physical[1].library # expected THEN {"CC-KICAD-FOOTPRINT-002"}
    ELSE When(~GeometryMatches(c.physical[1]), "CC-KICAD-FOOTPRINT-001")
         \cup When(Some(c.physical[1].bindings, LAMBDA b : PadsMismatch(c, b)), "CC-KICAD-BIND-001")
CatalogDiagnostics(c) ==
    LET part == CHOOSE p \in PartsFor(c) : TRUE
    IN  IF PartsFor(c) = {} THEN {"CC-KICAD-PART-001"}
        ELSE When(c.library # part.symbol, "CC-KICAD-SYMBOL-001")
             \cup CatalogSymbolDiagnostics(c)
             \cup CatalogFootprintDiagnostics(c, part.footprint)

\* The bound pins of all components by path and pin, with what they carry.
ConnectionPoints(d) ==
    LET components == ByName(d.components, "path")
        Points(c) == LET placed == SelectSeq(ByName(c.pins, "pin"), LAMBDA b :
                                        /\ PinPosition(c, b.symbolPin) # <<>>
                                        /\ ConnectionForPin(c, b.pin) # Absent)
                     IN  Each(placed, LAMBDA b : [at |-> PinPosition(c, b.symbolPin)[1],
                                                  net |-> ConnectionForPin(c, b.pin)])
    IN  FoldLeft(LAMBDA all, c : all \o Points(c), <<>>, components)

\* A mutant: a pin conflicts with the pin before it only.
PointsConflictNearby(points) ==
    \E i \in 1 .. Len(points) - 1 :
        /\ points[i].at = points[i + 1].at
        /\ points[i + 1].net # points[i].net \/ points[i + 1].net = NoConnect

\* A pin that conflicts with the first at its point; the first one stays.
PointsConflict(points) ==
    \E j \in DOMAIN points : \E i \in 1 .. j - 1 :
        /\ points[i].at = points[j].at
        /\ \A h \in 1 .. i - 1 : points[h].at # points[i].at
        /\ points[j].net # points[i].net \/ points[j].net = NoConnect

(***************************************************************************)
(* The identities: a semantic path and an identifier for every entity.     *)
(***************************************************************************)
PropertyNames == <<"Reference", "Value", "Datasheet", "Description", "Manufacturer", "MPN">>
Identity(path, kind, fields) == [path |-> path, uuid |-> Uuid(kind, fields)]
PinIdentities(c, b) ==
    LET net == ConnectionForPin(c, b.pin)
        kind == IF net = Absent THEN "schematic-missing-connection"
                ELSE IF net = NoConnect THEN "schematic-no-connect" ELSE "schematic-global-label"
    IN  <<Identity(c.path \o ".symbol.pin." \o b.pin, "schematic-pin", <<c.path, b.pin>>),
          Identity(c.path \o ".connection." \o b.pin, kind, <<c.path, b.pin>>)>>
FootprintIdentities(c, p) ==
    LET root == c.path \o ".footprint"
    IN  <<Identity(root, "footprint", <<c.path>>)>>
        \o Each(PropertyNames, LAMBDA n :
                    Identity(root \o ".property." \o n, "footprint-property", <<c.path, n>>))
        \o Each(p.pads, LAMBDA a :
                    Identity(root \o ".pad." \o a.number, "footprint-pad", <<c.path, a.number>>))
        \o (IF p.library \notin Footprints THEN <<>>
            ELSE Each(SetToSeq(SilkscreenLines), LAMBDA n :
                    Identity(root \o ".graphic.silkscreen." \o n,
                             "footprint-silkscreen-line", <<c.path, n>>))
                 \o <<Identity(root \o ".graphic.courtyard", "footprint-courtyard", <<c.path>>)>>)
ComponentIdentities(c) ==
    FoldLeft(LAMBDA all, b : all \o PinIdentities(c, b),
             <<Identity(c.path, "schematic-symbol", <<c.path>>)>>, c.pins)
    \o FoldLeft(LAMBDA all, p : all \o FootprintIdentities(c, p), <<>>, c.physical)
Identities(d) ==
    FoldLeft(LAMBDA all, c : all \o ComponentIdentities(c),
             <<Identity("design.schematic", "schematic-root", <<>>),
               Identity("design.board.outline", "board-outline", <<>>)>>, d.components)
    \o Each(d.routes, LAMBDA r : Identity(r.path, "route-segment", <<r.path>>))

KicadDiagnostics(d) ==
    LET bindings == UNION {CatalogDiagnostics(d.components[i]) : i \in DOMAIN d.components}
                    \cup When(PointsConflict(ConnectionPoints(d)), "CC-KICAD-SCHEMATIC-002")
    IN  IF bindings # {} THEN bindings
        ELSE When(Repeats(Field(Identities(d), "path")), "CC-KICAD-ID-002")
             \cup When(Repeats(Field(Identities(d), "uuid")), "CC-KICAD-ID-001")

(***************************************************************************)
(* What is written.                                                        *)
(***************************************************************************)
\* What the emission takes for granted.
ProjectIsTotal(d) ==
    /\ FitsInt(d.outline.x + d.outline.width) /\ FitsInt(d.outline.y + d.outline.height)
    /\ \A i \in DOMAIN d.components :
        LET c == d.components[i]
        IN  /\ c.library \in Symbols
            /\ \A j \in DOMAIN c.pins : /\ PinPosition(c, c.pins[j].symbolPin) # <<>>
                                        /\ ConnectionForPin(c, c.pins[j].pin) # Absent
            /\ SymbolOnBoard(c.library) = (c.physical # <<>>)
            /\ c.physical # <<>> => /\ c.physical[1].library \in Footprints
                                    /\ c.part.maker # Absent /\ c.part.number # Absent

SchematicSymbol(c) ==
    [library |-> c.library, at |-> <<c.sheet.x, c.sheet.y>>, rotation |-> c.sheet.rotation % 360,
     onBoard |-> c.physical # <<>>, reference |-> c.reference, value |-> EngineeringParts(c.value),
     footprint |-> IF c.physical = <<>> THEN Absent ELSE c.physical[1].library,
     uuid |-> Uuid("schematic-symbol", <<c.path>>),
     pins |-> Each(ByName(c.pins, "symbolPin"), LAMBDA b :
                    [number |-> b.symbolPin, uuid |-> Uuid("schematic-pin", <<c.path, b.pin>>)])]
SchematicMarks(c) ==
    Each(ByName(c.pins, "pin"), LAMBDA b :
        LET net == ConnectionForPin(c, b.pin)
        IN  [at |-> PinPosition(c, b.symbolPin)[1], net |-> net,
             uuid |-> Uuid(IF net = NoConnect THEN "schematic-no-connect"
                           ELSE "schematic-global-label", <<c.path, b.pin>>)])
Schematic(d) ==
    LET components == ByName(d.components, "path")
    IN  [root |-> Uuid("schematic-root", <<>>),
         marks |-> FoldLeft(LAMBDA all, c : all \o SchematicMarks(c), <<>>, components),
         symbols |-> Each(components, SchematicSymbol)]

\* The net of a pad: an open one gets a net of its own.
PadNet(c, pad) == LET pin == PinForPad(c, pad)
                  IN  IF pin = Absent THEN Absent
                      ELSE IF ConnectionForPin(c, pin) # NoConnect THEN ConnectionForPin(c, pin)
                      ELSE "unconnected-(" \o c.reference \o "-Pad" \o pad \o ")"
FootprintGraphics(c) == {Uuid("footprint-silkscreen-line", <<c.path, n>>) : n \in SilkscreenLines}
                        \cup {Uuid("footprint-courtyard", <<c.path>>)}
BoardFootprint(c) ==
    LET p == c.physical[1]
    IN  [library |-> p.library, layer |-> p.layer, at |-> <<p.x, p.y>>,
         rotation |-> p.rotation % 360, reference |-> c.reference,
         uuid |-> Uuid("footprint", <<c.path>>), symbol |-> Uuid("schematic-symbol", <<c.path>>),
         properties |-> {Uuid("footprint-property", <<c.path, n>>) : n \in ToSet(PropertyNames)},
         graphics |-> FootprintGraphics(c),
         pads |-> Each(ByName(p.pads, "number"), LAMBDA a :
                    [number |-> a.number, at |-> <<a.x, a.y>>, net |-> PadNet(c, a.number),
                     uuid |-> Uuid("footprint-pad", <<c.path, a.number>>)])]
BoardOf(d) ==
    [outline |-> <<d.outline.x, d.outline.y, d.outline.x + d.outline.width,
                   d.outline.y + d.outline.height>>,
     outlineUuid |-> Uuid("board-outline", <<>>),
     footprints |-> Each(ByName(SelectSeq(d.components, LAMBDA c : c.physical # <<>>), "reference"),
                         BoardFootprint),
     segments |-> Each(ByName(d.routes, "path"), LAMBDA r :
                    [from |-> r.from, to |-> r.to, width |-> r.width, layer |-> r.layer,
                     net |-> r.net, uuid |-> Uuid("route-segment", <<r.path>>)])]
\* The library files a project carries with it.
LibraryFiles(d) ==
    {"CircuitC.kicad_sym" : i \in DOMAIN d.components}
    \cup {d.components[i].physical[1].library :
            i \in {j \in DOMAIN d.components : d.components[j].physical # <<>>}}
=============================================================================
