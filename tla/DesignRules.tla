---------------------------- MODULE DesignRules ----------------------------
(***************************************************************************)
(* The Design, the program's intermediate representation, and the rules    *)
(* it is validated by before anything is made from it.  A validation       *)
(* yields the set of the codes of its diagnostics; a design without any    *)
(* is accepted.                                                            *)
(*                                                                         *)
(* A name, a text or a dotted path is a string that stands for itself;     *)
(* Malformed are the ones the lexical rules refuse.  What may be absent is *)
(* the value Absent or a sequence of at most one element.                  *)
(***************************************************************************)
EXTENDS SimulationGrid, FiniteSets

CONSTANTS Malformed,        \* names no lexical rule accepts
          Parent,           \* the path before the last dot, or Absent
          MaxInt,           \* i64::MAX
          MaxCoordinate,    \* MAX_ABS_COORDINATE_NM
          MaxSubstitutions  \* MAX_PRODUCT_SUBSTITUTIONS

Absent == "absent"
NoConnect == "no connect"
When(condition, code) == IF condition THEN {code} ELSE {}
Field(s, f) == [i \in DOMAIN s |-> s[i][f]]
Repeats(s) == \E i, j \in DOMAIN s : i < j /\ s[i] = s[j]
Some(s, P(_)) == \E i \in DOMAIN s : P(s[i])
\* The first and the last element of a sequence with a property.
First(s, P(_)) == CHOOSE i \in DOMAIN s :
                    P(s[i]) /\ \A j \in 1 .. i - 1 : ~P(s[j])
Last1(s, P(_)) == CHOOSE i \in DOMAIN s :
                    P(s[i]) /\ \A j \in i + 1 .. Len(s) : ~P(s[j])
\* The same for a field with a value; and the places where it has it.
Having(s, f, v) == {i \in DOMAIN s : s[i][f] = v}
Least(S) == CHOOSE i \in S : \A j \in S : i <= j
FirstWith(s, f, v) == s[Least(Having(s, f, v))]
LastWith(s, f, v) == s[Largest(Having(s, f, v))]

IsName(n) == n \notin Malformed
FitsInt(x) == x \in -MaxInt - 1 .. MaxInt
InEnvelope(x) == Magnitude(x) <= MaxCoordinate
PointInEnvelope(p) == InEnvelope(p.x) /\ InEnvelope(p.y)
\* A mutant: the far edges are not looked at.
InsideNearEdges(o, p) == p.x >= o.x /\ p.y >= o.y
Inside(o, p) == /\ FitsInt(o.x + o.width) /\ FitsInt(o.y + o.height)
                  /\ p.x \in o.x .. o.x + o.width
                  /\ p.y \in o.y .. o.y + o.height
QuarterTurns == {0, 90, 180, 270}
\* An offset turned and moved by a placement: at most one point.
TurnedBy(off, r) ==
    CASE r = 0 -> off [] r = 90 -> [x |-> off.y, y |-> -off.x]
      [] r = 180 -> [x |-> -off.x, y |-> -off.y] [] r = 270 -> [x |-> -off.y, y |-> off.x]
MoveBy(place, off) ==
    IF \A x \in {off.x, off.y, place.x + off.x, place.y + off.y} : FitsInt(x)
    THEN <<[x |-> place.x + off.x, y |-> place.y + off.y]>> ELSE <<>>
Transform(place, off) ==
    IF place.rotation % 360 \in QuarterTurns
    THEN MoveBy(place, TurnedBy([x |-> off.x, y |-> off.y], place.rotation % 360)) ELSE <<>>

(***************************************************************************)
(* Look-ups in a component.                                                *)
(***************************************************************************)
ConnectionForPin(c, pin) ==      \* the first one; Absent if there is none
    IF Having(c.connections, "pin", pin) = {} THEN Absent
    ELSE FirstWith(c.connections, "pin", pin).net
\* What validation looks up: the last of several connections of a pin.
ValidatedConnection(c, pin) ==
    IF Having(c.connections, "pin", pin) = {} THEN Absent
    ELSE LastWith(c.connections, "pin", pin).net
IsNet(n) == n \notin {Absent, NoConnect}
OnlyNet(n) == IF IsNet(n) THEN n ELSE Absent
NetForPin(c, pin) == OnlyNet(ConnectionForPin(c, pin))
PinForPad(c, pad) ==
    IF c.physical = <<>> \/ Having(c.physical[1].bindings, "pad", pad) = {} THEN Absent
    ELSE FirstWith(c.physical[1].bindings, "pad", pad).pin
\* (No pin is called Absent, and an absent pin has no net.)
NetForPad(c, pad) == NetForPin(c, PinForPad(c, pad))
IsPhysicalPart(c) == c.part.maker # Absent
NetNames(d) == ToSet(Field(d.nets, "name"))
ComponentPaths(d) == ToSet(Field(d.components, "path"))
ComponentAt(d, path) ==          \* the last one, as a map keeps it
    LastWith(d.components, "path", path)

(***************************************************************************)
(* The outline, the nets and the modules.                                  *)
(***************************************************************************)
OutlineDiagnostics(o) ==
    LET far == [x |-> o.x + o.width, y |-> o.y + o.height]
    IN  When(o.width <= 0 \/ o.height <= 0, "CC-BOARD-001")
        \cup When(\E v \in {o.x, o.y, o.width, o.height} : ~InEnvelope(v),
                  "CC-BOARD-002")
        \cup IF FitsInt(far.x) /\ FitsInt(far.y)
             THEN When(~PointInEnvelope(far), "CC-BOARD-004")
             ELSE {"CC-BOARD-003"}

NetDiagnostics(d) ==
    LET grounds == Cardinality({i \in DOMAIN d.nets : d.nets[i].ground})
        simulated == d.analyses # <<>>
                     \/ Some(d.components, LAMBDA c : c.model # <<>>)
    IN  When(Some(d.nets, LAMBDA n : ~IsName(n.name)), "CC-NET-001")
        \cup When(Repeats(Field(d.nets, "name")), "CC-NET-002")
        \cup When(grounds > 1, "CC-NET-003")
        \cup When(simulated /\ grounds # 1, "CC-SIM-001")

ModuleDiagnostics(d) ==
    LET paths == ToSet(Field(d.modules, "path"))
        Ports(P(_)) == Some(d.modules, LAMBDA m : Some(m.ports, P))
    IN  When(d.modules = <<>>, "CC-MODULE-001")
        \cup When(\E p \in paths : ~IsName(p), "CC-MODULE-002")
        \cup When(Repeats(Field(d.modules, "path")), "CC-MODULE-003")
        \cup When(\E p \in paths : Parent[p] \notin paths \cup {Absent},
                  "CC-MODULE-004")
        \cup When(Ports(LAMBDA p : ~IsName(p.name)), "CC-PORT-001")
        \cup When(Some(d.modules, LAMBDA m : Repeats(Field(m.ports, "name"))),
                  "CC-PORT-002")
        \cup When(Ports(LAMBDA p : IsNet(p.net) /\ p.net \notin NetNames(d)),
                  "CC-PORT-003")

(***************************************************************************)
(* A component.                                                            *)
(***************************************************************************)
PartDiagnostics(c) ==
    LET p == c.part
        physical == IsPhysicalPart(c)
        names == {p.number, p.package}
        base == [maker |-> p.maker, number |-> p.number, package |-> p.package]
        subs == p.substitutions
    IN  When(~IsName(p.function), "CC-PRODUCT-PART-001")
        \cup When(physical /\ (Absent \in names \cup {p.lifecycle} \/ p.sourcing = <<>>),
                  "CC-PRODUCT-PART-002")
        \cup When(~physical /\ \/ names \cup {p.lifecycle} # {Absent}
                               \/ p.sourcing # <<>> \/ subs # <<>>,
                  "CC-PRODUCT-PART-003")
        \cup When(\E n \in names \cup {p.maker} : n # Absent /\ ~IsName(n),
                  "CC-PRODUCT-PART-004")
        \cup When(Some(p.sourcing, LAMBDA s : s.quantity = 0 \/ s.days = 0),
                  "CC-PRODUCT-PART-005")
        \cup When(Some(p.sourcing, LAMBDA s : ~IsName(s.region)),
                  "CC-PRODUCT-PART-006")
        \cup IF Len(subs) > MaxSubstitutions THEN {"CC-PRODUCT-PART-009"}
             ELSE When(Some(subs, LAMBDA s :
                            \E f \in DOMAIN s : ~IsName(s[f])),
                       "CC-PRODUCT-PART-007")
                  \cup When(Repeats(subs), "CC-PRODUCT-PART-008")
                  \cup When(p.package # Absent
                            /\ Some(subs, LAMBDA s : s.package # p.package),
                            "CC-PRODUCT-PART-010")
                  \cup When(base \in ToSet(subs), "CC-PRODUCT-PART-011")

SymbolDiagnostics(d, c) ==
    LET pins == ToSet(Field(c.pins, "pin"))
        connected == ToSet(Field(c.connections, "pin"))
    IN  When(~IsName(c.library), "CC-SYMBOL-001")
        \cup When(c.pins = <<>>, "CC-SYMBOL-002")
        \cup When(Some(c.pins, LAMBDA b : ~IsName(b.pin) \/ ~IsName(b.symbolPin)),
                  "CC-SYMBOL-003")
        \cup When(Repeats(Field(c.pins, "pin")), "CC-SYMBOL-004")
        \cup When(Repeats(Field(c.pins, "symbolPin")), "CC-SYMBOL-005")
        \cup When(c.sheet.rotation % 360 \notin QuarterTurns, "CC-SCHEMATIC-001")
        \cup When(~PointInEnvelope(c.sheet), "CC-SCHEMATIC-002")
        \cup When(\E p \in connected : ~IsName(p), "CC-PIN-001")
        \cup When(Repeats(Field(c.connections, "pin")), "CC-PIN-002")
        \cup When(\E p \in connected : p \notin pins, "CC-PIN-003")
        \cup When(Some(c.connections, LAMBDA k :
                        IsNet(k.net) /\ k.net \notin NetNames(d)), "CC-PIN-004")
        \cup When(\E p \in pins : p \notin connected, "CC-PIN-005")

ValueDiagnostics(c) ==
    LET q == c.value
        resistor == c.valueKind = "resistance"
    IN  When(~IsCanonical(q), "CC-VALUE-001")
        \cup When(~ExponentIsValid(q), "CC-VALUE-002")
        \cup When(c.part.function # (IF resistor THEN "resistor"
                                     ELSE "dc_voltage_source"), "CC-VALUE-003")
        \cup When(resistor /\ (q.unit # "Ohm" \/ q.coefficient <= 0),
                  "CC-VALUE-004")
        \cup When(~resistor /\ q.unit # "Volt", "CC-VALUE-005")

PlacementDiagnostics(d, p) ==
    When(~IsName(p.library), "CC-PHYS-001")
    \cup When(p.pads = <<>>, "CC-PHYS-002")
    \cup When(p.rotation % 360 \notin QuarterTurns, "CC-PHYS-003")
    \cup When(~PointInEnvelope(p), "CC-PHYS-004")
    \cup When(~Inside(d.outline, p), "CC-PHYS-005")
BindingDiagnostics(c, p) ==
    When(Some(p.bindings, LAMBDA b : ~IsName(b.pin) \/ ~IsName(b.pad)), "CC-BIND-001")
    \cup When(Some(p.bindings, LAMBDA b : b.pin \notin ToSet(Field(c.connections, "pin"))),
              "CC-BIND-002")
    \cup When(Repeats(Field(p.bindings, "pad")), "CC-BIND-003")
PadDiagnostics(d, p, a) ==
    LET center == Transform(p, a)
    IN  When(~IsName(a.number), "CC-PAD-001")
        \cup When(a.width <= 0 \/ a.height <= 0, "CC-PAD-003")
        \cup When(~PointInEnvelope(a), "CC-PAD-008")
        \cup When(~InEnvelope(a.width) \/ ~InEnvelope(a.height), "CC-PAD-009")
        \cup When(a.number \notin ToSet(Field(p.bindings, "pad")), "CC-PAD-004")
        \cup When(Some(center, LAMBDA q : ~PointInEnvelope(q)), "CC-PAD-010")
        \cup When(Some(center, LAMBDA q : ~Inside(d.outline, q)), "CC-PAD-005")
        \cup When(center = <<>>, "CC-PAD-006")
PhysicalDiagnostics(d, c, p) ==
    LET pads == Field(p.pads, "number")
    IN  PlacementDiagnostics(d, p) \cup BindingDiagnostics(c, p)
        \cup UNION {PadDiagnostics(d, p, p.pads[i]) : i \in DOMAIN p.pads}
        \cup When(Repeats(pads), "CC-PAD-002")
        \cup When(Some(p.bindings, LAMBDA b : b.pad \notin ToSet(pads)), "CC-PAD-007")
        \cup When(Some(c.connections, LAMBDA n :
                        /\ IsNet(ValidatedConnection(c, n.pin))
                        /\ n.pin \notin ToSet(Field(p.bindings, "pin"))), "CC-BIND-004")

ModelDiagnostics(c, m) ==
    LET wants == IF m.kind = "R" THEN "resistor" ELSE "dc_voltage_source"
    IN  When(m.positive = m.negative, "CC-SIM-008")
        \cup When(\E pin \in {m.positive, m.negative} :
                    ~IsNet(ValidatedConnection(c, pin)), "CC-SIM-003")
        \cup When(c.part.function # wants, "CC-SIM-011")
        \cup When(m.id # m.kind, "CC-SIM-010")

ComponentDiagnostics(d, c) ==
    When(~IsName(c.path), "CC-COMP-001")
    \cup When(Parent[c.path] \notin ToSet(Field(d.modules, "path")), "CC-COMP-007")
    \cup When(~IsName(c.reference), "CC-COMP-003")
    \cup When(c.physical = <<>> /\ c.model = <<>>, "CC-COMP-005")
    \cup PartDiagnostics(c) \cup SymbolDiagnostics(d, c) \cup ValueDiagnostics(c)
    \cup UNION {PhysicalDiagnostics(d, c, c.physical[i]) : i \in DOMAIN c.physical}
    \cup UNION {ModelDiagnostics(c, c.model[i]) : i \in DOMAIN c.model}

ComponentsDiagnostics(d) ==
    UNION {ComponentDiagnostics(d, d.components[i]) : i \in DOMAIN d.components}
    \cup When(Repeats(Field(d.components, "path")), "CC-COMP-002")
    \cup When(Repeats(Field(d.components, "reference")), "CC-COMP-004")
    \cup When(Repeats([i \in DOMAIN d.components |->
                <<d.components[i].sheet.x, d.components[i].sheet.y>>]),
              "CC-SCHEMATIC-003")
=============================================================================
