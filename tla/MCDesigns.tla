----------------------------- MODULE MCDesigns -----------------------------
(***************************************************************************)
(* Designs the instances start from: a voltage divider, bare or with       *)
(* simulations, and the values of the constants it is written in.          *)
(***************************************************************************)
EXTENDS DesignCanonical, TLC

(***************************************************************************)
(* Values of the instance: names in the order of strings, the texts that   *)
(* are written in hexadecimal, and where the pins and pads are.            *)
(***************************************************************************)
MCNameOrder ==
    <<"", "0", "0603", "1", "2", "CCN_6", "EU", "GND", "PART", "R-2", "R1", "R2", "RC0603",
      "RCC_7", "V+", "V1", "VIN", "VOUT", "X9", "Yageo", "b.t1", "b.t2", "ccn_6",
      "design.schematic", "divider", "f.ac", "f.dc", "f.s1", "f.s2", "f.tran", "gnd", "m",
      "m.r1", "m.r1.footprint", "m.r2", "m.v1", "n.vout", "n.vout.segment.0",
      "n.vout.segment.1", "n.vout.segment.2", "n.vout.segment.x", "p.one", "r1", "v1", "vin">>
Texts == <<"0", "VIN", "VOUT", "vin", "gnd", "V+", "X9/m.r1", "R-2/m.r1", "V1/m.r1",
           "R1/m.r1", "r1/m.r1", "R2/m.r1", "v1/m.r1", "GND", "CCN_6", "ccn_6", "R2/m.r2",
           "R1/m.r2", "V1/m.v1", "RCC_7/m.r1", "X9/m.r1.footprint", "R1/m.r1.footprint",
           "R-2/m.r1.footprint", "V1/m.r1.footprint", "r1/m.r1.footprint", "R2/m.r1.footprint",
           "v1/m.r1.footprint", "RCC_7/m.r1.footprint">>
MCHex == [t \in ToSet(Texts) |-> ToString(CHOOSE i \in DOMAIN Texts : Texts[i] = t)]
MCCaseKeys == ("vin" :> "VIN") @@ ("gnd" :> "GND") @@ ("ccn_6" :> "CCN_6") @@ ("r1" :> "R1")
              @@ ("v1" :> "V1") @@ ("r" :> "R") @@ ("v" :> "V")
MCParent == [p \in ToSet(MCNameOrder) |->
                IF p \in {"m.r1", "m.r2", "m.v1"} THEN "m"
                ELSE IF p = "m.r1.footprint" THEN "m.r1" ELSE Absent]
MCUuid(kind, fields) == <<kind, fields>>
MCPinOffset == ("1" :> [x |-> 0, y |-> -1]) @@ ("2" :> [x |-> 0, y |-> 1])
Pad(n, x) == [number |-> n, x |-> x, y |-> 0, width |-> 1, height |-> 2, shape |-> "rect"]
MCPadGeometry == <<Pad("1", -1), Pad("2", 1)>>

(***************************************************************************)
(* The voltage divider.                                                    *)
(***************************************************************************)
Place(x, y, r) == [x |-> x, y |-> y, rotation |-> r]
Pins == <<[pin |-> "1", symbolPin |-> "1", type |-> "passive"],
          [pin |-> "2", symbolPin |-> "2", type |-> "passive"]>>
Connect(n1, n2) == <<[pin |-> "1", net |-> n1], [pin |-> "2", net |-> n2]>>
Model(kind) == <<[kind |-> kind, id |-> kind, positive |-> "1", negative |-> "2"]>>
RealPart == [function |-> "resistor", maker |-> "Yageo", number |-> "RC0603", package |-> "0603",
             lifecycle |-> "active", sourcing |-> <<[quantity |-> 1, days |-> 9, region |-> "EU"]>>,
             substitutions |-> <<[maker |-> "PART", number |-> "1", package |-> "0603"],
                                 [maker |-> "PART", number |-> "2", package |-> "0603"]>>]
VirtualPart == [function |-> "dc_voltage_source", maker |-> Absent, number |-> Absent,
                package |-> Absent, lifecycle |-> Absent, sourcing |-> <<>>, substitutions |-> <<>>]
Footprint(x) == [library |-> "R_0603", pads |-> MCPadGeometry, x |-> x, y |-> 2, rotation |-> 0,
                 layer |-> "front",
                 bindings |-> <<[pin |-> "1", pad |-> "1"], [pin |-> "2", pad |-> "2"]>>]
Resistor(path, reference, sheet, x, n1, n2) ==
    [path |-> path, reference |-> reference, part |-> RealPart, library |-> "R", pins |-> Pins,
     sheet |-> sheet, valueKind |-> "resistance", value |-> Quantity(1, 1, "Ohm"),
     connections |-> Connect(n1, n2), physical |-> <<Footprint(x)>>, model |-> Model("R")]
Source(path, reference, sheet, n1, n2) ==
    [path |-> path, reference |-> reference, part |-> VirtualPart, library |-> "VDC", pins |-> Pins,
     sheet |-> sheet, valueKind |-> "voltage", value |-> Quantity(5, 0, "Volt"),
     connections |-> Connect(n1, n2), physical |-> <<>>, model |-> Model("V")]
Fitted(path) == [path |-> path, state |-> "fitted", alternate |-> <<>>]
Check(path, capability) == [path |-> path, capability |-> capability]
Divider ==
    [schema |-> 1, name |-> "divider", outline |-> [x |-> 0, y |-> 0, width |-> 8, height |-> 4],
     nets |-> <<[name |-> "GND", ground |-> TRUE], [name |-> "VIN", ground |-> FALSE],
                [name |-> "VOUT", ground |-> FALSE]>>,
     modules |-> <<[path |-> "m", ports |-> <<[name |-> "VIN", net |-> "VIN"],
                                              [name |-> "GND", net |-> "GND"]>>]>>,
     components |-> <<Resistor("m.r1", "R1", Place(0, 0, 0), 2, "VIN", "VOUT"),
                      Resistor("m.r2", "R2", Place(1, 2, 0), 6, "VOUT", "GND"),
                      Source("m.v1", "V1", Place(4, 0, 0), "VIN", "GND")>>,
     analyses |-> <<>>, assertions |-> <<>>,
     catalog |-> <<[snapshot |-> "PART", sha256 |-> "1", date |-> "2"]>>,
     variants |-> <<[path |-> "p.one", quantity |-> 1,
                     components |-> <<Fitted("m.r1"), Fitted("m.r2")>>,
                     configurations |-> <<[key |-> "1", value |-> "EU"],
                                          [key |-> "2", value |-> "EU"]>>]>>,
     checks |-> <<[path |-> "p.one", adapter |-> "kicad", version |-> "10",
                   assertions |-> <<Check("1", "erc"), Check("2", "drc")>>]>>,
     routes |-> <<>>, requests |-> <<>>]

Dc(path) == [path |-> path, kind |-> "dc"]
Ac(start, stop, points) ==
    [path |-> "f.ac", kind |-> "ac", source |-> "m.v1", points |-> points,
     start |-> start, stop |-> stop, magnitude |-> Quantity(1, 0, "Volt"),
     phase |-> Quantity(0, 0, "Degree")]
Tran(step, stop) ==
    [path |-> "f.tran", kind |-> "tran", step |-> step, stop |-> stop,
     start |-> Quantity(0, 0, "Second"), uic |-> FALSE]
Hertz(c, e) == Quantity(c, e, "Hertz")
Second(c, e) == Quantity(c, e, "Second")
Sweeps == {Ac(Hertz(1, 0), Hertz(3, 0), 3), Ac(Hertz(1, 0), Hertz(101, -2), 2),
           Ac(Hertz(1, 0), Hertz(11, -1), 3), Ac(Hertz(2, 0), Hertz(1, 0), 2)}
Transients == {Tran(Second(1, 0), Second(2, 0)), Tran(Second(1, -2), Second(2, 0)),
               Tran(Second(1, 0), Second(101, -2)), Tran(Second(101, -2), Second(1, 0))}
Assertion(path, analysis, net, kind, sample) ==
    [path |-> path, analysis |-> analysis, net |-> net, sampleKind |-> kind, sample |-> sample,
     expected |-> Quantity(25, -1, "Volt"), absolute |-> Quantity(1, -1, "Volt"),
     relative |-> Quantity(0, 0, "Dimensionless")]
\* The elements of a sequence that have a value in a field get another one.
Renamed(s, f, from, to) == Each(s, LAMBDA e : IF e[f] = from THEN [e EXCEPT ![f] = to] ELSE e)
Simulated ==
    [Divider EXCEPT
       !.analyses = <<Ac(Hertz(1, 0), Hertz(3, 0), 3), Tran(Second(1, -2), Second(2, 0))>>,
       !.assertions = <<Assertion("f.s1", "f.tran", "VOUT", "time", Second(1, 0))>>]
=============================================================================
