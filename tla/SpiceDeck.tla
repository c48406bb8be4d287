----------------------------- MODULE SpiceDeck -----------------------------
(***************************************************************************)
(* The SPICE netlist of a design.  Nets and components keep their names    *)
(* where SPICE, which does not tell upper from lower case, can carry them; *)
(* otherwise a name is mangled, with a number if another name took the     *)
(* result.  Names are strings; a name that is not preservable for its      *)
(* characters is in Unsupported.                                           *)
(***************************************************************************)
EXTENDS DesignCanonical

CONSTANTS Unsupported,        \* names with characters SPICE does not take
          CaseKeys,           \* [name |-> its upper case], where it differs
          ReservedNodes,      \* "0" and the spellings of "GND"
          Hex                 \* [text |-> its hexadecimal digits]

CaseKey(n) == IF n \in DOMAIN CaseKeys THEN CaseKeys[n] ELSE n
Models(d) == SelectSeq(d.components, LAMBDA c : c.model # <<>>)
ModelPins(c) == {c.model[1].positive, c.model[1].negative}
ModelNets(c) == {NetForPin(c, pin) : pin \in ModelPins(c)} \ {Absent}
SameCase(n, names) == {i \in DOMAIN names : CaseKey(names[i]) = CaseKey(n)}

\* The mangled name with the least number whose case key is not used.
UniqueMangled(prefix, source, used) ==
    LET Candidate(k) == prefix \o "_" \o Hex[source]
                        \o (IF k = 0 THEN "" ELSE "_" \o ToString(k))
    IN  Candidate(Least({k \in 0 .. Cardinality(used) : CaseKey(Candidate(k)) \notin used}))

\* A mutant: names that differ in case only are both preserved.
CanPreserveNetByName(name, others) ==
    name \notin Unsupported /\ name \notin ReservedNodes
CanPreserveNet(name, others) ==
    /\ name \notin Unsupported /\ name \notin ReservedNodes
    /\ Cardinality(SameCase(name, others)) = 1

MapNets(nets, kept) ==
    LET Add(state, net, node) == [used |-> state.used \cup {CaseKey(node)},
                                  map |-> Append(state.map, [net |-> net, node |-> node])]
        Map(state, n) ==
            Add(state, n.name, IF n.ground THEN "0" ELSE IF n.name \in kept THEN n.name
                               ELSE UniqueMangled("CCN", n.name, state.used))
    IN  FoldLeft(Map, [used |-> {"0"} \cup {CaseKey(n) : n \in kept}, map |-> <<>>], nets).map
PreservedNets(others) == {n \in ToSet(others) : CanPreserveNet(n, others)}
NetMappingsOf(d, emitted) ==
    MapNets(ByName(SelectSeq(d.nets, LAMBDA n : n.ground \/ n.name \in emitted), "name"),
            PreservedNets(Field(SelectSeq(d.nets, LAMBDA n : ~n.ground /\ n.name \in emitted), "name")))
NetMappings(d) == NetMappingsOf(d, UNION {ModelNets(c) : c \in ToSet(Models(d))})
CanPreserveReference(c, others) ==
    /\ CaseKey(SubSeq(c.reference, 1, 1)) = c.model[1].kind
    /\ c.reference \notin Unsupported
    /\ Cardinality(SameCase(c.reference, others)) = 1

PreservedDevices(components, references) ==
    {i \in DOMAIN components : CanPreserveReference(components[i], references)}
MapDevices(components, kept) ==
    LET Add(state, c, device) ==
            [used |-> state.used \cup {CaseKey(device)},
             map |-> Append(state.map, [path |-> c.path, reference |-> c.reference,
                                        device |-> device])]
        Map(state, i) ==
            Add(state, components[i],
                IF i \in kept THEN components[i].reference
                ELSE UniqueMangled(components[i].model[1].kind \o "CC",
                        components[i].reference \o "/" \o components[i].path, state.used))
    IN  FoldLeft(Map, [used |-> {CaseKey(components[i].reference) : i \in kept}, map |-> <<>>],
                 [i \in DOMAIN components |-> i]).map
DeviceMappingsOf(components) ==
    MapDevices(components, PreservedDevices(components, Field(components, "reference")))
DeviceMappings(d) == DeviceMappingsOf(ByName(Models(d), "path"))

NodeOf(map, net) == FirstWith(map, "net", net).node
DeviceOf(map, path) == FirstWith(map, "path", path).device

(***************************************************************************)
(* The netlist: the comments of the name map, a line for each device, and  *)
(* the directive of the analysis, if there is one.                         *)
(***************************************************************************)
NoAnalysis == [kind |-> "none"]
Excitation(c, a) ==
    IF a.kind = "ac" /\ c.model[1].kind = "V" /\ a.source = c.path
    THEN <<SpiceLiteral(a.magnitude), SpiceLiteral(a.phase)>> ELSE <<>>
Directive(a) ==
    CASE a.kind = "none" -> <<>>
      [] a.kind = "dc" -> <<[keyword |-> ".OP"]>>
      [] a.kind = "ac" -> <<[keyword |-> ".AC", points |-> a.points,
                             start |-> SpiceLiteral(a.start), stop |-> SpiceLiteral(a.stop)]>>
      [] a.kind = "tran" -> <<[keyword |-> ".TRAN", step |-> SpiceLiteral(a.step),
                               stop |-> SpiceLiteral(a.stop), start |-> SpiceLiteral(a.start),
                               uic |-> a.uic]>>
\* What the emission takes for granted: every terminal has a net, in the map.
DeckIsTotal(d) ==
    \A c \in ToSet(Models(d)) : \A pin \in ModelPins(c) :
        NetForPin(c, pin) \in ToSet(Field(NetMappings(d), "net"))

Deck(components, nets, devices, a) ==
    [nets |-> nets, devices |-> devices,
     lines |-> Each(components, LAMBDA c :
        [device |-> DeviceOf(devices, c.path),
         nodes |-> <<NodeOf(nets, NetForPin(c, c.model[1].positive)),
                     NodeOf(nets, NetForPin(c, c.model[1].negative))>>,
         kind |-> c.model[1].kind,
         value |-> SpiceLiteral(c.value), ac |-> Excitation(c, a)]),
     directives |-> Directive(a)]
LowerNetlist(d, a) ==
    Deck(ByName(Models(d), "path"), NetMappings(d), DeviceMappings(d), a)
=============================================================================
