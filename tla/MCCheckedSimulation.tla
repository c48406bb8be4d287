------------------------ MODULE MCCheckedSimulation ------------------------
(***************************************************************************)
(* A voltage divider with an operating point, a sweep or a transient and   *)
(* assertions about its nodes, and a simulator that prints the right table *)
(* with values at and beyond the tolerance, or a table with one thing      *)
(* wrong.                                                                  *)
(***************************************************************************)
EXTENDS CheckedSimulation, MCDesigns

(***************************************************************************)
(* The designs: a name the deck cannot use and one that meets it, an       *)
(* assertion about the ground, which no table has, and no assertion.       *)
(***************************************************************************)
OnSweep(net) == Assertion("f.s2", "f.ac", net, "frequency", Hertz(2, 0))
OnPoint(net) == [Assertion("f.s1", "f.dc", net, "scalar", Absent) EXCEPT !.relative = Quantity(1, -1, "Dimensionless")]
Mangled == [Divider EXCEPT
    !.nets = Renamed(@, "name", "VIN", "V+"),
    !.modules = Each(@, LAMBDA m : [m EXCEPT !.ports = Renamed(@, "net", "VIN", "V+")]),
    !.components = Each(@, LAMBDA c : [c EXCEPT !.connections = Renamed(@, "net", "VIN", "V+")])]
Pointed(d, assertions) == [d EXCEPT !.analyses = <<Dc("f.dc")>>, !.assertions = assertions]
Swept == [Divider EXCEPT !.analyses = <<Ac(Hertz(1, 0), Hertz(3, 0), 3)>>,
                         !.assertions = <<OnSweep("VOUT")>>]
Twice == [Simulated EXCEPT !.assertions = Append(@, OnSweep("VOUT"))]
Designs == {Canonicalize(d) : d \in {Twice, Swept,
    Pointed(Mangled, <<OnPoint("V+")>>), Pointed(Divider, <<>>), Pointed(Divider, <<OnPoint("GND")>>)}}

(***************************************************************************)
(* The tables.                                                             *)
(***************************************************************************)
Label(quantity, name, part) == [quantity |-> quantity, name |-> name, part |-> part]
\* The simulator has a voltage for every node but the ground and a current for
\* every source of its deck.
Nodes(b) == UNION {ToSet(l.nodes) : l \in ToSet(b.netlist.lines)} \ {"0"}
Labels(b) ==
    LET nodes == SetToSeq(Nodes(b))
        devices == SetToSeq({l.device : l \in {k \in ToSet(b.netlist.lines) : k.kind = "V"}})
        plain == Each(nodes, LAMBDA n : Label("V", n, "")) \o Each(devices, LAMBDA n : Label("I", n, ""))
        parts == [i \in 1 .. 2 * Len(plain) |->
                    [plain[(i + 1) \div 2] EXCEPT !.part = IF i % 2 = 1 THEN "mag" ELSE "phase"]]
    IN  IF b.kind = "ac" THEN parts ELSE plain
Samples(b) ==
    LET plan == AnalysisPlan(b).value
    IN  IF b.kind = "tran" THEN <<plan[1], 1000, plan[2]>> ELSE plan
\* The asserted node has the value v at all samples, all other values differ.
Table(b, v) ==
    LET labels == Labels(b)
        asserted == {i \in DOMAIN labels : \E a \in ToSet(b.request.assertions), n \in ToSet(b.map.nets) :
                        /\ n.net = a.identity
                        /\ labels[i] \in {Label("V", n.node, ""), Label("V", n.node, "mag")}}
    IN  [first |-> FirstLabel(b.kind), labels |-> labels,
         rows |-> Each(Samples(b), LAMBDA x :
            [sample |-> x, values |-> [i \in DOMAIN labels |-> IF i \in asserted THEN v ELSE 10 * i]])]
Values == {2500, 2600, 2400, 2700, 2100, -MaxFinite}
SwapAt(s, i) == [s EXCEPT ![i] = s[i + 1], ![i + 1] = s[i]]
Wrong(b, t) ==
    {[t EXCEPT !.first = "Value"],
     [t EXCEPT !.rows = Front(@)], [t EXCEPT !.rows = Append(@, @[1])],
     [t EXCEPT !.rows[1].sample = 1], [t EXCEPT !.rows[1].values[1] = MaxFinite + 1],
     [t EXCEPT !.rows[1].values = Front(@)],
     [t EXCEPT !.labels = SwapAt(@, 1)], [t EXCEPT !.labels[1].name = "0"],
     [t EXCEPT !.labels[1] = t.labels[Len(t.labels)]]}
\* A table without its last columns, or with one twice.
Narrow(t, n) == [t EXCEPT !.labels = SubSeq(@, 1, n),
                          !.rows = Each(@, LAMBDA r : [r EXCEPT !.values = SubSeq(@, 1, n)])]
Twofold(t) == [t EXCEPT !.labels = Append(@, @[1]),
                        !.rows = Each(@, LAMBDA r : [r EXCEPT !.values = Append(@, 2500)])]
Turned2(t) == [t EXCEPT !.labels = Reverse(@),
                        !.rows = Each(@, LAMBDA r : [r EXCEPT !.values = Reverse(@)])]
MCAnswers(b) ==
    LET t == Table(b, 2500)
    IN  {Table(b, v) : v \in Values} \cup Wrong(b, t)
        \cup {Narrow(t, Len(t.labels) - 1), Narrow(t, Len(t.labels) - 2), Twofold(t), Turned2(t)}

Init == \E d \in Designs : Start(d)
Spec == Init /\ [][Next]_vars

(***************************************************************************)
(* Properties.                                                             *)
(***************************************************************************)
\* The value a table has for a net of the design at a sample, by the names of
\* the deck: at most one.
PrintedAt(b, table, net, sample) ==
    LET node == {n.node : n \in {m \in ToSet(b.map.nets) : m.net = net}}
        columns == {i \in DOMAIN table.labels :
                        table.labels[i].quantity = "V" /\ table.labels[i].name \in node
                        /\ table.labels[i].part # "phase"}
        rows == {j \in DOMAIN table.rows : table.rows[j].sample = sample}
    IN  {table.rows[j].values[i] : i \in columns, j \in rows}
Within(s, v) ==
    LET expected == FloatOf(s.expected)
    IN  Abs(v - expected) <= FloatOf(s.absolute) + (FloatOf(s.relative) * Abs(expected)) \div Unity

\* A compilation that is checked has simulated every analysis of the design with
\* an authentic tool, and every assertion of the design holds of what that tool
\* printed for its net and its sample.
DesignHolds ==
    Checked =>
        /\ Len(kept) = Len(design.analyses)
        /\ \A i \in DOMAIN kept : printed[i] # Nothing
        /\ \A s \in ToSet(design.assertions) :
             \E i \in DOMAIN kept :
                /\ kept[i].bundle.path = s.analysis
                /\ LET b == kept[i].bundle
                       at == IF b.kind = "dc" THEN 0 ELSE FloatOf(s.sample)
                       values == PrintedAt(b, printed[i][1], s.net, at)
                   IN  Cardinality(values) = 1 /\ \A v \in values : Within(s, v)

\* A compilation that is not checked says why and has the evidence of every
\* analysis: a report that is bound to its result, that names a failure wherever
\* there is one, and nothing the compiler itself could not make.
FailureIsExplained ==
    pc = "done" =>
        /\ Len(kept) = Len(bundles) /\ "CC-SIM-CHECK-004" \notin diagnostics
        /\ \A i \in DOMAIN kept : ReportBinds(kept[i].report, bundles[i].request, bundles[i].map, kept[i].result)
        /\ diagnostics = {} <=> Checked
        /\ "CC-SIM-CHECK-001" \in diagnostics <=>
                \E i \in DOMAIN kept : kept[i].report.summary["fail"] > 0

\* A verdict is true of the design, and a refusal is explained.
SuccessMeansTheDesignHolds == DesignHolds /\ FailureIsExplained

\* A report is determined by its result: one that says anything else, of the
\* status, the value or the intent of an assertion, is not accepted.
Statuses == {"pass", "fail", "unsupported", "unevaluated"}
Reworded(report) ==
    {[report EXCEPT !.outcomes[i].status = status,
                    !.outcomes[i].actual = actual,
                    !.outcomes[i].message = IF actual = <<>> THEN <<"CC-SIM-PROCESS-006">> ELSE <<>>,
                    !.summary = Summary([report.outcomes EXCEPT ![i].status = status])] :
        i \in DOMAIN report.outcomes, status \in Statuses, actual \in {<<>>, <<2500>>, <<2700>>}}
Said(report) == [report EXCEPT !.outcomes = Each(@, LAMBDA o : [o EXCEPT !.message = <<>>])]
ReportIsDetermined ==
    \A i \in DOMAIN kept : \A report \in Reworded(kept[i].report) :
        ReportBinds(report, bundles[i].request, bundles[i].map, kept[i].result)
            => Said(report) = Said(kept[i].report)

\* The table an authentic tool should print is taken for what it is, whatever
\* order its columns have: no name, sample or number is lost on the way from the
\* exact design to the deck and back.  (No table has a value for the ground.)
Answerable(b) == \A i \in DOMAIN b.request.assertions :
    \E n \in ToSet(b.map.nets) : n.net = b.request.assertions[i].identity /\ n.node \in Nodes(b)
RightAnswersAreTaken ==
    pc = "analysis" /\ Answerable(Current) =>
        \A v \in Values : \A t \in {Table(Current, v), Turned2(Table(Current, v))} :
            \/ Current.kind = "ac" /\ t.labels # Labels(Current)
            \/ IsOk(NormalizeCsv(Current, AnalysisPlan(Current).value, t))

\* Evidence is accepted with the design it was made for, and with another one, or
\* altered, only if all that design asserts holds of its results: evidence that
\* is stale, reordered, incomplete or reworded is not.
Others(d) ==
    {d, [d EXCEPT !.assertions = Each(@, LAMBDA s : [s EXCEPT !.expected = Quantity(9, 0, "Volt")])],
        [d EXCEPT !.components[1].value = Quantity(2, 1, "Ohm")],
        [d EXCEPT !.analyses = Append(@, Dc("f.dc"))], [d EXCEPT !.name = "m"]}
Alterations(s) ==
    {s, Reverse(s), Tail(s), Append(s, s[1])}
    \cup {[s EXCEPT ![1].report = r] : r \in Reworded(s[1].report)}
BoundTo(d, expected) ==
    \A s \in Alterations(kept) :
        /\ Authenticates(d, expected, s) => s = kept /\ expected.bundles = bundles
        /\ d = design /\ s = kept => Authenticates(d, expected, s)
\* (And a report on its own cannot say anything else of its result.)
EvidenceIsBound ==
    /\ ReportIsDetermined
    /\ Checked /\ kept # <<>> => \A d \in Others(design) : BoundTo(d, LowerInputs(d))
=============================================================================
