---------------------- MODULE SimulationNormalization ----------------------
(***************************************************************************)
(* What the runner of the simulator makes of the table the tool prints:    *)
(* the result of the analysis, or a failure.  A table has a first label,   *)
(* labels of columns and rows of a sample and its values; the table of an  *)
(* operating point is printed with a line to a signal and lies on its side *)
(* here, with one row.  A label is a quantity (V of a node or I of a       *)
(* device), a name and, in a sweep, the part of a complex value.  A number *)
(* that is not printed in its shortest form stands for no finite number.   *)
(***************************************************************************)
EXTENDS SimulationLowering

OutputFailure == Err("CC-SIM-PROCESS-006")
ResourceFailure == Err("CC-SIM-PROCESS-003")
BindingFailure == Err("CC-SIM-PROCESS-007")

(***************************************************************************)
(* What the netlist lets expect: the axis, and the names of the signals.   *)
(***************************************************************************)
ParsedNumber(literal) == FloatOf(Quantity(literal[1], literal[2], "Dimensionless"))
AnalysisPlan(b) ==
    LET line == b.netlist.directives[1]
        start == ParsedNumber(line.start)
        stop == ParsedNumber(line.stop)
    IN  CASE b.kind = "dc" -> Ok(<<0>>)
          [] b.kind = "ac" ->
                IF line.points < 2 \/ start <= 0 \/ start >= stop THEN OutputFailure
                ELSE IF line.points > MaxEntries THEN ResourceFailure
                ELSE IF ~Increases(Sweep(start, stop, line.points)) THEN OutputFailure
                ELSE Ok(Sweep(start, stop, line.points))
          [] b.kind = "tran" ->
                IF ParsedNumber(line.step) <= 0 \/ start < 0 \/ start >= stop THEN OutputFailure
                ELSE Ok(<<start, stop>>)

\* Names of the tool and of the design: nodes but the ground, and the sources.
\* (A mutant: the ground as well.)
ExpectedNetsWithGround(b) ==
    LET used == UNION {ToSet(b.netlist.lines[i].nodes) : i \in DOMAIN b.netlist.lines}
    IN  {n \in ToSet(b.map.nets) : n.node \in used}
ExpectedNets(b) ==
    LET used == UNION {ToSet(b.netlist.lines[i].nodes) : i \in DOMAIN b.netlist.lines}
    IN  {n \in ToSet(b.map.nets) : n.node \in used /\ ~n.ground}
ExpectedBranches(b) ==
    LET lines == ToSet(b.netlist.lines)
    IN  {n \in ToSet(b.map.devices) : \E l \in lines :
            l.device = n.device /\ CaseKey(SubSeq(l.device, 1, 1)) = "V"}

(***************************************************************************)
(* The signal of a label: at most one.                                     *)
(***************************************************************************)
Suffix(part) == CASE part = "" -> "" [] part = "mag" -> " magnitude" [] part = "phase" -> " phase"
SignalOf(b, l) ==
    LET net == {n.net : n \in {m \in ExpectedNets(b) : m.node = l.name}}
        branch == {n.path : n \in {m \in ExpectedBranches(b) : m.device = l.name}}
        kind == IF l.quantity = "V" THEN "voltage" \o Suffix(l.part) ELSE "current" \o Suffix(l.part)
        found == IF l.quantity = "V" THEN net ELSE IF l.quantity = "I" THEN branch ELSE {}
    IN  IF found = {} THEN <<>>
        ELSE <<[signal |-> kind, identity |-> CHOOSE n \in found : TRUE, unit |-> UnitOf(kind)]>>

\* In a sweep a magnitude is followed by its phase.
ShapeIsRight(b, labels) ==
    IF b.kind = "ac"
    THEN /\ Len(labels) % 2 = 0
         /\ \A i \in 1 .. Len(labels) \div 2 :
                /\ labels[2 * i - 1].part = "mag"
                /\ labels[2 * i] = [labels[2 * i - 1] EXCEPT !.part = "phase"]
    ELSE \A i \in DOMAIN labels : labels[i].part = ""

FirstLabel(kind) == CASE kind = "dc" -> "Variable" [] kind = "ac" -> "Frequency" [] kind = "tran" -> "time"
TableIsCsv(table) ==
    /\ table.labels # <<>> /\ table.rows # <<>>
    /\ \A i \in DOMAIN table.rows : Len(table.rows[i].values) = Len(table.labels)
TooLarge(kind, table) ==
    \/ Len(table.rows) > MaxEntries
    \/ Len(table.labels) > (IF kind = "dc" THEN MaxEntries ELSE 2 * MaxEntries)
SignalsOf(b, table) ==
    SortBy([i \in DOMAIN table.labels |->
                SignalOf(b, table.labels[i])[1] @@ [values |-> Each(table.rows, LAMBDA r : r.values[i])]],
           SignalKey)
InventoryIsComplete(b, signals) ==
    LET Named(kinds) == {s.identity : s \in {t \in ToSet(signals) : t.signal \in kinds}}
    IN  /\ Named({"voltage", "voltage magnitude"}) = {n.net : n \in ExpectedNets(b)}
        /\ Named({"current", "current magnitude"}) = {n.path : n \in ExpectedBranches(b)}
SamplesOf(table) == Field(table.rows, "sample")

ResultOf(b, status, samples, signals, messages) ==
    [design |-> b.request.design, path |-> b.path, kind |-> b.kind, status |-> status,
     request |-> b.request, map |-> b.map, axis |-> AxisOf(b.kind),
     samples |-> samples, signals |-> signals, messages |-> messages]

\* The times of a transient: the end is there, and so is what is asserted.
TimesAreRight(b, plan, samples) ==
    /\ Increases(samples)
    /\ \A i \in DOMAIN samples : samples[i] \in plan[1] .. plan[2]
TimesAreComplete(b, plan, samples) ==
    /\ samples[Len(samples)] = plan[2]
    /\ \A i \in DOMAIN b.request.assertions : b.request.assertions[i].sample \in ToSet(samples)

NormalizeCsv(b, plan, table) ==
    LET samples == SamplesOf(table)
        signals == SignalsOf(b, table)
        result == ResultOf(b, "completed", samples, signals, <<>>)
    IN  IF ~TableIsCsv(table) THEN OutputFailure
        ELSE IF TooLarge(b.kind, table) THEN ResourceFailure
        ELSE IF \/ table.first # FirstLabel(b.kind)
                \/ ~ShapeIsRight(b, table.labels)
                \/ Some(table.labels, LAMBDA l : SignalOf(b, l) = <<>>)
                \/ Repeats(table.labels)
                \/ \E i \in DOMAIN samples : ~IsFinite(samples[i])
                \/ b.kind \in {"dc", "ac"} /\ samples # plan
                \/ b.kind = "tran" /\ ~TimesAreRight(b, plan, samples)
             THEN OutputFailure
        ELSE IF b.kind = "tran" /\ ~TimesAreComplete(b, plan, samples) THEN BindingFailure
        ELSE IF ~InventoryIsComplete(b, signals) \/ ~IsResult(result) THEN OutputFailure
        ELSE IF ~ResultBinds(result, b.request, b.map) THEN BindingFailure
        ELSE Ok(result)
=============================================================================
