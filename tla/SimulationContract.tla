------------------------- MODULE SimulationContract -------------------------
(***************************************************************************)
(* The four documents of a simulation: the request, the map from SPICE     *)
(* names back to the names of the design, the result and the report.  Each *)
(* names the ones before it by digest; a digest is here the document it is *)
(* taken of.  A number is an integer, in units of 1/Unity; the largest     *)
(* finite one is MaxFinite.                                                *)
(***************************************************************************)
EXTENDS SpiceDeck

CONSTANTS Backend,       \* the pinned backend identity
          Unity, MaxFinite,
          MaxEntries     \* MAX_CONTRACT_ENTRIES

IsFinite(x) == x \in -MaxFinite .. MaxFinite
StrictlySorted(s, Key(_)) == \A i \in 1 .. Len(s) - 1 : Precedes(Key(s[i]), Key(s[i + 1]))
SortedByName(s, f) == StrictlySorted(s, LAMBDA e : <<Rank(e[f])>>)

AxisOf(kind) == CASE kind = "dc" -> "scalar" [] kind = "ac" -> "frequency" [] kind = "tran" -> "time"
SignalOrder == <<"voltage", "voltage magnitude", "voltage phase",
                 "current", "current magnitude", "current phase">>
NetSignals == {"voltage", "voltage magnitude", "voltage phase"}
UnitOf(signal) == CASE signal \in {"voltage", "voltage magnitude"} -> "Volt"
                    [] signal \in {"voltage phase", "current phase"} -> "Degree"
                    [] OTHER -> "Ampere"

(***************************************************************************)
(* What each document must be by itself.                                   *)
(***************************************************************************)
IntentIsValid(a, kind) ==
    /\ IsName(a.path) /\ IsName(a.identity)
    /\ a.unit = UnitOf(a.signal) /\ a.axis = AxisOf(kind)
    /\ (a.axis = "scalar" => a.sample = 0)
    /\ \A v \in {a.sample, a.expected, a.absolute, a.relative} : IsFinite(v)
    /\ a.absolute >= 0 /\ a.relative >= 0

IsRequest(r) ==
    /\ IsName(r.design) /\ IsName(r.path) /\ r.backend = Backend
    /\ Len(r.assertions) <= MaxEntries /\ SortedByName(r.assertions, "path")
    /\ \A i \in DOMAIN r.assertions : IntentIsValid(r.assertions[i], r.kind)

InjectiveByCase(s, f) ==
    \A i, j \in DOMAIN s : CaseKey(s[i][f]) = CaseKey(s[j][f]) => i = j
IsMap(m) ==
    /\ IsName(m.design) /\ IsName(m.path)
    /\ Len(m.nets) <= MaxEntries /\ Len(m.devices) <= MaxEntries
    /\ SortedByName(m.nets, "net") /\ InjectiveByCase(m.nets, "node")
    /\ \A i \in DOMAIN m.nets :
        /\ IsName(m.nets[i].net)
        /\ IF m.nets[i].ground THEN m.nets[i].node = "0"
           ELSE m.nets[i].node \notin ReservedNodes
    /\ Cardinality({i \in DOMAIN m.nets : m.nets[i].ground}) = 1
    /\ SortedByName(m.devices, "path") /\ InjectiveByCase(m.devices, "device")
    /\ ~Repeats(Field(m.devices, "reference"))
    /\ \A i \in DOMAIN m.devices : IsName(m.devices[i].path) /\ IsName(m.devices[i].reference)

AxisIsValid(r) ==
    /\ r.samples # <<>> /\ \A i \in DOMAIN r.samples : IsFinite(r.samples[i])
    /\ IF r.axis = "scalar" THEN r.samples = <<0>>
       ELSE \A i \in 1 .. Len(r.samples) - 1 : r.samples[i] < r.samples[i + 1]
SignalKey(s) == <<CHOOSE i \in DOMAIN SignalOrder : SignalOrder[i] = s.signal, Rank(s.identity)>>
\* The messages of a result are names too.
IsResult(r) ==
    /\ IsName(r.design) /\ IsName(r.path) /\ r.axis = AxisOf(r.kind)
    /\ Len(r.samples) <= MaxEntries /\ Len(r.signals) <= MaxEntries
    /\ Len(r.messages) <= MaxEntries
    /\ IF r.status = "completed" THEN r.messages = <<>> /\ AxisIsValid(r) /\ r.signals # <<>>
       ELSE r.samples = <<>> /\ r.signals = <<>> /\ r.messages # <<>>
    /\ StrictlySorted(r.messages, LAMBDA m : <<Rank(m)>>)
    /\ \A i \in DOMAIN r.messages : IsName(r.messages[i])
    /\ StrictlySorted(r.signals, SignalKey)
    /\ \A i \in DOMAIN r.signals :
        LET s == r.signals[i]
        IN  /\ IsName(s.identity) /\ s.unit = UnitOf(s.signal)
            /\ Len(s.values) = Len(r.samples)
            /\ \A j \in DOMAIN s.values : IsFinite(s.values[j])

Abs(x) == Magnitude(x)
\* The formula of a tolerance: both ends included.
Compare(actual, expected, absolute, relative) ==
    LET difference == Abs(actual - expected)
        allowed == absolute + (relative * Abs(expected)) \div Unity
    IN  IF ~IsFinite(difference) \/ ~IsFinite(allowed) THEN "overflow"
        ELSE IF difference <= allowed THEN "pass" ELSE "fail"

\* A mutant: what a report says of an assertion is not compared again.
OutcomeIsTruthfulTrusting(o) ==
    IF o.status \in {"pass", "fail"} THEN o.actual # <<>>
    ELSE o.actual = <<>> /\ o.message # <<>>
\* What a report says of an assertion follows from the numbers it gives.
OutcomeIsTruthful(o) ==
    IF o.status \in {"pass", "fail"}
    THEN /\ o.actual # <<>>
         /\ Compare(o.actual[1], o.expected, o.absolute, o.relative) = o.status
    ELSE o.actual = <<>> /\ o.message # <<>>
Summary(outcomes) ==
    [s \in {"pass", "fail", "unsupported", "unevaluated"} |->
        Cardinality({i \in DOMAIN outcomes : outcomes[i].status = s})]
IsReport(r) ==
    /\ IsName(r.design) /\ IsName(r.path)
    /\ Len(r.outcomes) <= MaxEntries /\ SortedByName(r.outcomes, "path")
    /\ \A i \in DOMAIN r.outcomes :
        LET o == r.outcomes[i]
        IN  /\ IntentIsValid(o, r.kind) /\ OutcomeIsTruthful(o)
            /\ \A j \in DOMAIN o.actual : IsFinite(o.actual[j])
            /\ \A j \in DOMAIN o.message : IsName(o.message[j])
    /\ r.summary = Summary(r.outcomes)

(***************************************************************************)
(* What each must be with the ones it names.                               *)
(***************************************************************************)
MapBinds(m, request) ==
    /\ IsMap(m) /\ IsRequest(request)
    /\ m.request = request /\ m.design = request.design /\ m.path = request.path

\* The value of a signal at a sample: at most one.
Actual(result, a) ==
    LET signals == {i \in DOMAIN result.signals :
                        /\ result.signals[i].signal = a.signal
                        /\ result.signals[i].identity = a.identity
                        /\ result.signals[i].unit = a.unit}
        samples == {j \in DOMAIN result.samples : result.samples[j] = a.sample}
    IN  IF signals = {} \/ samples = {} THEN <<>>
        ELSE <<result.signals[CHOOSE i \in signals : TRUE].values[CHOOSE j \in samples : TRUE]>>

SignalsAreMapped(result, map) ==
    \A i \in DOMAIN result.signals :
        LET s == result.signals[i]
        IN  s.identity \in ToSet(IF s.signal \in NetSignals THEN Field(map.nets, "net")
                                 ELSE Field(map.devices, "path"))
ResultCovers(result, request) ==
    result.status = "completed" =>
        \A i \in DOMAIN request.assertions : Actual(result, request.assertions[i]) # <<>>
ResultBinds(result, request, map) ==
    /\ IsResult(result) /\ MapBinds(map, request)
    /\ result.request = request /\ result.map = map
    /\ result.design = request.design /\ result.path = request.path /\ result.kind = request.kind
    /\ SignalsAreMapped(result, map) /\ ResultCovers(result, request)

IntentFields == {"path", "signal", "identity", "axis", "sample", "unit",
                 "expected", "absolute", "relative"}
OutcomesAgree(report, request, result) ==
    /\ Len(report.outcomes) = Len(request.assertions)
    /\ \A i \in DOMAIN report.outcomes :
        LET o == report.outcomes[i]
        IN  /\ \A f \in IntentFields : o[f] = request.assertions[i][f]
            /\ IF o.status \in {"pass", "fail"}
               THEN result.status = "completed" /\ o.actual = Actual(result, o)
                    /\ o.actual # <<>>
               ELSE /\ o.status = (IF result.status = "unsupported" THEN "unsupported"
                                   ELSE "unevaluated")
                    /\ result.status # "completed" /\ Actual(result, o) = <<>>
ReportBinds(report, request, map, result) ==
    /\ IsReport(report) /\ ResultBinds(result, request, map)
    /\ report.request = request /\ report.map = map /\ report.result = result
    /\ report.design = request.design /\ report.path = request.path
    /\ report.kind = request.kind
    /\ OutcomesAgree(report, request, result)

(***************************************************************************)
(* The evaluation of a result: the report, or the error it stops with.     *)
(***************************************************************************)
Outcome(result, a) ==
    LET actual == Actual(result, a)
        status == CASE result.status = "completed" ->
                            Compare(actual[1], a.expected, a.absolute, a.relative)
                    [] result.status = "unsupported" -> "unsupported"
                    [] OTHER -> "unevaluated"
        done == result.status = "completed"
    IN  [f \in IntentFields \cup {"status", "actual", "message"} |->
            CASE f = "status" -> status
              [] f = "actual" -> IF done THEN actual ELSE <<>>
              [] f = "message" -> IF done THEN <<>> ELSE <<result.messages[1]>>
              [] OTHER -> a[f]]
ReportOf(request, map, result) ==
    LET outcomes == Each(request.assertions, LAMBDA a : Outcome(result, a))
    IN  [design |-> request.design, path |-> request.path, kind |-> request.kind,
         request |-> request, map |-> map, result |-> result,
         outcomes |-> outcomes, summary |-> Summary(outcomes)]
EvaluateAssertions(request, map, result) ==
    IF ~ResultBinds(result, request, map) THEN Err("unbound")
    ELSE LET report == ReportOf(request, map, result)
         IN  IF Some(report.outcomes, LAMBDA o : o.status = "overflow") THEN Err("overflow")
             ELSE IF ~ReportBinds(report, request, map, result) THEN Err("own report")
             ELSE Ok(report)
CheckedSuccess(report) ==
    /\ report.result.status = "completed"
    /\ \A i \in DOMAIN report.outcomes : report.outcomes[i].status = "pass"
=============================================================================
