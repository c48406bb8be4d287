------------------------- MODULE CheckedSimulation -------------------------
(***************************************************************************)
(* The checked execution of the analyses of a design, one after another,   *)
(* with the steps of the runner around the simulator.  The tool is         *)
(* authenticated once; each run has a private copy of its own, in a        *)
(* directory of its own, that is authenticated before and after.  While it *)
(* runs the installed tool or the copy may be replaced, the deadline of    *)
(* the compilation may pass and any call may fail.  The budget of result   *)
(* bytes is in CheckedRun, the run of a process in ProcessRunner.          *)
(***************************************************************************)
EXTENDS SimulationNormalization

CONSTANTS Answers(_),    \* the tables the tool may print for a bundle
          MaxFaults      \* bound: replacements, and calls that fail

VARIABLES
  design, bundles,
  pc,
  installed,   \* the installed tool is the authentic one
  copy,        \* the private copy is
  tool,        \* what the authentication of the tool said
  late,        \* the deadline has passed
  held,        \* what the execution of the current analysis has come to
  kept,        \* the results and reports of the analyses so far
  diagnostics, \* the codes of the diagnostics so far
  left,        \* private directories that could not be removed
  printed,     \* the tables authentic tools have printed, for each analysis
  faults
world == <<installed, copy, late, left, faults>>
vars == <<design, bundles, pc, world, tool, held, kept, diagnostics, printed>>

Nothing == <<>>
Current == bundles[Len(kept) + 1]
Start(d) ==
  /\ design = d /\ bundles = LowerInputs(d).bundles
  /\ bundles # <<>>                  \* no simulation, no tool
  /\ pc = "authenticate" /\ tool = "unknown"
  /\ installed = TRUE /\ copy = TRUE /\ late = FALSE /\ left = 0 /\ faults = 0
  /\ held = Nothing /\ kept = <<>> /\ diagnostics = {}
  /\ printed = [i \in DOMAIN bundles |-> Nothing]

Charge == faults < MaxFaults /\ faults' = faults + 1
FailedResult(status, code) == ResultOf(Current, status, <<>>, <<>>, <<code>>)
FailedWith(code) == FailedResult("failed", code)
NotIdentified == FailedResult("unsupported", "CC-SIM-PROCESS-001")
Late == FailedWith("CC-SIM-PROCESS-003")
Broken == FailedWith("CC-SIM-PROCESS-002")
GoTo(next, result) == pc' = next /\ held' = result

(***************************************************************************)
(* The world.                                                              *)
(***************************************************************************)
Unchanged == UNCHANGED <<design, bundles, pc, tool, held, kept, diagnostics, printed>>
ReplaceTool == /\ pc # "done" /\ installed /\ Charge /\ installed' = FALSE
               /\ Unchanged /\ UNCHANGED <<copy, late, left>>
ReplaceCopy == /\ pc \in {"handshake", "analysis", "confirm"} /\ copy /\ Charge /\ copy' = FALSE
               /\ Unchanged /\ UNCHANGED <<installed, late, left>>
DeadlinePasses == /\ pc # "done" /\ ~late /\ Charge /\ late' = TRUE
                  /\ Unchanged /\ UNCHANGED <<installed, copy, left>>

(***************************************************************************)
(* The runner.                                                             *)
(***************************************************************************)
\* The digest of a file is taken: that of the authentic tool, or another one, if
\* the time suffices.
Digest(authentic) == IF late THEN "late" ELSE IF authentic THEN "authentic" ELSE "other"

\* The tool is looked for, and authenticated by the provenance beside it; what
\* goes wrong then, the clock included, is a matter of its identity.
FindTool ==
  /\ pc = "authenticate"
  /\ \/ ~late /\ pc' = "provenance" /\ UNCHANGED <<tool, faults>>
     \/ late /\ pc' = "begin" /\ tool' = "CC-SIM-PROCESS-003" /\ UNCHANGED faults
     \/ Charge /\ pc' = "begin" /\ tool' = "CC-SIM-PROCESS-002"
  /\ UNCHANGED <<design, bundles, installed, copy, late, left, held, kept, diagnostics, printed>>
VerifyProvenance ==
  /\ pc = "provenance" /\ pc' = "begin"
  /\ \/ Digest(installed) = "authentic" /\ tool' = "authentic" /\ UNCHANGED faults
     \/ /\ (Digest(installed) # "authentic" /\ UNCHANGED faults) \/ Charge
        /\ tool' = "CC-SIM-PROCESS-001"
  /\ UNCHANGED <<design, bundles, installed, copy, late, left, held, kept, diagnostics, printed>>

\* Without a tool every analysis fails; a deck that cannot be judged is not run.
Begin ==
  /\ pc = "begin"
  /\ LET plan == AnalysisPlan(Current)
     IN  IF tool # "authentic" THEN GoTo("evaluate", FailedWith(tool))
         ELSE IF ~IsOk(plan) THEN GoTo("evaluate", FailedWith(plan.error))
         ELSE IF ExpectedNets(Current) = {} THEN GoTo("evaluate", FailedWith(OutputFailure.error))
         ELSE GoTo("stage", Nothing)
  /\ UNCHANGED <<design, bundles, world, tool, kept, diagnostics, printed>>

\* A private directory and a copy of the tool, of the installed bytes.  When
\* that fails, the directory is removed; only before the handshake a failure of
\* that is looked at, if the time was up.
Stage(from, next) ==
  /\ pc = from
  /\ \/ /\ installed /\ ~late
        /\ GoTo(next, Nothing) /\ copy' = TRUE /\ UNCHANGED <<left, faults>>
     \/ /\ \E result \in {Late, NotIdentified} :
             /\ result = Late => late
             /\ result = NotIdentified => ~installed
             /\ \/ GoTo("evaluate", result) /\ UNCHANGED <<left, faults>>
                \/ /\ Charge /\ left' = left + 1
                   /\ \/ GoTo("evaluate", result)
                      \/ from = "stage" /\ late /\ GoTo("evaluate", Broken)
        /\ UNCHANGED copy
     \/ /\ Charge /\ GoTo("evaluate", Broken) /\ UNCHANGED <<left, copy>>
  /\ UNCHANGED <<design, bundles, installed, late, tool, kept, diagnostics, printed>>
StageHandshake == Stage("stage", "handshake")
StageAnalysis == Stage("greeted", "analysis")

\* The version of the tool, the copy compared again and the directory removed.
Handshake ==
  /\ pc = "handshake"
  /\ \/ /\ GoTo("evaluate", Broken) /\ Charge /\ left' = left + 1
     \/ /\ Digest(copy) # "authentic"
        /\ GoTo("evaluate", IF Digest(copy) = "late" THEN Late ELSE NotIdentified)
        /\ UNCHANGED <<left, faults>>
     \/ /\ Digest(copy) = "authentic"
        /\ \/ GoTo("greeted", Nothing) /\ UNCHANGED faults
           \/ /\ Charge
              /\ \E r \in {FailedWith("CC-SIM-PROCESS-004"), NotIdentified} : GoTo("evaluate", r)
        /\ UNCHANGED left
  /\ UNCHANGED <<design, bundles, installed, copy, late, tool, kept, diagnostics, printed>>

\* The run itself: a failure of it, or a table and what is made of it.  A copy
\* that was replaced prints what it likes.
Analyse ==
  /\ pc = "analysis"
  /\ \/ /\ Charge /\ UNCHANGED printed
        /\ \E r \in {FailedWith("CC-SIM-PROCESS-004"), Broken} : GoTo("confirm", r)
     \/ /\ late /\ GoTo("confirm", Late) /\ UNCHANGED <<faults, printed>>
     \/ /\ ~late
        /\ \E table \in Answers(Current) :
             LET result == NormalizeCsv(Current, AnalysisPlan(Current).value, table)
             IN  /\ GoTo("confirm", IF IsOk(result) THEN result.value ELSE FailedWith(result.error))
                 /\ printed' = IF copy THEN [printed EXCEPT ![Len(kept) + 1] = <<table>>] ELSE printed
        /\ UNCHANGED faults
  /\ UNCHANGED <<design, bundles, installed, copy, late, left, tool, kept, diagnostics>>

\* A mutant: the copy is not compared again.
ConfirmBlindly ==
  /\ pc = "confirm" /\ GoTo("evaluate", held)
  /\ UNCHANGED <<design, bundles, world, tool, kept, diagnostics, printed>>
\* The copy is compared again, whatever the run has come to, and removed.
Confirm ==
  /\ pc = "confirm"
  /\ \/ /\ GoTo("evaluate", CASE Digest(copy) = "late" -> Late
                                [] Digest(copy) = "authentic" -> held
                                [] Digest(copy) = "other" -> NotIdentified)
        /\ UNCHANGED <<left, faults>>
     \/ /\ Charge /\ left' = left + 1 /\ GoTo("evaluate", Broken)
  /\ UNCHANGED <<design, bundles, installed, copy, late, tool, kept, diagnostics, printed>>

(***************************************************************************)
(* The compilation: what a result is worth.                                *)
(***************************************************************************)
CheckedDiagnostics(result, report) ==
  When(result.status # "completed", "CC-SIM-CHECK-002")
  \cup {IF report.outcomes[i].status = "fail" THEN "CC-SIM-CHECK-001" ELSE "CC-SIM-CHECK-002" :
          i \in {j \in DOMAIN report.outcomes : report.outcomes[j].status # "pass"}}
\* A result that cannot be evaluated is replaced by a failure of its own; what
\* cannot be evaluated even then ends the compilation.
Evaluate ==
  /\ pc = "evaluate"
  /\ LET first == EvaluateAssertions(Current.request, Current.map, held)
         result == IF IsOk(first) THEN held ELSE FailedWith("CC-SIM-CHECK-004")
         report == EvaluateAssertions(Current.request, Current.map, result)
     IN  IF IsOk(report)
         THEN /\ kept' = Append(kept, [bundle |-> Current, result |-> result, report |-> report.value])
              /\ diagnostics' = diagnostics \cup CheckedDiagnostics(result, report.value)
              /\ pc' = IF Len(kept') = Len(bundles) THEN "done" ELSE "begin"
         ELSE /\ diagnostics' = {"CC-SIM-CHECK-004"} /\ pc' = "done" /\ UNCHANGED kept
  /\ held' = Nothing
  /\ UNCHANGED <<design, bundles, world, tool, printed>>

Checked ==
  /\ pc = "done" /\ diagnostics = {}
  /\ \A i \in DOMAIN kept : CheckedSuccess(kept[i].report)

Next == \/ ReplaceTool \/ ReplaceCopy \/ DeadlinePasses
        \/ FindTool \/ VerifyProvenance \/ Begin \/ StageHandshake \/ Handshake
        \/ StageAnalysis \/ Analyse \/ Confirm \/ Evaluate

(***************************************************************************)
(* The same evidence, presented again with a design: authenticate_checked_ *)
(* compilation, for a design without routing.                              *)
(***************************************************************************)
EvaluatesTo(again, s) == IsOk(again) /\ CheckedSuccess(again.value) /\ s.report = again.value
IsEvidenceOf(b, s) ==
  s.bundle = b /\ EvaluatesTo(EvaluateAssertions(b.request, b.map, s.result), s)
\* (With what is expected of the design, LowerInputs(d).)
Authenticates(d, expected, simulations) ==
  /\ Validates(d) /\ expected.codes = {}
  /\ [i \in DOMAIN simulations |-> simulations[i].bundle.path] = Field(d.analyses, "path")
  /\ Len(simulations) = Len(expected.bundles)
  /\ \A i \in DOMAIN simulations : IsEvidenceOf(expected.bundles[i], simulations[i])
=============================================================================
