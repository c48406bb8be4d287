--------------------------- MODULE CheckedRouting ---------------------------
(***************************************************************************)
(* The routing of a design as a part of its checked compilation: the       *)
(* request is lowered, the installed tool authenticated by its provenance, *)
(* a private copy of it run and compared again afterwards, and its answer  *)
(* imported and projected.  Meanwhile the executable and the provenance    *)
(* may be replaced, each by itself or as an upgrade, and put back; the     *)
(* copy may be replaced; any call may fail.                                *)
(***************************************************************************)
EXTENDS RouteImport

CONSTANTS Results(_, _),   \* what may be printed for a bundle and a digest
          Digests,         \* of the executables there are
          MaxFaults        \* bound: replacements, and calls that fail
ASSUME CheckedRoutingAssumption == MaxFaults \in Nat

VARIABLES
  design, pc,
  bundle,                  \* the lowered request
  executable, provenance,  \* the digest of the installed one, the one named
  cached,                  \* the digest that was authenticated first: at most one
  opened,                  \* the digest of the installed one when it was opened last
  copy,                    \* the digest of the private copy
  held,                    \* what the run of the copy has come to
  printer,                 \* the digest of what printed it: at most one
  left,                    \* the private directory could not be removed
  faults,
  outcome                  \* the evidence and project, or what the routing is refused with
world == <<executable, provenance, faults>>
vars == <<design, pc, bundle, world, cached, opened, copy, held, printer, left, outcome>>

Foreign == "foreign"       \* the digest of a copy that was replaced
Silent == [kind |-> "silent"]
Unfinished == Err("unfinished")
Start(d, digest) ==
  /\ design = d /\ pc = "lower" /\ bundle = <<>>
  /\ executable = digest /\ provenance = digest /\ faults = 0
  /\ cached = <<>> /\ opened = digest /\ copy = Foreign /\ held = Silent /\ printer = <<>>
  /\ left = FALSE /\ outcome = Unfinished

Charge == faults < MaxFaults /\ faults' = faults + 1
GoTo(next) == pc' = next /\ UNCHANGED outcome
Refused(code) == pc' = "done" /\ outcome' = Err(code)

(***************************************************************************)
(* The world.                                                              *)
(***************************************************************************)
Unchanged == UNCHANGED <<design, pc, bundle, cached, opened, held, printer, left, outcome>>
ReplaceExecutable ==
  /\ pc # "done" /\ Charge /\ executable' \in Digests \ {executable}
  /\ Unchanged /\ UNCHANGED <<provenance, copy>>
ReplaceProvenance ==
  /\ pc # "done" /\ Charge /\ provenance' \in Digests \ {provenance}
  /\ Unchanged /\ UNCHANGED <<executable, copy>>
ReplaceCopy ==
  /\ pc \in {"check", "run", "verify", "reverify", "compare"} /\ copy # Foreign /\ Charge /\ copy' = Foreign
  /\ Unchanged /\ UNCHANGED <<executable, provenance>>

(***************************************************************************)
(* The runner.                                                             *)
(***************************************************************************)
\* A design without a request has nothing to route.
Lower ==
  /\ pc = "lower"
  /\ \E lowered \in {LowerRequest(design)} :
        IF IsOk(lowered) THEN GoTo("authenticate") /\ bundle' = lowered.value
        ELSE Refused(lowered.error) /\ UNCHANGED bundle
  /\ UNCHANGED <<design, world, cached, opened, copy, held, printer, left>>

\* verify_executable: the executable is opened and its digest taken, and then
\* the provenance read, which must name that digest.
Open(from, next) ==
  /\ pc = from /\ GoTo(next) /\ opened' = executable
  /\ UNCHANGED <<design, bundle, world, cached, copy, held, printer, left>>
OpenFirst == Open("authenticate", "name")
OpenAgain == Open("again", "name again")
OpenAfterwards == Open("verify", "reverify")
Verified == opened = provenance
VerifiedAgain == Verified /\ <<opened>> = cached
\* The first authentication is kept, and an error of it as well.
Authenticate ==
  /\ pc = "name"
  /\ \/ /\ Verified /\ GoTo("again") /\ cached' = <<opened>> /\ UNCHANGED faults
     \/ /\ (~Verified /\ UNCHANGED faults) \/ Charge
        /\ Refused("CC-ROUTE-PROCESS-001") /\ UNCHANGED cached
  /\ UNCHANGED <<design, bundle, executable, provenance, opened, copy, held, printer, left>>
AuthenticateAgain ==
  /\ pc = "name again"
  /\ \/ VerifiedAgain /\ GoTo("stage") /\ UNCHANGED faults
     \/ /\ (~VerifiedAgain /\ UNCHANGED faults) \/ Charge
        /\ Refused("CC-ROUTE-PROCESS-001")
  /\ UNCHANGED <<design, bundle, executable, provenance, cached, opened, copy, held, printer, left>>

\* stage_executable: a private directory is made and the executable opened as it
\* is installed now, copied, and the copy identified.  When any of this fails
\* the directory is removed if it can be.
RefusedWith(codes) == left' \in BOOLEAN /\ \E code \in codes : Refused(code)
Stage ==
  /\ pc = "stage" /\ opened' = executable
  /\ \/ <<executable>> = cached /\ GoTo("copy") /\ UNCHANGED <<faults, left>>
     \/ <<executable>> # cached /\ RefusedWith({"CC-ROUTE-PROCESS-001"}) /\ UNCHANGED faults
     \/ Charge /\ RefusedWith({"CC-ROUTE-PROCESS-001", "CC-ROUTE-PROCESS-002"})
  /\ UNCHANGED <<design, bundle, executable, provenance, cached, copy, held, printer>>
\* What was opened may be written to while it is copied.
CopyExecutable ==
  /\ pc = "copy"
  /\ \/ copy' = opened /\ GoTo("check") /\ UNCHANGED <<faults, left>>
     \/ copy' = Foreign /\ GoTo("check") /\ Charge /\ UNCHANGED left
     \/ Charge /\ RefusedWith({"CC-ROUTE-PROCESS-002"}) /\ UNCHANGED copy
  /\ UNCHANGED <<design, bundle, executable, provenance, cached, opened, held, printer>>
AuthenticateCopy ==
  /\ pc = "check"
  /\ \/ <<copy>> = cached /\ GoTo("run") /\ UNCHANGED <<faults, left>>
     \/ /\ (<<copy>> # cached /\ UNCHANGED faults) \/ Charge
        /\ RefusedWith({"CC-ROUTE-PROCESS-001"})
  /\ UNCHANGED <<design, bundle, executable, provenance, cached, opened, copy, held, printer>>

\* The run: an error of it, an exit code, words on the wrong stream, or a result.
RunErrors == {"CC-ROUTE-PROCESS-002", "CC-ROUTE-PROCESS-003",
              "CC-ROUTE-PROCESS-004", "CC-ROUTE-PROCESS-005"}
Run ==
  /\ pc = "run" /\ GoTo("verify")
  /\ \/ /\ Charge /\ UNCHANGED printer
        /\ \E code \in RunErrors : held' = [kind |-> "error", code |-> code]
     \/ /\ \E result \in Results(bundle, cached[1]) : held' = [kind |-> "result", result |-> result]
        /\ printer' = <<copy>> /\ UNCHANGED faults
  /\ UNCHANGED <<design, bundle, executable, provenance, cached, opened, copy, left>>

\* Whatever the run has come to, the installed tool is authenticated once more,
\* the copy compared and the directory removed; a directory that stays is
\* reported before anything else.
VerifyAfterwards ==
  /\ pc = "reverify" /\ GoTo("compare")
  /\ \/ VerifiedAgain /\ UNCHANGED <<held, faults>>
     \/ /\ (~VerifiedAgain /\ UNCHANGED faults) \/ Charge
        /\ held' = [kind |-> "error", code |-> "CC-ROUTE-PROCESS-001"]
  /\ UNCHANGED <<design, bundle, executable, provenance, cached, opened, copy, printer, left>>
CompareCopy ==
  /\ pc = "compare"
  /\ \/ /\ Charge /\ left' = TRUE /\ Refused("CC-ROUTE-PROCESS-002")
     \/ Charge /\ UNCHANGED left /\ Refused("CC-ROUTE-PROCESS-001")
     \/ /\ UNCHANGED <<faults, left>>
        /\ IF <<copy>> # cached THEN Refused("CC-ROUTE-PROCESS-001")
           ELSE IF held.kind = "error" THEN Refused(held.code) ELSE GoTo("import")
  /\ UNCHANGED <<design, bundle, executable, provenance, cached, opened, copy, held, printer>>

(***************************************************************************)
(* The compilation: the answer, from the text to the project.              *)
(***************************************************************************)
Assembled(projected, inputs) ==
  IF ~IsOk(projected) THEN projected
  ELSE IF inputs.codes # {} THEN Refuse(inputs.codes)
  ELSE Ok([artifacts |-> projected.value.artifacts, routing |-> projected.value.routing,
           bundles |-> inputs.bundles])
ImportedOutcome(imported) ==
  IF ~IsOk(imported) THEN imported
  ELSE Assembled(ProjectRoute(imported.value), LowerInputs(imported.value.design))
AnswerOutcome(result, tool) ==
  IF ~RouteResultIsValid(result) THEN Err("CC-ROUTE-PROCESS-005")
  ELSE IF result.outcome.kind = "failure" /\ result.outcome.wordy THEN Err("CC-ROUTE-PROCESS-003")
  ELSE IF result.tool # tool THEN Err("CC-ROUTE-PROCESS-001")
  ELSE ImportedOutcome(ImportResult(design, bundle, result, tool))
Import ==
  /\ pc = "import" /\ pc' = "done"
  /\ outcome' = AnswerOutcome(held.result, ExpectedTool(cached[1]))
  /\ UNCHANGED <<design, bundle, world, cached, opened, copy, held, printer, left>>

Next == \/ ReplaceExecutable \/ ReplaceProvenance \/ ReplaceCopy
        \/ Lower \/ OpenFirst \/ Authenticate \/ OpenAgain \/ AuthenticateAgain
        \/ Stage \/ CopyExecutable \/ AuthenticateCopy \/ Run
        \/ OpenAfterwards \/ VerifyAfterwards \/ CompareCopy \/ Import

(***************************************************************************)
(* The evidence of a route presented again with a design, and with the     *)
(* project that is said to be made of it: authenticate_checked_compilation *)
(* for a design with a request, but for its simulations.                   *)
(***************************************************************************)
IsCurrent(routing, request) == routing.request = request /\ routing.identity = request.identity
\* A mutant: what the answer is projected to is not compared.
IsProjectedSomehow(evidence, projected) == IsOk(projected)
IsProjected(evidence, projected) ==
  /\ IsOk(projected)
  /\ evidence.routing = projected.value.routing /\ evidence.artifacts = projected.value.artifacts
IsImported(evidence, imported) ==
  IsOk(imported) /\ IsProjected(evidence, ProjectRoute(imported.value))
\* (With what the request of the design is lowered to, LowerRequest(d).)
Authenticates(d, lowered, evidence) ==
  /\ Validates(d) /\ d.requests # <<>> /\ IsOk(lowered)
  /\ IsCurrent(evidence.routing, lowered.value.request)
  /\ RouteResultIsValid(evidence.routing.result)
  /\ IsImported(evidence, ImportResult(d, lowered.value, evidence.routing.result,
                                       ExpectedTool(evidence.routing.result.tool.sha256)))
=============================================================================
