------------------------------ MODULE CheckedRun ------------------------------
(***************************************************************************)
(* One run of the command (run, cmd/circuitc/main.rs) around the checked   *)
(* compilation (compile_checked, src/compile.rs): a private work root is   *)
(* made, the design is routed, every analysis is executed and evaluated    *)
(* within a budget of result bytes, the work root is removed, and either   *)
(* the bundle or the evidence of the failure is published.                 *)
(*                                                                         *)
(* Of a result only its length and what its evaluation says of it are      *)
(* modelled.  A publication is one step here; OutputTransaction has it in  *)
(* detail.                                                                 *)
(***************************************************************************)
EXTENDS Naturals, Sequences, Functions

CONSTANTS
  N,             \* declared analyses
  ResultSizes,   \* lengths of executed results
  ResourceSize,  \* ResourceSize[i]: length of the resource failure of analysis i
  FallbackSize,  \* FallbackSize[i]: length of its internal failure
  Reserve,       \* the lengths of all resource failures
  Limit,         \* MAX_AGGREGATE_RESULT_BYTES
  MaxFaults      \* bound: calls of the operating system that fail

Analyses == 1 .. N

ASSUME SizeAssumption ==
  /\ N \in Nat /\ Limit \in Nat /\ MaxFaults \in Nat
  /\ ResultSizes \subseteq Nat
  /\ ResourceSize \in [Analyses -> Nat] /\ FallbackSize \in [Analyses -> Nat]
ASSUME ReserveAssumption ==
  /\ Reserve \in Nat
  /\ Reserve = SumFunctionOnSet(ResourceSize, Analyses)

(* What evaluate_assertions says of a result: it is complete and every     *)
(* assertion passes, an assertion fails, it is not complete, or it is not  *)
(* the result of this request at all.                                      *)
ExecutedKinds == {"pass", "miss", "failed", "stale"}
Results == [kind : ExecutedKinds \cup {"resource", "fallback"}, size : Nat]
Resource(i) == [kind |-> "resource", size |-> ResourceSize[i]]
Fallback(i) == [kind |-> "fallback", size |-> FallbackSize[i]]

VARIABLES
  pc,
  workRoot,   \* the work root exists
  residue,    \* a private directory is left in it
  tool,       \* the simulator is authenticated
  invoked,    \* analyses that have been executed
  held,       \* the result that is to be evaluated
  kept,       \* the results that are kept, in the order of the analyses
  spent,      \* their length
  reserved,   \* what is reserved for the analyses to come
  exhausted,  \* resource_exhausted
  checked,    \* all_checked, and no diagnostics so far
  broken,     \* the compiler's own contract construction failed
  published,  \* the directory that was published
  exit,       \* how the command has ended
  faults

evidence == <<invoked, held, kept, spent, reserved, exhausted, checked>>
files == <<workRoot, residue>>
vars == <<pc, files, tool, evidence, broken, published, exit, faults>>

TypeOK ==
  /\ pc \in {"start", "compile", "route", "resolve", "reserve", "execute", "evaluate",
             "good", "bad", "publish", "done"}
  /\ workRoot \in BOOLEAN /\ residue \in BOOLEAN /\ tool \in BOOLEAN
  /\ invoked \in Nat /\ invoked <= N
  /\ held \in Results
  /\ kept \in Seq(Results) /\ Len(kept) <= invoked
  /\ spent \in Nat /\ reserved \in Nat
  /\ exhausted \in BOOLEAN /\ checked \in BOOLEAN /\ broken \in BOOLEAN
  /\ published \in {"none", "output", "failed"}
  /\ exit \in {"none", "ok", "source", "io"}
  /\ faults \in Nat

Init ==
  /\ pc = "start"
  /\ workRoot = FALSE /\ residue = FALSE /\ tool = FALSE
  /\ invoked = 0 /\ kept = <<>> /\ spent = 0 /\ reserved = 0
  /\ held = [kind |-> "failed", size |-> 0]
  /\ exhausted = FALSE /\ checked = TRUE /\ broken = FALSE
  /\ published = "none" /\ exit = "none" /\ faults = 0

-----------------------------------------------------------------------------
Charge == faults < MaxFaults /\ faults' = faults + 1

End(code) == pc' = "done" /\ exit' = code

(* The source is read, the output directory validated, the work root made. *)
(* A work root that cannot be validated is removed again, if possible.     *)
Begin ==
  /\ pc = "start" /\ pc' = "compile"
  /\ workRoot' = TRUE
  /\ UNCHANGED <<residue, tool, evidence, broken, published, exit, faults>>

BeginFails ==
  /\ pc = "start" /\ Charge /\ End("io")
  /\ workRoot' \in BOOLEAN
  /\ UNCHANGED <<residue, tool, evidence, broken, published>>

(* The source does not compile, or it cannot be lowered.                   *)
Compile ==
  /\ pc = "compile" /\ pc' \in {"route", "bad"}
  /\ UNCHANGED <<files, tool, evidence, broken, published, exit, faults>>

(* A route that is found and imported, or no route to be found.  Only a    *)
(* route that fails may leave its private directory behind.                *)
Route ==
  /\ pc = "route" /\ pc' = IF N = 0 THEN "good" ELSE "resolve"
  /\ UNCHANGED <<files, tool, evidence, broken, published, exit, faults>>

RouteFails ==
  /\ pc = "route" /\ pc' = "bad"
  /\ \/ UNCHANGED residue /\ UNCHANGED faults
     \/ Charge /\ residue' = TRUE
  /\ UNCHANGED <<workRoot, tool, evidence, broken, published, exit>>

Resolve ==
  /\ pc = "resolve" /\ pc' = "reserve"
  /\ tool' \in BOOLEAN
  /\ UNCHANGED <<files, evidence, broken, published, exit, faults>>

ReserveAll ==
  /\ pc = "reserve" /\ pc' = "execute"
  /\ reserved' = Reserve
  /\ UNCHANGED <<files, tool, invoked, held, kept, spent, exhausted, checked, broken,
                 published, exit, faults>>

-----------------------------------------------------------------------------
(* A mutant: what is reserved is forgotten.                                *)
CrossesAlone(result, rest) == spent + result.size > Limit

(* select_result_with_budget: a result is kept if the failures of all      *)
(* analyses to come still fit; once one does not fit, none is kept.        *)
Crosses(result, rest) == spent + result.size + rest > Limit
Select(i, result, rest) ==
  IF exhausted \/ Crosses(result, rest) THEN Resource(i) ELSE result

(* Every analysis is executed, even when its result cannot be kept.        *)
Execute ==
  /\ pc = "execute" /\ invoked < N
  /\ LET i == invoked + 1 IN
     /\ invoked' = i
     /\ ResourceSize[i] <= reserved
     /\ reserved' = reserved - ResourceSize[i]
     /\ \E kind \in IF tool THEN ExecutedKinds ELSE {"failed"}, size \in ResultSizes :
          LET result == [kind |-> kind, size |-> size] IN
          /\ held' = Select(i, result, reserved')
          /\ exhausted' = (exhausted \/ Crosses(result, reserved'))
          /\ \/ UNCHANGED residue /\ UNCHANGED faults
             \/ kind = "failed" /\ tool /\ Charge /\ residue' = TRUE
  /\ pc' = "evaluate"
  /\ UNCHANGED <<workRoot, tool, kept, spent, checked, broken, published, exit>>

Keep(result) ==
  /\ kept' = Append(kept, result)
  /\ spent' = spent + result.size
  /\ checked' = (checked /\ result.kind = "pass")

Evaluate ==
  /\ pc = "evaluate" /\ held.kind # "stale"
  /\ Keep(held)
  /\ pc' = "execute"
  /\ UNCHANGED <<files, tool, invoked, held, reserved, exhausted, broken, published, exit, faults>>

(* A result that is not the result of this request is replaced by an       *)
(* internal failure, which has to fit into the budget as well.             *)
Replace ==
  /\ pc = "evaluate" /\ held.kind = "stale"
  /\ Keep(Select(invoked, Fallback(invoked), reserved))
  /\ exhausted' = (exhausted \/ Crosses(Fallback(invoked), reserved))
  /\ pc' = "execute"
  /\ UNCHANGED <<files, tool, invoked, held, reserved, broken, published, exit, faults>>

(* The compiler cannot build or evaluate a failure of its own.             *)
Break ==
  /\ pc \in {"reserve", "execute", "evaluate"} /\ Charge
  /\ pc = "execute" => invoked < N
  /\ pc' = "bad" /\ broken' = TRUE /\ checked' = FALSE
  /\ invoked' = IF pc = "execute" THEN invoked + 1 ELSE invoked
  /\ UNCHANGED <<files, tool, held, kept, spent, reserved, exhausted, published, exit>>

(* Mutants: the assertions of the last result decide; the analyses that no *)
(* budget is left for are skipped.                                         *)
FinishByLast ==
  /\ pc = "execute" /\ invoked = N
  /\ pc' = IF kept[N].kind = "pass" THEN "good" ELSE "bad"
  /\ UNCHANGED <<files, tool, evidence, broken, published, exit, faults>>

FinishEarly ==
  /\ pc = "execute" /\ (invoked = N \/ exhausted)
  /\ pc' = IF checked THEN "good" ELSE "bad"
  /\ UNCHANGED <<files, tool, evidence, broken, published, exit, faults>>

Finish ==
  /\ pc = "execute" /\ invoked = N
  /\ pc' = IF checked THEN "good" ELSE "bad"
  /\ UNCHANGED <<files, tool, evidence, broken, published, exit, faults>>

-----------------------------------------------------------------------------
(* The work root is removed before anything is published; it is not        *)
(* removed when something is left in it.  After an error the removal is    *)
(* tried once more, and the error reported all the same.                   *)
RemoveWorkRoot ==
  /\ pc \in {"good", "bad"} /\ workRoot /\ ~residue
  /\ workRoot' = FALSE
  /\ UNCHANGED <<pc, residue, tool, evidence, broken, published, exit, faults>>

RemoveWorkRootFails ==
  /\ pc \in {"good", "bad"} /\ workRoot
  /\ (residue /\ UNCHANGED faults) \/ Charge
  /\ workRoot' \in BOOLEAN /\ (residue => workRoot')
  /\ End("io")
  /\ UNCHANGED <<residue, tool, evidence, broken, published>>

(* A failure without evidence publishes nothing.                           *)
Refuse ==
  /\ pc = "bad" /\ ~workRoot /\ kept = <<>> /\ End("source")
  /\ UNCHANGED <<files, tool, evidence, broken, published, faults>>

(* The bundle, or the evidence beside it under the name with ".failed".    *)
Publish ==
  /\ ~workRoot
  /\ \/ pc = "good" /\ published' = "output"
     \/ pc = "bad" /\ kept # <<>> /\ published' = "failed"
  /\ pc' = "publish"
  /\ UNCHANGED <<files, tool, evidence, broken, exit, faults>>

PublishFails ==
  /\ pc = "good" \/ (pc = "bad" /\ kept # <<>>)
  /\ ~workRoot /\ Charge /\ End("io")
  /\ UNCHANGED <<files, tool, evidence, broken, published>>

(* What was published is reported.                                         *)
Report ==
  /\ pc = "publish"
  /\ End(IF published = "output" THEN "ok" ELSE "source")
  /\ UNCHANGED <<files, tool, evidence, broken, published, faults>>

ReportFails ==
  /\ pc = "publish" /\ Charge /\ End("io")
  /\ UNCHANGED <<files, tool, evidence, broken, published>>

Next ==
  \/ Begin \/ BeginFails
  \/ Compile \/ Route \/ RouteFails
  \/ Resolve \/ ReserveAll
  \/ Execute \/ Evaluate \/ Replace \/ Break \/ Finish
  \/ RemoveWorkRoot \/ RemoveWorkRootFails
  \/ Refuse \/ Publish \/ PublishFails \/ Report \/ ReportFails

Spec == Init /\ [][Next]_vars

-----------------------------------------------------------------------------
(* Properties.                                                             *)

(* The results that are kept never exceed the budget, when the failures of *)
(* all analyses fit into it: there is always room for the failures of the  *)
(* analyses to come.                                                       *)
BudgetIsKept == Reserve <= Limit => spent + reserved <= Limit

(* "The current and remaining analyses retain CC-SIM-CHECK-003 failed      *)
(* results": after the first result that did not fit, no result is kept,   *)
(* however short.                                                          *)
ExhaustionIsFinal ==
  \A i, j \in 1 .. Len(kept) :
    i < j /\ kept[i].kind = "resource" => kept[j].kind = "resource"

(* "No analysis disappears from the evidence set": evidence is published   *)
(* with one result for every declared analysis, each of them executed.     *)
(* A private directory that could not be removed, even where its cleanup   *)
(* ignored that, prevents the publication, and the command says so.        *)
EvidenceIsComplete ==
  /\ published = "failed" /\ ~broken => Len(kept) = N /\ invoked = N
  /\ workRoot \/ residue => published = "none" /\ exit \in {"none", "io"}

(* The bundle is published only when an authenticated simulator executed   *)
(* every analysis and the results of all of them were kept and passed.     *)
SuccessIsChecked ==
  published = "output" =>
    /\ Len(kept) = N /\ (N > 0 => tool)
    /\ \A i \in 1 .. Len(kept) : kept[i].kind = "pass"

=============================================================================
