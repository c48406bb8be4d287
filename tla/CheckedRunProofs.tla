--------------------------- MODULE CheckedRunProofs ---------------------------
(***************************************************************************)
(* Theorems about CheckedRun, for every number of analyses, every length   *)
(* of result and every limit.                                              *)
(***************************************************************************)
EXTENDS CheckedRun, SequenceTheorems, TLAPS

(* The phases before an analysis is executed.                              *)
Early == {"start", "compile", "route", "resolve", "reserve"}

(* Between the execution and the evaluation of an analysis, both the       *)
(* result that is held and the resource failure that may replace it fit    *)
(* into the budget beside what is reserved for the analyses to come.       *)
BudgetInv ==
  Reserve <= Limit =>
    /\ spent + reserved <= Limit
    /\ pc \in Early => spent = 0
    /\ pc = "evaluate" =>
         /\ invoked \in Analyses
         /\ spent + held.size + reserved <= Limit
         /\ spent + ResourceSize[invoked] + reserved <= Limit

(* A resource failure is kept or held only when the budget is exhausted,   *)
(* and then nothing else is held.                                          *)
ExhaustionInv ==
  /\ \A i \in 1 .. Len(kept) : kept[i].kind = "resource" => exhausted
  /\ pc = "evaluate" => (held.kind = "resource" <=> exhausted)
  /\ ExhaustionIsFinal

(* While all_checked is true, every result that is kept has passed, and    *)
(* there is one for every analysis that was executed.                      *)
CheckedInv ==
  /\ checked => \A i \in 1 .. Len(kept) : kept[i].kind = "pass"
  /\ ~tool /\ kept # <<>> => ~checked
  /\ pc = "evaluate" => invoked = Len(kept) + 1
  /\ pc = "evaluate" /\ ~tool => held.kind # "pass"
  /\ pc \in Early => kept = <<>> /\ invoked = 0 /\ checked
  /\ pc = "execute" => invoked = Len(kept)
  /\ pc = "good" => checked /\ Len(kept) = N
  /\ published = "output" => pc \in {"publish", "done"} /\ checked /\ Len(kept) = N

(* The phases in which the work root is in use.                            *)
Working == {"compile", "route", "resolve", "reserve", "execute", "evaluate"}

(* A private directory is left only in a work root that is there, and what *)
(* follows the work root's removal follows it only once it is gone.  A     *)
(* failure that the compiler did not make itself has no results, or one of *)
(* every analysis.                                                         *)
EvidenceInv ==
  /\ residue => workRoot
  /\ pc = "start" => ~residue
  /\ pc \in Working => workRoot
  /\ pc # "done" => exit = "none"
  /\ pc = "publish" \/ published # "none" \/ exit \in {"ok", "source"} => ~workRoot
  /\ published # "none" => pc \in {"publish", "done"}
  /\ ~broken /\ (pc = "bad" \/ published = "failed") =>
       kept = <<>> \/ (Len(kept) = N /\ invoked = N)
  /\ published = "failed" => kept # <<>>

-----------------------------------------------------------------------------
LEMMA ResultsType ==
  ASSUME NEW i \in Analyses
  PROVE  Resource(i) \in Results /\ Fallback(i) \in Results
  BY SizeAssumption DEF Resource, Fallback, Results

LEMMA TypeInit == Init => TypeOK
<1> SUFFICES ASSUME Init PROVE TypeOK OBVIOUS
<1>1. held \in Results BY DEF Init, Results, ExecutedKinds
<1>2. kept \in Seq(Results) /\ Len(kept) <= invoked BY DEF Init
<1>3. invoked \in Nat /\ invoked <= N /\ spent \in Nat /\ reserved \in Nat /\ faults \in Nat
  BY SizeAssumption DEF Init
<1> QED BY <1>1, <1>2, <1>3, Zenon DEF Init, TypeOK

LEMMA KeepType ==
  ASSUME TypeOK, NEW result \in Results, Keep(result), Len(kept) < invoked
  PROVE  /\ kept' \in Seq(Results) /\ Len(kept') <= invoked
         /\ spent' \in Nat /\ checked' \in BOOLEAN
<1>1. kept \in Seq(Results) /\ spent \in Nat /\ checked \in BOOLEAN /\ invoked \in Nat
  BY DEF TypeOK
<1>2. result.size \in Nat BY DEF Results
<1>3. kept' = Append(kept, result) /\ spent' = spent + result.size
  BY DEF Keep
<1>4. checked' \in BOOLEAN BY <1>1 DEF Keep
<1>5. kept' \in Seq(Results) /\ Len(kept') = Len(kept) + 1 BY <1>1, <1>3
<1> QED BY <1>1, <1>2, <1>3, <1>4, <1>5

(* Every step keeps the types, and what is kept is at most what was        *)
(* executed.                                                               *)
LEMMA TypeNext == TypeOK /\ CheckedInv /\ [Next]_vars => TypeOK'
<1> SUFFICES ASSUME TypeOK, CheckedInv, [Next]_vars PROVE TypeOK' OBVIOUS
<1>1. CASE Begin BY <1>1 DEF TypeOK, Begin, evidence
<1>2. CASE BeginFails BY <1>2 DEF TypeOK, BeginFails, Charge, End, evidence
<1>3. CASE Compile BY <1>3 DEF TypeOK, Compile, files, evidence
<1>4. CASE Route BY <1>4 DEF TypeOK, Route, files, evidence
<1>5. CASE RouteFails
  <2>1. faults' \in Nat BY <1>5 DEF RouteFails, Charge, TypeOK
  <2>2. residue' \in BOOLEAN BY <1>5, Zenon DEF RouteFails, TypeOK
  <2> QED BY <1>5, <2>1, <2>2 DEF TypeOK, RouteFails, evidence
<1>6. CASE Resolve BY <1>6 DEF TypeOK, Resolve, files, evidence
<1>7. CASE ReserveAll BY <1>7, ReserveAssumption DEF TypeOK, ReserveAll, files
<1>8. CASE Execute
  <2>1. invoked + 1 \in Analyses /\ ResourceSize[invoked + 1] \in Nat
    BY <1>8, SizeAssumption DEF Execute, TypeOK, Analyses
  <2>2. held' \in Results /\ exhausted' \in BOOLEAN
    <3> PICK kind \in IF tool THEN ExecutedKinds ELSE {"failed"}, size \in ResultSizes :
          /\ held' = Select(invoked + 1, [kind |-> kind, size |-> size], reserved')
          /\ exhausted' = (exhausted \/ Crosses([kind |-> kind, size |-> size], reserved'))
      BY <1>8 DEF Execute
    <3>1. [kind |-> kind, size |-> size] \in Results
      BY SizeAssumption DEF Results, ExecutedKinds
    <3>2. Resource(invoked + 1) \in Results BY <2>1, ResultsType
    <3> QED BY <3>1, <3>2 DEF Select, TypeOK, Crosses
  <2>3. reserved' \in Nat BY <1>8, <2>1 DEF Execute, TypeOK
  <2>4. faults' \in Nat BY <1>8 DEF Execute, Charge, TypeOK
  <2>5. residue' \in BOOLEAN BY <1>8, Zenon DEF Execute, TypeOK
  <2> QED BY <1>8, <2>1, <2>2, <2>3, <2>4, <2>5, SizeAssumption DEF Execute, TypeOK, Analyses
<1>9. CASE Evaluate
  <2>1. Len(kept) < invoked BY <1>9 DEF Evaluate, CheckedInv, TypeOK
  <2>2. /\ kept' \in Seq(Results) /\ Len(kept') <= invoked
        /\ spent' \in Nat /\ checked' \in BOOLEAN
    BY <1>9, <2>1, KeepType DEF Evaluate, TypeOK
  <2> QED BY <1>9, <2>2 DEF Evaluate, TypeOK, files
<1>10. CASE Replace
  <2>1. Len(kept) < invoked /\ invoked \in Analyses
    BY <1>10, SizeAssumption DEF Replace, CheckedInv, TypeOK, Analyses
  <2>2. Select(invoked, Fallback(invoked), reserved) \in Results
    BY <2>1, ResultsType DEF Select
  <2>3. /\ kept' \in Seq(Results) /\ Len(kept') <= invoked
        /\ spent' \in Nat /\ checked' \in BOOLEAN
    BY <1>10, <2>1, <2>2, KeepType DEF Replace
  <2>4. exhausted' \in BOOLEAN BY <1>10 DEF Replace, Crosses, TypeOK
  <2> QED BY <1>10, <2>3, <2>4 DEF Replace, TypeOK, files
<1>11. CASE Break
  <2>1. invoked' \in Nat /\ invoked <= invoked' /\ invoked' <= N
    BY <1>11, SizeAssumption DEF TypeOK, Break
  <2>2. Len(kept) \in Nat BY LenProperties DEF TypeOK
  <2>3. Len(kept) <= invoked' BY <2>1, <2>2 DEF TypeOK
  <2>4. pc' = "bad" /\ broken' = TRUE /\ checked' = FALSE /\ kept' = kept /\ faults' \in Nat
    BY <1>11 DEF Break, Charge, TypeOK
  <2> QED BY <1>11, <2>1, <2>3, <2>4 DEF TypeOK, Break, Charge, files
<1>12. CASE Finish BY <1>12 DEF TypeOK, Finish, files, evidence
<1>13. CASE RemoveWorkRoot BY <1>13 DEF TypeOK, RemoveWorkRoot, evidence
<1>14. CASE RemoveWorkRootFails
  <2>1. workRoot' \in BOOLEAN BY <1>14 DEF RemoveWorkRootFails
  <2>2. faults' \in Nat BY <1>14 DEF RemoveWorkRootFails, Charge, TypeOK
  <2> QED BY <1>14, <2>1, <2>2 DEF TypeOK, RemoveWorkRootFails, End, evidence
<1>15. CASE Refuse BY <1>15 DEF TypeOK, Refuse, End, files, evidence
<1>16. CASE Publish BY <1>16 DEF TypeOK, Publish, files, evidence
<1>17. CASE PublishFails BY <1>17 DEF TypeOK, PublishFails, Charge, End, files, evidence
<1>18. CASE Report BY <1>18 DEF TypeOK, Report, End, files, evidence
<1>19. CASE ReportFails BY <1>19 DEF TypeOK, ReportFails, Charge, End, files, evidence
<1>20. CASE UNCHANGED vars BY <1>20 DEF TypeOK, vars, files, evidence
<1> QED BY <1>1, <1>2, <1>3, <1>4, <1>5, <1>6, <1>7, <1>8, <1>9, <1>10, <1>11, <1>12, <1>13,
          <1>14, <1>15, <1>16, <1>17, <1>18, <1>19, <1>20 DEF Next

-----------------------------------------------------------------------------
(* A step that touches no evidence, and comes to no later phase of it than *)
(* it started in.                                                          *)
Quiet ==
  /\ UNCHANGED evidence
  /\ pc' = "evaluate" => pc = "evaluate"
  /\ pc' \in Early => pc \in Early

LEMMA QuietSteps ==
  ASSUME [Next]_vars
  PROVE  ReserveAll \/ Execute \/ Evaluate \/ Replace \/ Break \/ Quiet
<1> SUFFICES ASSUME ~(ReserveAll \/ Execute \/ Evaluate \/ Replace \/ Break)
             PROVE Quiet
  OBVIOUS
<1>1. CASE Begin \/ Compile \/ Route \/ RouteFails \/ Resolve
  BY <1>1 DEF Begin, Compile, Route, RouteFails, Resolve, Quiet, Early
<1>2. CASE BeginFails BY <1>2 DEF BeginFails, End, Quiet, Early
<1>3. CASE Finish BY <1>3 DEF Finish, Quiet, Early
<1>4. CASE RemoveWorkRoot BY <1>4 DEF RemoveWorkRoot, Quiet, Early
<1>5. CASE RemoveWorkRootFails BY <1>5 DEF RemoveWorkRootFails, End, Quiet, Early
<1>6. CASE Refuse BY <1>6 DEF Refuse, End, Quiet, Early
<1>7. CASE Publish BY <1>7 DEF Publish, Quiet, Early
<1>8. CASE PublishFails BY <1>8 DEF PublishFails, End, Quiet, Early
<1>9. CASE Report BY <1>9 DEF Report, End, Quiet, Early
<1>10. CASE ReportFails BY <1>10 DEF ReportFails, End, Quiet, Early
<1>11. CASE UNCHANGED vars BY <1>11 DEF vars, Quiet
<1> QED BY <1>1, <1>2, <1>3, <1>4, <1>5, <1>6, <1>7, <1>8, <1>9, <1>10, <1>11 DEF Next

(* What Select returns fits if the result fitted, or if the resource       *)
(* failure of the analysis does.                                           *)
LEMMA SelectFits ==
  ASSUME NEW i \in Analyses, NEW result \in Results, NEW rest \in Nat,
         TypeOK, spent + ResourceSize[i] + rest <= Limit
  PROVE  spent + Select(i, result, rest).size + rest <= Limit
<1>1. CASE exhausted \/ Crosses(result, rest)
  BY <1>1 DEF Select, Resource
<1>2. CASE ~exhausted /\ ~Crosses(result, rest)
  BY <1>2, SizeAssumption DEF Select, Crosses, Results, TypeOK
<1> QED BY <1>1, <1>2

LEMMA BudgetNext == TypeOK /\ CheckedInv /\ BudgetInv /\ [Next]_vars => BudgetInv'
<1> SUFFICES ASSUME TypeOK, CheckedInv, BudgetInv, [Next]_vars, Reserve <= Limit PROVE
       /\ spent' + reserved' <= Limit
       /\ pc' \in Early => spent' = 0
       /\ pc' = "evaluate" =>
            /\ invoked' \in Analyses
            /\ spent' + held'.size + reserved' <= Limit
            /\ spent' + ResourceSize[invoked'] + reserved' <= Limit
  BY DEF BudgetInv
<1>1. /\ spent + reserved <= Limit
      /\ pc \in Early => spent = 0
      /\ pc = "evaluate" =>
           /\ invoked \in Analyses
           /\ spent + held.size + reserved <= Limit
           /\ spent + ResourceSize[invoked] + reserved <= Limit
  BY DEF BudgetInv
<1>2. spent \in Nat /\ reserved \in Nat /\ invoked \in Nat /\ held \in Results
  BY DEF TypeOK
<1>3. CASE ReserveAll
  BY <1>1, <1>3, ReserveAssumption, SizeAssumption DEF ReserveAll, Early
<1>4. CASE Execute
  <2>1. invoked + 1 \in Analyses /\ ResourceSize[invoked + 1] \in Nat
    BY <1>2, <1>4, SizeAssumption DEF Execute, Analyses
  <2>2. /\ invoked' = invoked + 1 /\ spent' = spent /\ pc' = "evaluate"
        /\ reserved' = reserved - ResourceSize[invoked + 1]
        /\ ResourceSize[invoked + 1] <= reserved
    BY <1>4 DEF Execute
  <2>3. reserved' \in Nat /\ spent + ResourceSize[invoked + 1] + reserved' <= Limit
    BY <1>1, <1>2, <2>1, <2>2, SizeAssumption
  <2>4. spent + reserved' <= Limit
    <3> DEFINE r == ResourceSize[invoked + 1]
    <3>1. r \in Nat /\ reserved' = reserved - r BY <2>1, <2>2
    <3>2. spent + reserved <= Limit /\ reserved' \in Nat BY <1>1, <2>3
    <3>3. Limit \in Nat BY SizeAssumption
    <3> HIDE DEF r
    <3> QED BY <1>2, <3>1, <3>2, <3>3
  <2>5. PICK kind \in IF tool THEN ExecutedKinds ELSE {"failed"}, size \in ResultSizes :
          held' = Select(invoked + 1, [kind |-> kind, size |-> size], reserved')
    BY <1>4 DEF Execute
  <2>6. [kind |-> kind, size |-> size] \in Results
    BY SizeAssumption DEF Results, ExecutedKinds
  <2>7. spent + held'.size + reserved' <= Limit
    BY <2>1, <2>3, <2>5, <2>6, SelectFits
  <2> QED BY <2>1, <2>2, <2>3, <2>4, <2>7 DEF Early
<1>5. CASE Evaluate
  <2>1. spent' = spent + held.size /\ reserved' = reserved /\ pc = "evaluate" /\ pc' = "execute"
    BY <1>5 DEF Evaluate, Keep
  <2> QED BY <1>1, <2>1 DEF Early
<1>6. CASE Replace
  <2>1. /\ pc = "evaluate" /\ pc' = "execute" /\ reserved' = reserved
        /\ spent' = spent + Select(invoked, Fallback(invoked), reserved).size
    BY <1>6 DEF Replace, Keep
  <2>2. Fallback(invoked) \in Results BY <1>1, <2>1, ResultsType
  <2> QED BY <1>1, <1>2, <2>1, <2>2, SelectFits DEF Early
<1>7. CASE Break BY <1>1, <1>7 DEF Break, Early
<1>8. CASE Quiet BY <1>1, <1>8 DEF Quiet, evidence
<1> QED BY <1>3, <1>4, <1>5, <1>6, <1>7, <1>8, QuietSteps

LEMMA ExhaustionNext == TypeOK /\ ExhaustionInv /\ [Next]_vars => ExhaustionInv'
<1> SUFFICES ASSUME TypeOK, ExhaustionInv, [Next]_vars PROVE ExhaustionInv' OBVIOUS
<1>1. /\ \A i \in 1 .. Len(kept) : kept[i].kind = "resource" => exhausted
      /\ pc = "evaluate" => (held.kind = "resource" <=> exhausted)
      /\ \A i, j \in 1 .. Len(kept) :
           i < j /\ kept[i].kind = "resource" => kept[j].kind = "resource"
  BY DEF ExhaustionInv, ExhaustionIsFinal
<1>2. kept \in Seq(Results) BY DEF TypeOK
<1>3. ASSUME NEW result, kept' = Append(kept, result), pc' = "execute",
             exhausted => result.kind = "resource",
             exhausted => exhausted',
             result.kind = "resource" => exhausted'
      PROVE  ExhaustionInv'
  <2>1. /\ Len(kept) \in Nat /\ Len(kept') = Len(kept) + 1
        /\ kept'[Len(kept) + 1] = result
        /\ \A i \in 1 .. Len(kept) : kept'[i] = kept[i]
    BY <1>2, <1>3
  <2>2. \A i \in 1 .. Len(kept') : i \in 1 .. Len(kept) \/ i = Len(kept) + 1
    BY <2>1
  <2>3. \A i \in 1 .. Len(kept') : kept'[i].kind = "resource" => exhausted'
    BY <1>1, <1>3, <2>1, <2>2
  <2>4. ASSUME NEW i \in 1 .. Len(kept'), NEW j \in 1 .. Len(kept'),
               i < j, kept'[i].kind = "resource"
        PROVE  kept'[j].kind = "resource"
    <3>1. i \in 1 .. Len(kept) BY <2>1, <2>2, <2>4
    <3>2. kept[i].kind = "resource" BY <2>1, <2>4, <3>1
    <3> QED BY <1>1, <1>3, <2>1, <2>2, <2>4, <3>1, <3>2
  <2> QED BY <1>3, <2>3, <2>4 DEF ExhaustionInv, ExhaustionIsFinal
<1>4. CASE Execute
  <2>1. PICK kind \in IF tool THEN ExecutedKinds ELSE {"failed"}, size \in ResultSizes :
          /\ held' = Select(invoked + 1, [kind |-> kind, size |-> size], reserved')
          /\ exhausted' = (exhausted \/ Crosses([kind |-> kind, size |-> size], reserved'))
    BY <1>4 DEF Execute
  <2>2. kind # "resource" BY DEF ExecutedKinds
  <2>3. held'.kind = "resource" <=> exhausted'
    BY <2>1, <2>2 DEF Select, Resource
  <2>4. kept' = kept /\ exhausted => exhausted' BY <1>4, <2>1 DEF Execute
  <2> QED BY <1>1, <1>4, <2>3, <2>4 DEF Execute, ExhaustionInv, ExhaustionIsFinal
<1>5. CASE Evaluate
  <2>1. kept' = Append(kept, held) /\ pc = "evaluate" /\ pc' = "execute" /\ exhausted' = exhausted
    BY <1>5 DEF Evaluate, Keep
  <2> QED BY <1>1, <1>3, <2>1
<1>6. CASE Replace
  <2> DEFINE result == Select(invoked, Fallback(invoked), reserved)
  <2>1. /\ kept' = Append(kept, result) /\ pc = "evaluate" /\ pc' = "execute"
        /\ exhausted' = (exhausted \/ Crosses(Fallback(invoked), reserved))
        /\ held.kind = "stale"
    BY <1>6 DEF Replace, Keep
  <2>2. result.kind = "resource" => exhausted'
    BY <2>1 DEF Select, Fallback
  <2>3. exhausted => result.kind = "resource"
    BY DEF Select, Resource
  <2> HIDE DEF result
  <2> QED BY <1>3, <2>1, <2>2, <2>3
<1>7. CASE ReserveAll BY <1>1, <1>7 DEF ReserveAll, ExhaustionInv, ExhaustionIsFinal
<1>8. CASE Break BY <1>1, <1>8 DEF Break, ExhaustionInv, ExhaustionIsFinal
<1>9. CASE Quiet BY <1>1, <1>9 DEF Quiet, evidence, ExhaustionInv, ExhaustionIsFinal
<1> QED BY <1>4, <1>5, <1>6, <1>7, <1>8, <1>9, QuietSteps

LEMMA CheckedNext == TypeOK /\ CheckedInv /\ [Next]_vars => CheckedInv'
<1> SUFFICES ASSUME TypeOK, CheckedInv, [Next]_vars PROVE CheckedInv' OBVIOUS
<1> USE DEF CheckedInv, Early
<1>1. kept \in Seq(Results) /\ Len(kept) \in Nat /\ invoked \in Nat
  BY LenProperties DEF TypeOK
<1>2. CASE Begin BY <1>2 DEF Begin, evidence
<1>3. CASE BeginFails BY <1>3 DEF BeginFails, End, evidence
<1>4. CASE Compile BY <1>4 DEF Compile, evidence
<1>5. CASE Route
  <2>1. kept = <<>> /\ checked /\ evidence' = evidence /\ tool' = tool /\ published' = published
    BY <1>5 DEF Route
  <2>2. pc' = "good" => N = 0 BY <1>5 DEF Route
  <2>3. pc' \in {"good", "resolve"} BY <1>5 DEF Route
  <2> QED BY <1>5, <2>1, <2>2, <2>3 DEF Route, evidence
<1>6. CASE RouteFails BY <1>6 DEF RouteFails, evidence
<1>7. CASE Resolve BY <1>7 DEF Resolve, evidence
<1>8. CASE ReserveAll BY <1>8 DEF ReserveAll
<1>9. CASE Execute
  <2>1. ~tool => held'.kind # "pass"
    <3> SUFFICES ASSUME ~tool PROVE held'.kind # "pass" OBVIOUS
    <3>1. PICK kind \in {"failed"}, size \in ResultSizes :
            held' = Select(invoked + 1, [kind |-> kind, size |-> size], reserved')
      BY <1>9 DEF Execute
    <3> QED BY <3>1 DEF Select, Resource
  <2> QED BY <1>1, <1>9, <2>1 DEF Execute
<1>10. ASSUME NEW result, Keep(result), pc' = "execute", pc = "evaluate",
              UNCHANGED <<tool, invoked, published>>, ~tool => result.kind # "pass"
       PROVE  CheckedInv'
  <2>1. /\ kept' = Append(kept, result) /\ Len(kept') = Len(kept) + 1
        /\ kept'[Len(kept) + 1] = result
        /\ \A i \in 1 .. Len(kept) : kept'[i] = kept[i]
    BY <1>1, <1>10 DEF Keep
  <2>2. \A i \in 1 .. Len(kept') : i \in 1 .. Len(kept) \/ i = Len(kept) + 1
    BY <1>1, <2>1
  <2>3. checked' <=> checked /\ result.kind = "pass" BY <1>10 DEF Keep
  <2>4. checked' => \A i \in 1 .. Len(kept') : kept'[i].kind = "pass"
    BY <2>1, <2>2, <2>3
  <2>5. ~tool' => ~checked' BY <1>10, <2>3
  <2>6. invoked' = Len(kept') BY <1>1, <1>10, <2>1
  <2>7. published' # "output" BY <1>10
  <2> QED BY <1>10, <2>4, <2>5, <2>6, <2>7
<1>11. CASE Evaluate BY <1>10, <1>11 DEF Evaluate
<1>12. CASE Replace
  <2>1. Select(invoked, Fallback(invoked), reserved).kind # "pass"
    BY DEF Select, Fallback, Resource
  <2> QED BY <1>10, <1>12, <2>1 DEF Replace
<1>13. CASE Break BY <1>13 DEF Break
<1>14. CASE Finish BY <1>1, <1>14 DEF Finish, evidence
<1>15. CASE RemoveWorkRoot BY <1>15 DEF RemoveWorkRoot, evidence
<1>16. CASE RemoveWorkRootFails BY <1>16 DEF RemoveWorkRootFails, End, evidence
<1>17. CASE Refuse BY <1>17 DEF Refuse, End, evidence
<1>18. CASE Publish BY <1>18 DEF Publish, evidence
<1>19. CASE PublishFails BY <1>19 DEF PublishFails, End, evidence
<1>20. CASE Report BY <1>20 DEF Report, End, evidence
<1>21. CASE ReportFails BY <1>21 DEF ReportFails, End, evidence
<1>22. CASE UNCHANGED vars BY <1>22 DEF vars, evidence
<1> QED BY <1>2, <1>3, <1>4, <1>5, <1>6, <1>7, <1>8, <1>9, <1>11, <1>12, <1>13, <1>14, <1>15,
          <1>16, <1>17, <1>18, <1>19, <1>20, <1>21, <1>22 DEF Next

LEMMA EvidenceNext == TypeOK /\ CheckedInv /\ EvidenceInv /\ [Next]_vars => EvidenceInv'
<1> SUFFICES ASSUME TypeOK, CheckedInv, EvidenceInv, [Next]_vars PROVE EvidenceInv' OBVIOUS
<1> USE DEF EvidenceInv, Working
<1>1. kept \in Seq(Results) /\ Len(kept) \in Nat /\ invoked \in Nat /\ invoked <= N
  BY LenProperties DEF TypeOK
<1>2. CASE Begin BY <1>2 DEF Begin, evidence
<1>3. CASE BeginFails BY <1>3 DEF BeginFails, End, evidence
<1>4. CASE Compile
  BY <1>4 DEF Compile, files, evidence, CheckedInv, Early
<1>5. CASE Route BY <1>5 DEF Route, files, evidence
<1>6. CASE RouteFails BY <1>6 DEF RouteFails, evidence, CheckedInv, Early
<1>7. CASE Resolve BY <1>7 DEF Resolve, files, evidence
<1>8. CASE ReserveAll BY <1>8 DEF ReserveAll, files
<1>9. CASE Execute BY <1>9 DEF Execute
<1>10. CASE Evaluate BY <1>10 DEF Evaluate, Keep, files
<1>11. CASE Replace BY <1>11 DEF Replace, Keep, files
<1>12. CASE Break BY <1>12 DEF Break, files
<1>13. CASE Finish
  <2>1. Len(kept) = N /\ invoked = N BY <1>13 DEF Finish, CheckedInv
  <2> QED BY <1>13, <2>1 DEF Finish, files, evidence
<1>14. CASE RemoveWorkRoot BY <1>14 DEF RemoveWorkRoot, evidence
<1>15. CASE RemoveWorkRootFails BY <1>15 DEF RemoveWorkRootFails, End, evidence
<1>16. CASE Refuse BY <1>16 DEF Refuse, End, files, evidence
<1>17. CASE Publish BY <1>17 DEF Publish, files, evidence
<1>18. CASE PublishFails BY <1>18 DEF PublishFails, End, files, evidence
<1>19. CASE Report BY <1>19 DEF Report, End, files, evidence
<1>20. CASE ReportFails BY <1>20 DEF ReportFails, End, files, evidence
<1>21. CASE UNCHANGED vars BY <1>21 DEF vars, files, evidence
<1> QED BY <1>2, <1>3, <1>4, <1>5, <1>6, <1>7, <1>8, <1>9, <1>10, <1>11, <1>12, <1>13, <1>14,
          <1>15, <1>16, <1>17, <1>18, <1>19, <1>20, <1>21 DEF Next

-----------------------------------------------------------------------------
(* The inductive invariant.                                                *)
Inv == TypeOK /\ CheckedInv /\ BudgetInv /\ ExhaustionInv /\ EvidenceInv

LEMMA Inductive == Spec => []Inv
<1>1. Init => Inv
  <2> SUFFICES ASSUME Init PROVE Inv OBVIOUS
  <2>1. CheckedInv BY DEF Init, CheckedInv, Early
  <2>2. BudgetInv BY ReserveAssumption, SizeAssumption DEF Init, BudgetInv
  <2>3. ExhaustionInv BY DEF Init, ExhaustionInv, ExhaustionIsFinal
  <2>4. EvidenceInv BY DEF Init, EvidenceInv, Working
  <2> QED BY <2>1, <2>2, <2>3, <2>4, TypeInit DEF Inv
<1>2. Inv /\ [Next]_vars => Inv'
  BY TypeNext, CheckedNext, BudgetNext, ExhaustionNext, EvidenceNext DEF Inv
<1> QED BY <1>1, <1>2, PTL DEF Spec

(* Every state of the command is of its type.                              *)
THEOREM TypeCorrect == Spec => []TypeOK
<1>1. Inv => TypeOK BY DEF Inv
<1> QED BY <1>1, Inductive, PTL

(* Whatever the results are, what is kept and what is reserved never       *)
(* exceed the budget (compile_checked and select_result_with_budget).      *)
THEOREM BudgetHolds == Spec => []BudgetIsKept
<1>1. Inv => BudgetIsKept BY DEF Inv, BudgetInv, BudgetIsKept
<1> QED BY <1>1, Inductive, PTL

(* Once a result did not fit, none is kept any more.                       *)
THEOREM ExhaustionHolds == Spec => []ExhaustionIsFinal
<1>1. Inv => ExhaustionIsFinal BY DEF Inv, ExhaustionInv
<1> QED BY <1>1, Inductive, PTL

(* The bundle is published only after an authenticated tool executed all   *)
(* analyses, and all of their results were kept and passed.                *)
THEOREM SuccessHolds == Spec => []SuccessIsChecked
<1>1. Inv => SuccessIsChecked
  <2> SUFFICES ASSUME Inv, published = "output" PROVE
        /\ Len(kept) = N /\ (N > 0 => tool)
        /\ \A i \in 1 .. Len(kept) : kept[i].kind = "pass"
    BY DEF SuccessIsChecked
  <2>1. checked /\ Len(kept) = N BY DEF Inv, CheckedInv
  <2>2. N > 0 => kept # <<>> BY <2>1
  <2> QED BY <2>1, <2>2 DEF Inv, CheckedInv, TypeOK
<1> QED BY <1>1, Inductive, PTL

(* The evidence that is published has a result of every declared analysis, *)
(* and nothing is published, nor success or a design error reported, while *)
(* the work root or anything in it is left.                                *)
THEOREM EvidenceHolds == Spec => []EvidenceIsComplete
<1>1. Inv => EvidenceIsComplete
  BY DEF Inv, EvidenceInv, TypeOK, EvidenceIsComplete
<1> QED BY <1>1, Inductive, PTL

=============================================================================
