--------------------------- MODULE ReleaseNamespace ---------------------------
(***************************************************************************)
(* What publish_release promises to concurrent publishers of one release   *)
(* (src/release/publish.rs, ADR-0013): the final name is taken once, by a  *)
(* complete tree, and never changes again; a publisher that reports        *)
(* success is the one whose tree it leads to, one that reports an error is *)
(* not, and only an indeterminate result says nothing.  A power failure    *)
(* may take back what nobody has reported as durable; and nothing is       *)
(* promised once another actor has changed what publishers have made.      *)
(***************************************************************************)
CONSTANTS Publishers, NoOne, Stranger

VARIABLES
  shown,    \* whose complete tree the final name leads to
  result,   \* result[p]: what publisher p has reported
  lost,     \* the power has failed
  disturbed \* another actor has changed something

Init ==
  /\ shown \in {NoOne, Stranger}
  /\ result = [p \in Publishers |-> "none"]
  /\ ~lost /\ ~disturbed

Show(p) ==
  /\ ~lost /\ shown = NoOne /\ result[p] = "none"
  /\ shown' = p
  /\ ~disturbed' /\ UNCHANGED <<result, lost>>

Allowed(p) ==
  IF shown = p THEN {"good", "warned", "indeterminate"} ELSE {"failed", "indeterminate"}

Report(p) ==
  /\ ~lost /\ result[p] = "none"
  /\ \E r \in Allowed(p) : result' = [result EXCEPT ![p] = r]
  /\ ~disturbed' /\ UNCHANGED <<shown, lost>>

LosePower ==
  /\ ~lost /\ lost' = TRUE /\ ~disturbed'
  /\ \/ shown' = shown
     \/ shown \in Publishers /\ result[shown] # "good" /\ shown' = NoOne
  /\ UNCHANGED result

Disturb ==
  /\ disturbed' /\ lost' \in BOOLEAN
  /\ shown' \in Publishers \cup {NoOne, Stranger}
  /\ result' \in [Publishers -> {"none", "good", "warned", "indeterminate", "failed"}]

Next == LosePower \/ Disturb \/ \E p \in Publishers : Show(p) \/ Report(p)

Spec == Init /\ [][Next]_<<shown, result, lost, disturbed>>

=============================================================================
