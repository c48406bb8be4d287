-------------------------- MODULE BundlePublication --------------------------
(***************************************************************************)
(* What the publication of a bundle promises to those who consume it only  *)
(* after the command has reported its result (docs/language.md, ADR-0006): *)
(* the targets change in one step, all of them or none.  A run that is     *)
(* killed, or that reports an error of its cleanup, promises less; and     *)
(* nothing is promised once another actor has changed the targets.         *)
(***************************************************************************)
CONSTANT Entries

VARIABLES
  result,   \* what is known of the publication
  view,     \* what a consumer finds at each target
  disturbed \* another actor has changed the targets

Results == {"pending", "published", "kept", "damaged"}
Views == {"old", "new", "gone"}

Init == result = "pending" /\ view = [e \in Entries |-> "old"] /\ ~disturbed

Publish ==
  /\ result = "pending" /\ result' = "published" /\ ~disturbed'
  /\ view' = [e \in Entries |-> "new"]

Keep ==
  /\ result = "pending" /\ result' = "kept" /\ ~disturbed'
  /\ UNCHANGED view

Damage ==
  /\ result = "pending" /\ result' = "damaged" /\ ~disturbed'
  /\ view' \in [Entries -> Views]

Disturb ==
  /\ disturbed'
  /\ result' \in Results /\ view' \in [Entries -> Views]

Next == Publish \/ Keep \/ Damage \/ Disturb

Spec == Init /\ [][Next]_<<result, view, disturbed>>

=============================================================================
