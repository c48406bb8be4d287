------------------------ MODULE MCReleasePublication ------------------------
(***************************************************************************)
(* Instances of ReleasePublication for TLC.                                *)
(***************************************************************************)
EXTENDS ReleasePublication, TLC

CONSTANTS p1, p2

(* The request in the root and an artifact in a directory.                 *)
SmallTree == 1 :> 0 @@ 2 :> 0 @@ 3 :> 1

(* Two publishers of one release, one may be killed, and the power may     *)
(* fail; one publisher, and another actor that changes trees and names.    *)
Rivals ==
  [publishers |-> {p1, p2}, mayExpel |-> {}, mayCrash |-> {p1},
   maxFaults |-> 2, maxEdits |-> 0, powerMayFail |-> TRUE]
Meddled ==
  [publishers |-> {p1}, mayExpel |-> {p1}, mayCrash |-> {p1},
   maxFaults |-> 3, maxEdits |-> 2, powerMayFail |-> FALSE]
RivalsOrMeddled == {Rivals, Meddled}

=============================================================================
