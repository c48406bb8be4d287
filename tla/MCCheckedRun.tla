----------------------------- MODULE MCCheckedRun -----------------------------
(***************************************************************************)
(* Instances of CheckedRun for TLC.                                        *)
(***************************************************************************)
EXTENDS CheckedRun

(* Three analyses; the failure of the second is longer than some results.  *)
ThreeResource == <<1, 2, 1>>
ThreeFallback == <<3, 2, 2>>

=============================================================================
