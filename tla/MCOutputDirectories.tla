-------------------------- MODULE MCOutputDirectories --------------------------
(***************************************************************************)
(* Instances of OutputDirectories for TLC.                                 *)
(***************************************************************************)
EXTENDS OutputDirectories, TLC

(* Runs are alike; only the directory the path starts in is told apart.    *)
Symmetry == Permutations(Dirs \ {Base}) \cup Permutations(Processes)

=============================================================================
