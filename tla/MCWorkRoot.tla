------------------------------ MODULE MCWorkRoot ------------------------------
(***************************************************************************)
(* Instances of WorkRoot for TLC.                                          *)
(***************************************************************************)
EXTENDS WorkRoot, TLC

Output == <<"a", "out">>
(* Names are used again where they do not meet. *)
Scopes == <<"a", "w">>
RouteThenSimulate == <<"route", "simulate">>

Symmetry == Permutations(Dirs \ {Top})

=============================================================================
