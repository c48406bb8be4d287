------------------------ MODULE MCOutputTransaction ------------------------
(***************************************************************************)
(* Instances of OutputTransaction for TLC.                                 *)
(***************************************************************************)
EXTENDS OutputTransaction, TLC

CONSTANTS p1, p2, k1, k2

OnePid == p1 :> k1
TwoPids == p1 :> k1 @@ p2 :> k2
SamePid == p1 :> k1 @@ p2 :> k1

Symmetry == Permutations(Inodes)

(* Another actor edits the targets when descriptors are plenty, and one    *)
(* call fails at most.                                                     *)
FewTroubles == edits > 0 => capacity >= 14 /\ faults <= 1

=============================================================================
