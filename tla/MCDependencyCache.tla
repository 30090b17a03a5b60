-------------------------- MODULE MCDependencyCache --------------------------
(* Small instances of DependencyCache for TLC.                              *)
EXTENDS DependencyCache, TLC

CONSTANTS p1, p2, k1, k2, r1

TwoProcs == {p1, p2}

\* k2's function may call k1's.
OneRowReads == k1 :> {r1} @@ k2 :> {r1}

OneKeyReads == k1 :> {r1}

ProcSymmetry == Permutations(Proc)
=============================================================================
