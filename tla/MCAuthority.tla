----------------------------- MODULE MCAuthority -----------------------------
(***************************************************************************)
(* Small instances of Authority for TLC.                                   *)
(***************************************************************************)
EXTENDS AuthorityRefinement, TLC

CONSTANTS o1, o2, k1, k2, k3

OneObject    == {o1}
TwoObjects   == {o1, o2}
MCIdentities == {k1, k2, k3}

\* Objects and identities are interchangeable.
Symmetry == Permutations(TwoObjects) \cup Permutations(MCIdentities)
=============================================================================
