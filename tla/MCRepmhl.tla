------------------------------ MODULE MCRepmhl ------------------------------
(***************************************************************************)
(* Small instances of Repmhl for TLC.  Tokens are counted in thousands: the *)
(* base of 8 and the forced rotation at 12 are those of DEFAULT_CONFIG; with *)
(* an extension of 5, two turns reach every branch of process_turn.         *)
(***************************************************************************)
EXTENDS Repmhl, TLC

CONSTANTS t1, t2

OneThread  == {t1}
TwoThreads == {t1, t2}

\* One turn that warns, one that does not.
MCTokens == {5, 7}

TwoModels == {2}
OneOrTwoModels == {1, 2}

Symmetry == Permutations(TwoThreads)
=============================================================================
