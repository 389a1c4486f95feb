--------------------------- MODULE MCImmutableLog ---------------------------
(***************************************************************************)
(* Small instances of ImmutableLog and of its refinement for TLC.          *)
(***************************************************************************)
EXTENDS ImmutableLogRefinement

CONSTANTS w1, w2, r1, d1, d2, k1, k2

MCWriters == {w1, w2}
MCReaders == {r1}
MCData    == {d1, d2}
MCKeys    == {k1, k2}

\* 0 is what a policy file may say, and nothing rejects.
MCIntervals == {0, 2}
MCTwo       == {2}
=============================================================================
