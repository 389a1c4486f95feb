------------------------------ MODULE MCService ------------------------------
(***************************************************************************)
(* A small instance of Service for TLC: every mode, and a value of         *)
(* SOVEREIGN_MODE that is none.                                            *)
(***************************************************************************)
EXTENDS Service

CONSTANT k1

MCKeys == {k1}
MCIntervals == {3}
MCEnvironments == {"hybrid", "online", "phantom"}
=============================================================================
