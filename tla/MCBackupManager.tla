--------------------------- MODULE MCBackupManager ---------------------------
(***************************************************************************)
(* Small instances of BackupManager for TLC.                               *)
(***************************************************************************)
EXTENDS BackupManager, TLC

CONSTANTS c1, c2

MCContents == {c1, c2}

\* Nothing tells one content from another.
Symmetry == Permutations(MCContents)
=============================================================================
