----------------------------- MODULE MCSelfFixer -----------------------------
(***************************************************************************)
(* Small instances of SelfFixer for TLC: two clean contents besides the    *)
(* empty one, one with findings and one that is no text.                   *)
(***************************************************************************)
EXTENDS SelfFixer

CONSTANTS a, b, d, u

MCContents    == {Empty, a, b, d, u}
MCClean       == {Empty, a, b}
MCUnscannable == {u}
MCAuthored    == {a, b, d, u}

\* As wired the file is main.py: versions of the program, clean or not.
MCPrograms == {a, b, d}

\* SelfFixer on a file that is no part of the program.
MCAnything == MCContents \cup {Missing}
=============================================================================
