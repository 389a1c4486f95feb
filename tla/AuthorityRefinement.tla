------------------------- MODULE AuthorityRefinement -------------------------
(***************************************************************************)
(* Authority implements TamperEvidentTrail, through races, crashes and     *)
(* torn writes.  The events that verify are the lines before the first     *)
(* that is not in the chain; the last one is not settled if its newline is *)
(* missing.                                                                *)
(***************************************************************************)
EXTENDS Authority

\* The lines that do not follow from the one before.
Broken(lines) == {i \in 1 .. Len(lines) : ~ InChain(lines, i)}

\* How many lines come before the first of them.
Verified(lines) ==
  IF Broken(lines) = {} THEN Len(lines)
  ELSE (CHOOSE i \in Broken(lines) : \A j \in Broken(lines) : i <= j) - 1

Trail   == [i \in 1 .. Verified(scar.lines) |-> scar.lines[i].body]
Closed  == Broken(scar.lines) # {}
Settled == Verified(scar.lines) - (IF Closed \/ scar.terminated THEN 0 ELSE 1)

Evident == INSTANCE TamperEvidentTrail WITH trail <- Trail, settled <- Settled, closed <- Closed

\* Whatever the objects on one directory do to each other, and whatever is torn
\* or crashes, the ledger is an append-only trail: what verifies is never
\* rewritten, no event whose newline was written is lost from it, and a ledger
\* that does not verify never verifies further than it did ("hash-chained JSONL
\* evidence ledger with strict sequence checking", authority.py:57, 69-101).
ImplementsTrail == Evident!Spec
=============================================================================
