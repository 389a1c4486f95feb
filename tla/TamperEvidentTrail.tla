-------------------------- MODULE TamperEvidentTrail --------------------------
(***************************************************************************)
(* What the SCAR ledger promises a reader, with no file, hash, object or   *)
(* race in sight: the events that verify only ever grow in number; the     *)
(* last one may be lost again as long as it is not settled; and once       *)
(* anything behind them does not verify, they never change any more.       *)
(***************************************************************************)
EXTENDS Integers, Sequences

VARIABLES
  trail,   \* the events that verify, from genesis on
  settled, \* how many of them no write can take back
  closed   \* something behind them does not verify

vars == <<trail, settled, closed>>

Init == trail = <<>> /\ settled = 0 /\ closed = FALSE

\* One event more; the next write may take it back unless it is settled.
Extend ==
  /\ Len(trail') = Len(trail) + 1 /\ SubSeq(trail', 1, Len(trail)) = trail
  /\ settled = Len(trail) /\ settled' \in {settled, settled + 1}
  /\ ~ closed /\ UNCHANGED closed

\* Something that does not verify, in place of what is not settled.
Close ==
  /\ ~ closed /\ closed' = TRUE
  /\ trail' = SubSeq(trail, 1, settled)
  /\ UNCHANGED settled

Next == Extend \/ Close

Spec == Init /\ [][Next]_vars
=============================================================================
