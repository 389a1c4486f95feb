----------------------------- MODULE FailStopLog -----------------------------
(***************************************************************************)
(* What one ImmutableLog promises its callers across crashes and restarts, *)
(* with no lock, file or hash in sight: a log that only grows while it can *)
(* be read, that a crash cuts back at most to what was acknowledged, and   *)
(* that becomes unreadable as a whole rather than lose an acknowledged     *)
(* entry silently.                                                         *)
(***************************************************************************)
EXTENDS Integers, Sequences

CONSTANT Data

VARIABLES
  log,       \* what was recorded, in order
  acked,     \* how long a prefix of it was acknowledged
  readable   \* FALSE once the log refuses to open

vars == <<log, acked, readable>>

Init ==
  /\ log = <<>>
  /\ acked = 0
  /\ readable = TRUE

Add ==
  /\ readable
  /\ \E data \in Data : log' = Append(log, data)
  /\ UNCHANGED <<acked, readable>>

Acknowledge ==
  /\ readable
  /\ acked' \in acked .. Len(log)
  /\ UNCHANGED <<log, readable>>

\* A crash loses a suffix that was never acknowledged.
Drop ==
  /\ readable
  /\ \E n \in acked .. Len(log) : log' = SubSeq(log, 1, n)
  /\ UNCHANGED <<acked, readable>>

\* A crash leaves a log that cannot be opened: it does not pretend to be empty.
Refuse ==
  /\ readable
  /\ log' = <<>>
  /\ readable' = FALSE
  /\ UNCHANGED acked

Next == Add \/ Acknowledge \/ Drop \/ Refuse

Spec == Init /\ [][Next]_vars

-----------------------------------------------------------------------------
\* The promise in one formula: a step that leaves the log readable keeps every
\* acknowledged entry where it was (immutable_log.py:20).
AckedNeverChange ==
  [][readable /\ readable' =>
       acked <= Len(log') /\ SubSeq(log', 1, acked) = SubSeq(log, 1, acked)]_vars
=============================================================================
