----------------------- MODULE ImmutableLogRefinement -----------------------
(***************************************************************************)
(* ImmutableLog implements FailStopLog.  The abstract log is the one a     *)
(* caller reaches: the list in memory while the instance runs, what the    *)
(* next constructor will load otherwise.                                   *)
(***************************************************************************)
EXTENDS ImmutableLog

DataOf(es) == [i \in 1 .. Len(es) |-> es[i].data]

RefinedLog == DataOf(IF status = "running" THEN entries ELSE disk.entries)
Readable   == status = "running" \/ disk.state # "torn"

FailStop == INSTANCE FailStopLog WITH log <- RefinedLog, readable <- Readable

\* Every crash and restart the code goes through is one the abstract log
\* allows: published entries stay in place, a restart never shortens the log
\* below what was acknowledged, and a file cut short refuses to load rather
\* than load short (immutable_log.py:139-179).
ImplementsFailStop == FailStop!Spec

\* No step of the code that leaves the log readable changes an acknowledged
\* entry ("entries are never modified or deleted", immutable_log.py:20).
AckedNeverChange == FailStop!AckedNeverChange
=============================================================================
