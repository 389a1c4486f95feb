----------------------------- MODULE ScarLedger -----------------------------
(***************************************************************************)
(* SCARLedger of selffixerai/authority.py: a file of JSON lines, one event *)
(* each, that append() reads twice (verify, then _events) and extends.     *)
(*                                                                         *)
(* A SHA-256 digest is modelled, collision-free, by what it digests: the   *)
(* hash of an event is the hash before it extended with its sequence and   *)
(* body.  A write cut short leaves a line no reader can parse ("cut"), or  *)
(* an event without its newline, which the next write runs into; or the    *)
(* whole event, of which the caller knows nothing.                         *)
(***************************************************************************)
EXTENDS Integers, Sequences

CONSTANT NoBody \* the body of a line that does not parse

VARIABLE scar \* [lines, terminated]: the ledger file

GENESIS == <<>>

Cut == [state |-> "cut", sequence |-> 0, previous_event_hash |-> GENESIS, body |-> NoBody]

EmptyLedger == [lines |-> <<>>, terminated |-> TRUE]

EventHash(event) ==
  Append(event.previous_event_hash, <<event.sequence, event.body>>)

\* What previous_event_hash has to be in line i.
HashBefore(lines, i) == IF i = 1 THEN GENESIS ELSE EventHash(lines[i - 1])

\* _events: json.loads raises on a line that was cut.
Parses(lines) == \A i \in 1 .. Len(lines) : lines[i].state = "event"

InChain(lines, i) ==
  /\ lines[i].state = "event"
  /\ lines[i].sequence = i
  /\ lines[i].previous_event_hash = HashBefore(lines, i)

\* Mutant of Verifies: only what json.loads refuses is refused.
VerifiesParsing(lines) == Parses(lines)

\* verify() returns: no gap, no mismatch.  (event_hash is what EventHash says
\* as long as nobody edits the file.)
Verifies(lines) == Parses(lines) /\ \A i \in 1 .. Len(lines) : InChain(lines, i)

\* The event append() builds from the lines it has read.
NextEvent(lines, body) ==
  [state               |-> "event",
   sequence            |-> Len(lines) + 1,
   previous_event_hash |-> HashBefore(lines, Len(lines) + 1),
   body                |-> body]

\* Mutant of Written: the file is opened with "w".
WrittenAfresh(line, newline) == [lines |-> <<line>>, terminated |-> newline]

\* Text written at the end of the file: after a newline it is a line of its
\* own, otherwise it spoils the line it runs into.
Written(line, newline) ==
  [lines      |-> IF scar.terminated THEN Append(scar.lines, line)
                  ELSE [scar.lines EXCEPT ![Len(scar.lines)] = Cut],
   terminated |-> newline]

\* The file after a write of this event that raises, or is killed: nothing,
\* some of the line, all of it but the newline, or the whole line, when it is
\* fsync that raises.
CutShort(event) == {scar, Written(Cut, FALSE), Written(event, FALSE), Written(event, TRUE)}
=============================================================================
