------------------------------- MODULE Service -------------------------------
(***************************************************************************)
(* The service of selffixerai/main.py, one process after another on one    *)
(* base directory: a start opens the key files of its mode and the audit   *)
(* log, records "startup" and a session; the loop of SelfFixer.run makes   *)
(* passes until it is stopped or one raises; the finally clause records    *)
(* "shutdown", seals the log and closes the session.                       *)
(*                                                                         *)
(* The audit log is ImmutableLog, called by this one thread.  A pass, which *)
(* SelfFixer models, is seen here by the keys it writes under and by the   *)
(* turn it saves.  The memory store is replaced as a whole.                *)
(***************************************************************************)
EXTENDS Integers, Sequences

CONSTANTS
  Main,         \* the thread of the event loop
  Nobody, Keys, Intervals, \* those of ImmutableLog
  Environments, \* what SOVEREIGN_MODE may say
  MaxRuns,      \* bound: processes
  MaxFaults     \* bound: kills and failed writes

ASSUME ServiceAssumption ==
  /\ Nobody # Main /\ Nobody \notin Keys
  /\ Intervals \subseteq Nat \ {0}
  /\ MaxRuns \in Nat /\ MaxFaults \in Nat

VARIABLES
  stage,   \* where main() is, or "down"
  mode,    \* policy.mode
  at,      \* the next key of a start, or of a pass
  stop,    \* stop_event
  keys,    \* key file -> [state, key]
  held,    \* key file -> the key this process has of it
  active,  \* the store says a session is active
  run,     \* history: the number of this process
  used,    \* history: key file -> keys something was written under
  ended,   \* history: how each process ended
  cut,     \* history: files that a kill or a failed write left half written
  checkpoint_interval, status, key_file, private_key, entries, checkpoints,
  disk, lock, pc, draft, cursor, verdict, acked, faults

logVars == <<checkpoint_interval, status, key_file, private_key, entries,
             checkpoints, disk, lock, pc, draft, cursor, verdict, acked>>
history == <<run, used, ended, cut>>
vars == <<stage, mode, at, stop, keys, held, active, history, logVars, faults>>

Modes  == {"ghost", "hybrid", "online"}
Events == [event : {"startup", "shutdown"}, run : 1 .. MaxRuns]

Log == INSTANCE ImmutableLog
  WITH Writers <- {Main}, Readers <- {}, Data <- Events, MaxEntries <- 2 * MaxRuns

-----------------------------------------------------------------------------
\* Mutant of ModeOf: any mode is taken.
ModeAsGiven(env) == env

\* RuntimePolicy.from_env: what is not a mode is taken for ghost.
ModeOf(env) == IF env \in Modes THEN env ELSE "ghost"

\* The signing key of the replica directory, which each mode but ghost has.
ReplicaKey(m) == IF m = "hybrid" THEN "replica_hybrid" ELSE "replica_online"

\* The key files in the order main() constructs their owners.
Opens(m) ==
  IF m = "ghost" THEN <<"encryption", "lock", "master", "backups">>
  ELSE <<"encryption", "lock", "master", "backups", ReplicaKey(m)>>

\* The keys in the order a pass that finds nothing writes under them: a backup,
\* which is encrypted and, being made from a path, not signed; its replica; the
\* seal, which is signed and encrypted.
Writes(m) ==
  IF m = "ghost" THEN <<"master", "lock", "encryption">>
  ELSE <<"master", "master", "lock", "encryption">>

KeyFiles == {"encryption", "lock", "master", "backups", "replica_hybrid", "replica_online"}

NoKey == 0  \* a key is named by the process that generated it
Absent  == [state |-> "absent", key |-> NoKey]
Torn    == [state |-> "torn",   key |-> NoKey]
Whole(key) == [state |-> "ok", key |-> key]

Init ==
  /\ stage = "down" /\ mode = "ghost" /\ at = 1 /\ stop = FALSE
  /\ keys = [f \in KeyFiles |-> Absent]
  /\ held = [f \in KeyFiles |-> NoKey]
  /\ active = FALSE
  /\ run = 0 /\ ended = <<>> /\ cut = {}
  /\ used = [f \in KeyFiles |-> {}]
  /\ Log!Init

Fault == faults < MaxFaults /\ faults' = faults + 1

\* The audit log's own files, and all that a start in a mode opens.
LogFiles == {"log_key", "log"}
Needs(m) == {Opens(m)[i] : i \in 1 .. Len(Opens(m))} \cup LogFiles

HalfWritten ==
  {f \in KeyFiles \cup LogFiles :
     CASE f = "log_key" -> key_file.state = "torn"
       [] f = "log"     -> disk.state = "torn"
       [] OTHER         -> keys[f].state = "torn"}

\* The process is gone, and with it what it held in memory.
End(how) ==
  /\ stage # "down" /\ stage' = "down"
  /\ at' = 1 /\ stop' = FALSE
  /\ held' = [f \in KeyFiles |-> NoKey]
  /\ ended' = Append(ended, how)
  /\ cut' = IF how \in {"killed", "failed"} THEN cut \cup HalfWritten ELSE cut
  /\ Log!Exit
  /\ UNCHANGED <<mode, keys, active, run, used>>

-----------------------------------------------------------------------------
(* The start: TamperHardLock, the orchestrator's services, the replica.    *)

Start(env) ==
  /\ stage = "down" /\ run < MaxRuns
  /\ stage' = "open" /\ run' = run + 1
  /\ mode' = ModeOf(env)
  /\ UNCHANGED <<at, stop, keys, held, active, used, ended, cut, logVars, faults>>

Key == Opens(mode)[at]

\* Its owner is constructed; after the last comes the audit log.
Opened(key) ==
  /\ held' = [held EXCEPT ![Key] = key]
  /\ IF at < Len(Opens(mode)) THEN stage' = "open" /\ at' = at + 1
                              ELSE stage' = "startup" /\ at' = 1
  /\ UNCHANGED <<mode, stop, active, history, logVars, faults>>

\* Mutant of ReadKey: the file is not read if there is one, but made anew.
ReadKeyAnew ==
  /\ stage = "open" /\ keys[Key].state = "ok"
  /\ keys' = [keys EXCEPT ![Key] = Whole(run)]
  /\ Opened(run)

ReadKey ==
  /\ stage = "open" /\ keys[Key].state = "ok"
  /\ Opened(keys[Key].key)
  /\ UNCHANGED keys

\* A file of the wrong length makes the constructor raise.
KeyRefused ==
  /\ stage = "open" /\ keys[Key].state = "torn"
  /\ End("refused")
  /\ UNCHANGED faults

\* write_bytes has created the file and not filled it yet.
CreateKey ==
  /\ stage = "open" /\ keys[Key].state = "absent"
  /\ keys' = [keys EXCEPT ![Key] = Torn]
  /\ stage' = "fill"
  /\ UNCHANGED <<mode, at, stop, held, active, history, logVars, faults>>

FillKey ==
  /\ stage = "fill"
  /\ keys' = [keys EXCEPT ![Key] = Whole(run)]
  /\ Opened(run)

-----------------------------------------------------------------------------
(* log_event and force_checkpoint: the calls on the audit log.             *)

\* The first log_event constructs it.
OpenLog ==
  /\ stage = "startup"
  /\ Log!LoadKey \/ Log!GenerateKey \/ Log!WriteKey \/ Log!Load
  /\ UNCHANGED <<stage, mode, at, stop, keys, held, active, history>>

LogRefused ==
  /\ stage = "startup" /\ status = "failed"
  /\ End("refused")
  /\ UNCHANGED faults

LogEvent ==
  /\ stage \in {"startup", "shutdown"}
  /\ Log!BuildEntry(Main, [event |-> stage, run |-> run])
  /\ UNCHANGED <<stage, mode, at, stop, keys, held, active, history>>

AfterCall ==
  CASE stage = "startup"  -> "session"
    [] stage = "shutdown" -> "seal"
    [] stage = "seal"     -> "close"

\* A call goes on, and main() with it once the call has returned.
LogCall ==
  /\ \/ Log!PublishEntry(Main) \/ Log!SaveOpen(Main) \/ Log!SaveWrite(Main)
     \/ Log!CheckpointDue(Main) \/ Log!CheckpointNotDue(Main)
     \/ stage = "seal" /\ Log!ForceCheckpoint(Main)
  /\ stage' = IF pc'[Main] = "idle" THEN AfterCall ELSE stage
  /\ UNCHANGED <<mode, at, stop, keys, held, active, history>>

\* Mutant of NothingToSeal: the shutdown is not sealed.
NeverSeal ==
  /\ stage = "seal" /\ pc[Main] = "idle"
  /\ stage' = "close"
  /\ UNCHANGED <<mode, at, stop, keys, held, active, history, logVars, faults>>

\* The shutdown entry fell on a checkpoint boundary.
NothingToSeal ==
  /\ stage = "seal" /\ pc[Main] = "idle"
  /\ Len(entries) - 1 <= Log!LastCheckpointEnd(checkpoints)
  /\ stage' = "close"
  /\ UNCHANGED <<mode, at, stop, keys, held, active, history, logVars, faults>>

\* A failed save leaves main(), from within finally as well.
LogCallFails ==
  /\ Log!SaveFails(Main)
  /\ stage' = "raised"
  /\ UNCHANGED <<mode, at, stop, keys, held, active, history>>

Raised ==
  /\ stage = "raised"
  /\ End("failed")
  /\ UNCHANGED faults

-----------------------------------------------------------------------------
(* The session, the loop and the passes.                                   *)

SaveStore(from, to, flag) ==
  /\ stage = from /\ stage' = to
  /\ active' = flag
  /\ UNCHANGED <<mode, stop, keys, held, history, logVars, faults>>

\* Mutant of StartSession: waits for a session that somebody else ends.
StartSessionOnce == ~ active /\ SaveStore("session", "scan", TRUE) /\ UNCHANGED at

\* Once the session is saved the signal handlers are installed.
StartSession == SaveStore("session", "scan", TRUE) /\ UNCHANGED at

Pass(next) == at' = next /\ UNCHANGED <<stage, mode, stop, keys, held, active, logVars, faults>>

\* scan_once finds nothing: one file after another is written.
WriteUnderKey ==
  /\ stage = "scan" /\ at <= Len(Writes(mode))
  /\ LET f == Writes(mode)[at] IN used' = [used EXCEPT ![f] = @ \cup {held[f]}]
  /\ Pass(at + 1)
  /\ UNCHANGED <<run, ended, cut>>

\* It finds something, or scans nothing: neither backup nor seal.
SkipWrites ==
  /\ stage = "scan" /\ at = 1
  /\ Pass(Len(Writes(mode)) + 1)
  /\ UNCHANGED history

\* The pass ends with a turn; now the loop runs, and signals with it.
AddTurn ==
  /\ at > Len(Writes(mode)) /\ at' = 1
  /\ SaveStore("scan", "wait", TRUE)

\* Any step of any pass may raise, no write of its own need fail for it: the
\* newest backup is one that an earlier process left torn, or the file cannot
\* be scanned.  "except Exception" logs it, finally follows.
PassRaises ==
  /\ stage = "scan"
  /\ stage' = "shutdown" /\ at' = 1
  /\ UNCHANGED <<mode, stop, keys, held, active, history, logVars, faults>>

\* Mutant of NextPass: "while True".
NextPassAlways ==
  /\ stage = "wait"
  /\ stage' = "scan"
  /\ UNCHANGED <<mode, at, stop, keys, held, active, history, logVars, faults>>

\* The wait timed out and the event is not set.
NextPass ==
  /\ stage = "wait" /\ ~ stop
  /\ stage' = "scan"
  /\ UNCHANGED <<mode, at, stop, keys, held, active, history, logVars, faults>>

\* The loop was stopped.
Stopped ==
  /\ stage = "wait" /\ stop
  /\ stage' = "shutdown"
  /\ UNCHANGED <<mode, at, stop, keys, held, active, history, logVars, faults>>

\* SIGINT or SIGTERM, once the handlers are there.
Signal ==
  /\ stage \in {"scan", "wait", "shutdown", "seal", "close"} /\ ~ stop
  /\ stop' = TRUE
  /\ UNCHANGED <<stage, mode, at, keys, held, active, history, logVars, faults>>

\* Mutant of CloseSession: the store is not saved at shutdown.
CloseUnsaved == SaveStore("close", "leave", active) /\ UNCHANGED at

\* repmhl.shutdown().
CloseSession == SaveStore("close", "leave", FALSE) /\ UNCHANGED at

Leave ==
  /\ stage = "leave"
  /\ End("clean")
  /\ UNCHANGED faults

-----------------------------------------------------------------------------
\* A key file that cannot be filled, a store or a profile not replaced.
WriteFails ==
  /\ stage \in {"fill", "session", "close", "leave"} /\ Fault
  /\ End("failed")

\* A kill or a power loss, or a signal before there are handlers.
Kill == Fault /\ End("killed")

Step ==
  \/ ReadKey \/ KeyRefused \/ CreateKey \/ FillKey
  \/ OpenLog \/ LogRefused \/ LogEvent \/ LogCall \/ NothingToSeal \/ Raised
  \/ StartSession \/ WriteUnderKey \/ SkipWrites \/ AddTurn
  \/ NextPass \/ Stopped \/ CloseSession \/ Leave

Next ==
  \/ \E env \in Environments : Start(env)
  \/ Step
  \/ Signal
  \/ LogCallFails \/ PassRaises \/ WriteFails \/ Kill

\* A process that is up is scheduled, and its writes and passes come to an end.
Spec == Init /\ [][Next]_vars /\ WF_vars(Step)

-----------------------------------------------------------------------------
(* Properties.                                                             *)

\* Types: the locals of main() and the files of the base directory have the
\* shapes main.py:32-79 and the constructors it calls give them.
TypeOK ==
  /\ stage \in {"down", "open", "fill", "startup", "session", "scan", "wait",
                "shutdown", "seal", "close", "leave", "raised"}
  /\ mode \in Modes /\ at \in Nat \ {0} /\ stop \in BOOLEAN
  /\ keys \in [KeyFiles -> [state : {"absent", "torn", "ok"}, key : Nat]]
  /\ held \in [KeyFiles -> Nat]
  /\ active \in BOOLEAN
  /\ run \in Nat /\ used \in [KeyFiles -> SUBSET Nat]
  /\ ended \in Seq({"refused", "killed", "failed", "clean"})
  /\ cut \subseteq KeyFiles \cup LogFiles

\* What any process has written under a key - backups and seals - the next can
\* read and verify: the key is in its file, through kills and failed
\* writes anywhere in a start, and through changes of mode
\* (encryption.py:64-73, tamper_lock.py:44-58, backup_manager.py:163-165).
KeysOutliveTheirUse ==
  \A f \in KeyFiles : \A k \in used[f] : keys[f] = Whole(k)

\* A start is refused only if an earlier process was killed, or failed, in the
\* middle of a write to a file that this mode opens; any other end, and damage
\* to the replica of another mode, leaves a directory that can be opened
\* (encryption.py:64-66, immutable_log.py:112-114, 135-138, policy.py:101-105).
RefusedOnlyAfterCut ==
  stage = "down" /\ ended # <<>> /\ ended[Len(ended)] = "refused" =>
    cut \cap Needs(mode) # {}

Recorded(event, r, i) == disk.entries[i].data = [event |-> event, run |-> r]

\* The log that can be read tells how each process ended: every "shutdown"
\* comes right after the "startup" of its own process, and a process that ran
\* its finally clause to the end has both, under a checkpoint; so a "startup"
\* with no "shutdown" after it is a process that did not (main.py:59, 75-76).
AuditTells ==
  disk.state # "torn" =>
    /\ \A i \in 1 .. Len(disk.entries) : \A r \in 1 .. run :
         Recorded("shutdown", r, i) => i > 1 /\ Recorded("startup", r, i - 1)
    /\ \A r \in 1 .. Len(ended) :
         ended[r] = "clean" =>
           \E i \in 1 .. Log!LastCheckpointEnd(disk.checkpoints) + 1 :
             Recorded("shutdown", r, i)

\* A process that left in order is the last word of the log, all of which is
\* then under checkpoints, and leaves no session active (main.py:74-79).
LeavesSealed ==
  stage = "down" /\ run > 0 /\ ended[run] = "clean" =>
    /\ disk.state = "ok" /\ Recorded("shutdown", run, Len(disk.entries))
    /\ Log!LastCheckpointEnd(disk.checkpoints) = Len(disk.entries) - 1
    /\ ~ active

\* A signal the handlers took ends the process, whatever the pass under way
\* does and whatever fails in the finally clause (main.py:66-79,
\* self_fixer.py:48-54).
StopHonoured == stop ~> stage = "down"

\* When none of the files its mode opens was left half written and no write
\* fails any more, a start comes to its first pass, whatever session, log, other
\* replica or state of the keys the processes before it left; that the pass may
\* raise is PassRaises (main.py:32-71).
StartServes ==
  (stage = "open" /\ cut \cap Needs(mode) = {} /\ faults = MaxFaults) ~> stage = "scan"
=============================================================================
