------------------------------ MODULE SelfFixer ------------------------------
(***************************************************************************)
(* The repair loop of selffixerai/core/self_fixer.py as main.py runs it:   *)
(* the service, the monitored file that anyone may write or remove at any  *)
(* moment, one or two backup directories and the tamper lock.              *)
(*                                                                         *)
(* A pass (scan_once) looks whether the file is there, restores it from    *)
(* the newest backup if it is not, scans it, and, when the scan finds      *)
(* nothing, backs it up in each directory and seals it.  Each of these     *)
(* reads the file again.  An exception ends the pass, the loop and the     *)
(* process.  Passes are taken to be at least a second apart, so that no    *)
(* backup shares its name with another (BackupManager models that case).   *)
(*                                                                         *)
(* SelfFixer takes any file.  As wired it is given main.py, the program    *)
(* itself (main.py:33): Startable says which states of the file a process  *)
(* of the service can be started in.                                       *)
(***************************************************************************)
EXTENDS TamperLock

CONSTANTS
  Clean,       \* contents in which the scanner finds nothing
  Unscannable, \* contents on which scan_file raises: text it cannot decode
  Authored,    \* contents others write to the monitored file
  Startable,   \* what the file may hold, or Missing, when a process starts
  HasReplica,  \* policy.has_replica_backup
  retention,   \* backups each directory keeps
  MaxEdits,    \* bound: writes and removals by others
  MaxFaults    \* bound: crashes and failed writes

Managers == IF HasReplica THEN {"primary", "replica"} ELSE {"primary"}

\* An empty file parses, to nothing: the scanner has no finding on it.
ASSUME FixerAssumption ==
  /\ Clean \subseteq Contents /\ Empty \in Clean
  /\ Unscannable \subseteq Contents \ Clean
  /\ Authored \subseteq Contents
  /\ Startable \subseteq Contents \cup {Missing}
  /\ HasReplica \in BOOLEAN
  /\ retention \in Nat
  /\ MaxEdits \in Nat /\ MaxFaults \in Nat

VARIABLES
  backups,   \* manager -> its directory, oldest first: [state, content]
  newest,    \* the directories whose last backup may have the latest st_mtime
  pc,        \* the step of the pass that comes next
  manager,   \* whose create_backup comes next
  scan,      \* the content scan_file read in this pass
  payload,   \* the bytes read by the backup or restore in progress
  linked,    \* the file a restore has opened is still the monitored file
  stale,     \* history: the reads a later write to the file has overtaken
  initialized, \* history: a pass found no backup and created an empty file
  edits, faults \* history: how many of the bounds are used

passVars == <<pc, manager, scan, payload>>
history == <<stale, initialized, edits, faults>>
vars == <<target, lockVars, backups, newest, passVars, linked, history>>

-----------------------------------------------------------------------------
NoScan == Missing
Reads == {"scan", "hash", "seal"}

Init ==
  /\ target \in Authored \cup {Missing}
  /\ LockInit
  /\ backups = [m \in Managers |-> <<>>]
  /\ newest = {}
  /\ pc = "down" /\ manager = "primary" /\ scan = NoScan /\ payload = Empty
  /\ linked = FALSE
  /\ stale = Reads
  /\ initialized = FALSE
  /\ edits = 0 /\ faults = 0

\* _prune: what is left of a directory; retention 0 keeps everything.
Retained(directory) ==
  LET excess == Len(directory) - retention
  IN IF retention > 0 /\ excess > 0 THEN SubSeq(directory, excess + 1, Len(directory)) ELSE directory

Torn == [state |-> "torn", content |-> Empty]
Intact(content) == [state |-> "ok", content |-> content]
Newest(m) == backups[m][Len(backups[m])]

\* The process ends, stopped, killed or by an exception that leaves the pass.
End ==
  /\ pc' = "down"
  /\ manager' = "primary" /\ scan' = NoScan /\ payload' = Empty
  /\ linked' = FALSE
  /\ LockForget

Goto(step) == pc' = step /\ UNCHANGED linked

-----------------------------------------------------------------------------
(* The process starts, sleeps between passes and stops.                    *)

Start ==
  /\ pc = "down"
  /\ target \in Startable
  /\ Goto("check")
  /\ UNCHANGED <<target, lockVars, backups, newest, manager, scan, payload, history>>

\* asyncio.wait_for runs into its timeout.
Wake ==
  /\ pc = "sleep"
  /\ Goto("check")
  /\ UNCHANGED <<target, lockVars, backups, newest, manager, scan, payload, history>>

\* stop_event is looked at between passes only.
Stop ==
  /\ pc = "sleep"
  /\ End
  /\ UNCHANGED <<target, backups, newest, history>>

-----------------------------------------------------------------------------
(* One pass.                                                               *)

\* Mutant of CheckTarget: a missing file ends the pass.
CheckTargetOnly ==
  /\ pc = "check"
  /\ Goto(IF target # Missing THEN "scan" ELSE "sleep")
  /\ UNCHANGED <<target, lockVars, backups, newest, manager, scan, payload, history>>

CheckTarget ==
  /\ pc = "check"
  /\ Goto(IF target # Missing THEN "scan"
          ELSE IF newest # {} THEN "restore" ELSE "initialize")
  /\ UNCHANGED <<target, lockVars, backups, newest, manager, scan, payload, history>>

\* Mutant of ReadBackup: a backup that does not decrypt restores what it holds.
ReadBackupUnchecked ==
  /\ pc = "restore"
  /\ \E m \in newest : payload' = Newest(m).content
  /\ Goto("open")
  /\ UNCHANGED <<target, lockVars, backups, newest, manager, scan, history>>

\* _restore_backup of the newest backup: one that is torn does not decrypt,
\* and no other is tried.
ReadBackup ==
  /\ pc = "restore"
  /\ \E m \in newest :
       IF Newest(m).state = "ok"
         THEN /\ payload' = Newest(m).content
              /\ Goto("open")
              /\ UNCHANGED <<lockVars, manager, scan>>
         ELSE End
  /\ UNCHANGED <<target, backups, newest, history>>

\* destination_path.write_bytes truncates, then fills.
OpenTarget ==
  /\ pc = "open"
  /\ target' = Empty
  /\ stale' = Reads
  /\ pc' = "fillTarget" /\ linked' = TRUE
  /\ UNCHANGED <<lockVars, backups, newest, manager, scan, payload, initialized, edits, faults>>

\* What was opened may have been removed or replaced since: the bytes then go
\* to a file without a name.
FillTarget ==
  /\ pc = "fillTarget"
  /\ target' = IF linked THEN payload ELSE target
  /\ pc' = "restored" /\ linked' = FALSE
  /\ UNCHANGED <<lockVars, backups, newest, manager, scan, payload, history>>

\* "restore completed but target is missing" is raised when it is.
CheckRestored ==
  /\ pc = "restored"
  /\ IF target = Missing
       THEN End
       ELSE Goto("scan") /\ UNCHANGED <<lockVars, manager, scan, payload>>
  /\ UNCHANGED <<target, backups, newest, history>>

\* No backups available: write_text(""), and the pass does not scan.
InitializeTarget ==
  /\ pc = "initialize"
  /\ target' = Empty
  /\ stale' = Reads
  /\ initialized' = TRUE
  /\ Goto("sleep")
  /\ UNCHANGED <<lockVars, backups, newest, manager, scan, payload, edits, faults>>

\* Mutant of Scan: findings do not keep the pass from backing up and sealing.
ScanLeniently ==
  /\ pc = "scan"
  /\ IF target \in Unscannable \cup {Missing}
       THEN End /\ UNCHANGED stale
       ELSE /\ scan' = target
            /\ stale' = stale \ {"scan"}
            /\ Goto("backup")
            /\ UNCHANGED <<lockVars, manager, payload>>
  /\ UNCHANGED <<target, backups, newest, initialized, edits, faults>>

\* scan_file reads the file, and raises if there is none or it is no text; only
\* a clean one is backed up and sealed.
Scan ==
  /\ pc = "scan"
  /\ IF target \in Unscannable \cup {Missing}
       THEN End /\ UNCHANGED stale
       ELSE /\ scan' = target
            /\ stale' = stale \ {"scan"}
            /\ Goto(IF target \in Clean THEN "backup" ELSE "sleep")
            /\ UNCHANGED <<lockVars, manager, payload>>
  /\ UNCHANGED <<target, backups, newest, initialized, edits, faults>>

\* Mutant of OpenBackup: the directory is pruned before the backup is written.
OpenBackupPruned ==
  /\ pc = "backup"
  /\ IF target = Missing
       THEN End /\ UNCHANGED <<backups, newest>>
       ELSE /\ payload' = target
            /\ backups' = [backups EXCEPT ![manager] = Retained(Append(@, Torn))]
            /\ newest' = IF manager = "primary" THEN {"primary"} ELSE Managers
            /\ Goto("fillBackup")
            /\ UNCHANGED <<lockVars, manager, scan>>
  /\ UNCHANGED <<target, history>>

\* create_backup reads the file again, then opens the backup it is stored in.
\* The replica's is made right after the primary's: their times may be equal.
OpenBackup ==
  /\ pc = "backup"
  /\ IF target = Missing
       THEN End /\ UNCHANGED <<backups, newest>>
       ELSE /\ payload' = target
            /\ backups' = [backups EXCEPT ![manager] = Append(@, Torn)]
            /\ newest' = IF manager = "primary" THEN {"primary"} ELSE Managers
            /\ Goto("fillBackup")
            /\ UNCHANGED <<lockVars, manager, scan>>
  /\ UNCHANGED <<target, history>>

\* Mutant of FillBackup: the pass ends with the backups.
FillBackupOnly ==
  /\ pc = "fillBackup"
  /\ backups' = [backups EXCEPT ![manager] =
                   Retained([@ EXCEPT ![Len(@)] = Intact(payload)])]
  /\ IF manager = "primary" /\ HasReplica
       THEN manager' = "replica" /\ Goto("backup")
       ELSE manager' = "primary" /\ Goto("sleep")
  /\ UNCHANGED <<target, lockVars, newest, scan, payload, history>>

\* The backup is written and the directory pruned.
FillBackup ==
  /\ pc = "fillBackup"
  /\ backups' = [backups EXCEPT ![manager] =
                   Retained([@ EXCEPT ![Len(@)] = Intact(payload)])]
  /\ IF manager = "primary" /\ HasReplica
       THEN manager' = "replica" /\ Goto("backup")
       ELSE manager' = "primary" /\ Goto("hash")
  /\ UNCHANGED <<target, lockVars, newest, scan, payload, history>>

\* Mutant of Hash: the digest is that of the content scanned.
HashScanned ==
  /\ pc = "hash"
  /\ snapshot' = [code_hash |-> scan, previous_hash |-> previous_hash]
  /\ stale' = stale \ {"hash"}
  /\ Goto("openState")
  /\ UNCHANGED <<target, state_file, previous_hash, backups, newest, manager, scan,
                 payload, initialized, edits, faults>>

\* lock.refresh(), which reads the file once more, in three steps.
Hash ==
  /\ pc = "hash"
  /\ SealRead
  /\ stale' = stale \ {"hash"}
  /\ Goto("openState")
  /\ UNCHANGED <<target, backups, newest, manager, scan, payload, initialized, edits, faults>>

OpenState ==
  /\ pc = "openState"
  /\ SealOpen
  /\ Goto("writeState")
  /\ UNCHANGED <<target, backups, newest, manager, scan, payload, history>>

WriteState ==
  /\ pc = "writeState"
  /\ SealWrite
  /\ stale' = IF "hash" \in stale THEN stale ELSE stale \ {"seal"}
  /\ Goto("sleep")
  /\ UNCHANGED <<target, backups, newest, manager, scan, payload, initialized, edits, faults>>

-----------------------------------------------------------------------------
(* Everyone else.                                                          *)

\* The file is removed, replaced, or rewritten in place, between any two steps;
\* a restore that has opened it goes on to fill it only in the last case.
Edit ==
  /\ edits < MaxEdits
  /\ target' \in Authored \cup {Missing}
  /\ target' # target
  /\ edits' = edits + 1
  /\ stale' = Reads
  /\ linked' \in {FALSE, linked /\ target' # Missing}
  /\ UNCHANGED <<lockVars, backups, newest, passVars, initialized, faults>>

\* The process is killed, or a write raises: files stay as they are.
Crash ==
  /\ pc # "down"
  /\ faults < MaxFaults
  /\ faults' = faults + 1
  /\ End
  /\ UNCHANGED <<target, backups, newest, stale, initialized, edits>>

Pass ==
  \/ CheckTarget \/ ReadBackup \/ OpenTarget \/ FillTarget \/ CheckRestored
  \/ InitializeTarget \/ Scan \/ OpenBackup \/ FillBackup \/ Hash \/ OpenState \/ WriteState

Next == Start \/ Wake \/ Stop \/ Pass \/ Edit \/ Crash

\* A running loop goes on: no step of a pass waits for anything, and the sleep
\* between passes has a timeout.  Nothing restarts a process that has ended.
Spec == Init /\ [][Next]_vars /\ WF_vars(Pass \/ Wake)

-----------------------------------------------------------------------------
(* Properties.                                                             *)

Backup == [state : {"torn", "ok"}, content : Contents]

\* Types: the lock's variables and the locals of a pass have the shapes
\* self_fixer.py:28-101 gives them.
TypeOK ==
  /\ LockTypeOK
  /\ backups \in [Managers -> Seq(Backup)]
  /\ newest \subseteq Managers
  /\ pc \in {"down", "sleep", "check", "restore", "open", "fillTarget", "restored",
             "initialize", "scan", "backup", "fillBackup", "hash", "openState", "writeState"}
  /\ manager \in Managers
  /\ scan \in Contents \cup {NoScan}
  /\ payload \in Contents
  /\ linked \in BOOLEAN
  /\ stale \subseteq Reads
  /\ initialized \in BOOLEAN
  /\ edits \in Nat /\ faults \in Nat

\* What a pass is about to store or seal is what it scanned, and clean, unless
\* the file was written to after the scan: the four reads of one pass agree
\* (self_fixer.py:68-78).
OneReadingPerPass ==
  "scan" \notin stale =>
    /\ pc \in {"backup", "fillBackup", "hash", "openState", "writeState"} => scan \in Clean
    /\ pc = "fillBackup" => payload = scan
    /\ pc \in {"openState", "writeState"} => snapshot.code_hash = scan

\* Once a seal has been begun each directory holds a backup that can be restored,
\* through crashes in the middle of the next ones and the pruning that follows
\* (self_fixer.py:72-77, backup_manager.py:156-167, 197-203).
SomeBackupIntact ==
  state_file.state # "absent" =>
    \A m \in Managers : \E i \in 1 .. Len(backups[m]) : backups[m][i].state = "ok"

\* verify() raises no alarm on a file that was not written to since the digest
\* in its seal was taken, over any number of later passes, crashes and restarts
\* (tamper_lock.py:108-119).
NoFalseAlarm == state_file.state = "ok" /\ "seal" \notin stale => Verified

\* A file that is missing is put back, or the process ends: the loop does not
\* go on without it (self_fixer.py:48-66).
MissingIsHandled == target = Missing ~> (target # Missing \/ pc = "down")

\* When others leave the file alone, a running loop comes to a state in which
\* the seal matches it again, or keeps reporting findings (self_fixer.py:71-81).
SealCatchesUp == []<>(pc = "down" \/ Verified \/ target \notin Clean)

\* "assert target.read_text(...) == "print('restore me')\n"; assert lock.verify()"
\* (tests/test_self_fixer.py:180-181): a pass over a file that was backed up
\* ends with a file that somebody wrote, never one the restore left empty.  So
\* it is while a file left empty starts no process, as an emptied main.py does
\* not; where SelfFixer watches another file it is not.
RestoredWhole ==
  pc = "sleep" /\ ~ initialized => target \in Authored \cup {Missing}
=============================================================================
