# Sovereign Self-Fixer: TLA+ models and proofs

The Sovereign Self-Fixer is an asyncio service that watches one source file:
it puts the file back when it disappears, scans it, backs it up, seals its
digest, and records what it does in a hash-chained audit log. Everything it
promises is about files it rewrites in place, threads and other programs that
touch the same files, and processes that end at a bad moment. These modules
model that code as it is written, check it with TLC on small instances, and
prove the central invariants with TLAPS for every instance.

Source paths below are relative to `src/selffixerai/` unless they start with
`tests/` or name a file at the top of the repository.

## 1. Inventory

| component | code | state | operations | what makes it correct |
|---|---|---|---|---|
| Immutable audit log | `core/immutable_log.py` | entries, checkpoints, lock, private key; the log file and the key file | construct, `append`, `force_checkpoint`, `verify_chain`, `_save`, `_load` | an unbroken chain; checkpoint windows that tile it; acknowledged entries survive; no false alarm |
| Backup manager | `core/backup_manager.py` | one directory of `*.bak.enc`, `*.manifest`, `*.blob` | `create_backup` (path or bytes), `_prune`, `list_backups`, `restore_backup` | a restore is faithful or raises; the history is bounded and is not eaten; no manifest without its blob |
| Self-fixer loop | `core/self_fixer.py` | the monitored file, the pass in progress | `run`, `scan_once`, `_restore_missing_target` | what is backed up and sealed is what was scanned; a missing file comes back; an intact backup remains |
| Tamper lock | `security/tamper_lock.py` | the signed state file, `_previous_hash` | `seal`, `refresh`, `verify`, `load_snapshot` | no alarm without a change; a chain of digests |
| Deep scanner | `analysis/deep_scanner.py` | none | `scan_file` | findings, none, or an exception: a function of the bytes it reads |
| Service entry point | `main.py` | the event loop, `stop_event` | start, signal, shutdown sequence | a signal ends the process between passes; the log tells how each process ended |
| Mode orchestrator | `core/orchestrator.py` | lazily built services | properties, `log_event` | each service is built once, from files an earlier process left; the log sees every event |
| Encryption manager | `security/encryption.py` | the master key and its file | construct, `encrypt`, `decrypt` | a key that something was written under is never lost |
| Policies | `core/policy.py` | values of a mode or a file | `from_env`, `load` | any value of the environment is a mode; bounds on intervals and retention |
| Authority and SCAR ledger | `authority.py` | identity file, backups of it, append-only ledger | `rotate`, `issue_capability`, `verify_capability`, ledger `append`/`verify` | the ledger's chain and sequence numbers; the identity in use is the ledger's last |
| REPMHL memory | `memory/repmhl.py` | turns, token count, loaded model, store file | `process_turn`, `prune`, `shutdown`, `_save`, `_load` | the token budget; the store is the newest list of turns |
| TPM, PQC, profiles, canonical JSON, notifications | `security/`, `crypto/`, `notifications.py` | key files | pure functions, external tools | taken as their contracts |
| RAG pipeline, voice conductor | `memory/rag_pipeline.py`, `skills/` (top level) | none of their own | thin wrappers | not modelled |

How they meet. `main.py` builds the orchestrator, asks it for its services and
runs one `SelfFixer` until a signal sets `stop_event`. The loop calls `scan_once`
in the event loop itself: a pass calls the scanner, each backup manager and the
lock one after the other, and awaits nothing, so a signal is acted on between
passes only, where the loop waits for the event with the scan interval as its
timeout (`self_fixer.py:48-54`). All of them read the monitored file for
themselves, and nothing stops other programs from writing it in between. The audit log is called from `main.py` and from
`ModeOrchestrator.log_event`, and it is written to be called from several
threads: it has a lock, which `verify_chain` does not take. No component has a
write-ahead log, and only `authority.py` (`_atomic_write`) and `memory/repmhl.py`
(`_atomic_write_json`) replace a file atomically: elsewhere `Path.write_text` and
`write_bytes` truncate first and fill afterwards. The ledger is appended to.

What is hard here, and what the properties are aimed at (`hazards` in
`PROJECT.json` names each line):

- the step between truncation and filling, of the log, of its key, of a backup,
  of the monitored file and of the state file: a process that ends there;
- the four separate reads of one file in one pass, with other writers around;
- `append` failing half way: the entry stays in memory, the file is behind, a
  checkpoint boundary is passed over;
- a reader of a list that a writer is extending;
- retention counts and names at the limit: which backup goes, when two are made
  in the same second or the same tick of `st_mtime`;
- values a policy file may set that the code divides by;
- the ledger's check, read and append, between which another process may write;
- what the memory engine does to its counters, and saves, outside its lock;
- a store or an identity file that outlives the process and meets another one;
- the key files, each created by the first process that needs it and read by all
  later ones, in whatever mode they run;
- the steps of the `finally` clause of `main()`, of which one that raises skips
  the rest.

## 2. The modules

    FailStopLog <--refined by-- ImmutableLogRefinement --> ImmutableLog
                                        ^                      ^
                                ImmutableLogProofs        MCImmutableLog

         Service <-- MCService, ServiceProofs <-- ServiceLogProofs
            (one thread of ImmutableLog, INSTANCE; ServiceLogProofs has
             ImmutableLogProofs in the same way)

    BackupManager <-- MCBackupManager, BackupManagerProofs

    TamperLock <-- SelfFixer <-- MCSelfFixer
                       ^
                 SelfFixerProofs

    ScarLedger <-- Authority <-- AuthorityRefinement <-- MCAuthority, AuthorityProofs
                                        |
                                        +--refines--> TamperEvidentTrail

    Repmhl <-- MCRepmhl, RepmhlProofs

(`MCImmutableLog` and `ImmutableLogProofs` both extend the refinement module.)

### ImmutableLog

One `ImmutableLog` object, the threads that call it and its two files.

| model | code |
|---|---|
| `status` | where the constructor is: `down` (no process), `keying` (key file opened), `loading`, `running`, `failed` (the constructor raised) |
| `key_file`, `disk` | the two files, each `absent`, `torn` (truncated and not filled) or `ok` |
| `entries`, `checkpoints`, `private_key`, `lock` | the object's attributes |
| `pc[w]`, `draft[w]` | the statement a caller is at inside `append` or `force_checkpoint`, and its local `entry` |
| `cursor[r]`, `verdict[r]` | the iteration of `verify_chain` and its answer |
| `acked` (history) | the length of the log when a call last returned normally |
| `LoadKey`, `GenerateKey`, `WriteKey`, `Load` | `__init__`, one step for each file operation |
| `BuildEntry`, `PublishEntry`, `SaveOpen`, `SaveWrite`, `CheckpointDue`, `CheckpointNotDue`, `ZeroInterval` | `append`, with `_save` in two halves, twice when a checkpoint is due |
| `ForceCheckpoint` | `force_checkpoint`, followed by the two halves of `_save` |
| `SaveFails` | an `OSError` in either half: the call ends, the file is left as it was then |
| `StartVerify`, `VerifyStep` | `verify_chain`, one entry for each step, without the lock |
| `Crash` | the process ends anywhere |

A digest is modelled by what it digests, so two digests are equal when their
inputs are; a signature is modelled by the key that made it.

`FailStopLog` says what a caller may count on: a list that grows, that a crash
cuts back at most to what was acknowledged, and that refuses to open as a whole
rather than come up short. `ImmutableLogRefinement` maps the code's state to it
(the list in memory while the process runs, what the next constructor would
load otherwise).

### Service

`main.py` as one process after another on one base directory. `stage` is where
`main()` is, and the audit log is `ImmutableLog` itself, instantiated with the
one thread that calls it (`Log`). A step of `Service` is for the log a step of that
module, the end of the process, or nothing (`LogSees`, in `ServiceLogProofs`), so
what is proved of `ImmutableLog` with any writers holds of the log here.

    open / fill --> startup --> session --> scan <--> wait
                                              |         |
                                              v         v
                                            shutdown <--+ --> seal --> close --> leave

| model | code |
|---|---|
| `Start`, `ModeOf` | `RuntimePolicy.from_env` and the start of `main()`, with any value of `SOVEREIGN_MODE` |
| `Opens`, `ReadKey`, `CreateKey`, `FillKey`, `KeyRefused` | the constructors of `EncryptionManager`, `TamperLock` and the backup managers, in the order `main()` makes the orchestrator build them: a key file is read, or created and filled in place; one of the wrong length makes the constructor raise |
| `OpenLog`, `LogRefused` | the first `log_event`, which constructs the log |
| `LogEvent`, `LogCall`, `LogCallFails` | `log_event("startup")`, `log_event("shutdown")` and `force_checkpoint`, statement by statement |
| `NothingToSeal` | `force_checkpoint` when the shutdown entry fell on a boundary |
| `StartSession`, `AddTurn`, `CloseSession` | the session in the memory store, replaced as a whole |
| `WriteUnderKey`, `SkipWrites` | a pass, seen by the keys it writes under; what it does to the monitored file is `SelfFixer`'s |
| `PassRaises`, `Raised` | a pass that raises, as it may at any time and for no new reason (the file cannot be decoded, the newest backup is torn), goes on to `finally`; a step of `finally` that raises leaves `main()` |
| `NextPass`, `Stopped`, `Signal` | `SelfFixer.run` and the signal handlers |
| `Kill`, `WriteFails` | the process ends at any step; a write raises |

A backup made from a path is encrypted and not signed, so a pass uses the master
key for each directory, then the two keys of the lock (`Writes`). A key is named
by the process that made it. `used` and `ended` are histories: the keys
something was written under, and how each process ended; `cut` is the set of files,
keys and log, that a kill or a failed write left half written. `Needs(mode)` are the
ones a start in that mode reads, so that a file cut in one mode excuses no refusal
in another.

### BackupManager

One directory and one caller. `files` holds the manifests and the `*.bak.enc`
files, `blobs` the blobs of the manifests; `call` and `pc` are the call in
progress. The actions follow the code's file operations: a path is opened and
filled (`CreateLegacy`, `Fill`); bytes are stored as a blob, opened and filled,
then as a manifest, opened and filled (`CreateManifest`, `FillBlob`,
`OpenManifest`, `Fill`); `Prune` lists the directory once and takes the oldest
beyond the retention count; `Unlink` and `UnlinkBlob` remove them in that order;
`CutShort` is a crash or an `OSError` at any of these points; a file it leaves behind
holds nothing that can be read. The order of the
listing is the code's: `st_mtime`, then the name. `restore_backup` changes
nothing in the directory and is an operator, `RestoreBackup`.

The clock is explicit, because two of the names carry a second and the order
depends on ticks of `st_mtime`: `TicksPerSecond` relates the two and `MinGap`
says how far apart the callers keep their calls.

### TamperLock and SelfFixer

`TamperLock` holds the lock's variables and operations (`SealRead`, `SealOpen`,
`SealWrite`, `Verified`); `SelfFixer` extends it and is the composition: the
loop, the monitored file, one or two backup directories and the lock. `pc` is
the next step of `scan_once`, and every statement that reads or writes the file
is a step of its own, so `Edit` (anybody writes or removes the file) and `Crash`
come between any two of them:

    check --> scan --> backup --> fillBackup --> hash --> openState --> writeState --> sleep
      |                   ^           | (replica)
      |                   +-----------+
      +--> restore --> open --> fillTarget --> restored --> scan
      +--> initialize --> sleep

An exception ends the pass, the loop and the process, as it does in `main.py`, and
nothing restarts the process but `Start`. A pass raises when the file is gone as it
is read, when its bytes cannot be decoded (`Unscannable`, `deep_scanner.py:89-91`),
when the newest backup does not decrypt, and when a restore has completed and the
file is missing (`CheckRestored`, `self_fixer.py:124-127`). The last needs somebody
to remove the file while the restore writes it: `linked` says that the file the
restore opened is still the monitored one, and `FillTarget` fills a file without a
name when it is not.

The scanner is two sets: `Clean`, the contents in which it finds nothing, and
`Unscannable`, those on which it raises. `Startable` is what the file may hold when
a process starts. `main.py` monitors itself (`main.py:33`), so as wired a process
starts only where the file is a program that runs; `SelfFixer` as a class watches any
file, which any process may start with. Backups
are kept oldest first, because passes are at least a second apart (the scan
intervals in `core/policy.py:27-43` are 2 to 5 seconds); `BackupManager` has the
case in which they are not. `newest` is the set of directories whose last
backup may have the latest `st_mtime`: with a replica the two are made one right
after the other and either may be picked.

`stale` is a history variable: which of the reads of the current pass, and
whether the digest in the seal, a later write to the file has overtaken. It is
what lets a property say "unless somebody wrote in between".

### ScarLedger and Authority

`ScarLedger` holds the ledger file and what reads and writes it: `Parses` is
`_events`, `Verifies` is `verify`, `NextEvent` is the event `append` builds.
Appending is not atomic: a write that raises or is killed leaves nothing, a line
no reader can parse, an event without its newline, which the next write runs into,
or the whole line, when it is `fsync` that raises and the caller sees a failure for
an event that is in the ledger (`CutShort`, `Written`).

`Authority` extends it with the objects that share the directory. A call is a
sequence of file operations, each a step of its own:

    CreateIdentity --> StoreIdentity -----+
    BeginRotate --> ReplaceIdentity ------+--> Verify --> ReadEvents --> WriteEvent
    BeginIssue ---------------------------+

`verify` and `_events` read the file separately, and nothing keeps another
object from appending in between: `overtaken` marks the calls under which the
ledger changed, `raced` is set when such a call writes, and `forked` when an
object replaces an identity it did not hold. They are what lets a property say
"unless calls raced". `_atomic_write` replaces the file in one step
(`ReplaceFile`), and when it raises it may have done so already: `os.chmod` comes
after `os.replace` (`authority.py:49-50`), and `StoreFails` has both outcomes.
`verify_capability` changes
nothing and is the operator `VerifyCapability`. Authorizations and expiry times
only ever refuse a call before it changes anything, and are left out. As shipped
the module imports `.canonical`, which the package has as `crypto/canonical.py`,
and cannot be imported; what is modelled is the logic with that import mended.

`TamperEvidentTrail` is what a reader of the ledger may count on, however many
objects write to it without a lock: the events that verify are a list that only
grows, of which the last may be taken back as long as its newline is missing, and
which never changes again once something behind it does not verify.
`AuthorityRefinement` maps the ledger to it: `Verified` counts the lines before the
first that is not in the chain.

### Repmhl

One object, the threads that call it and its store. A turn is its timestamp.

| model | code |
|---|---|
| `chain` | the length of `model_chain` in the process's configuration, 0 when there is no process |
| `memory`, `active`, `current_model_index`, `token_count`, `max_tokens`, `lock` | the attributes |
| `pc[t]`, `call[t]` | the statement a thread is at, the operand it has read, its turn and the payload of its save |
| `Load` | the constructor: `_load`, with the store that is moved away when it raises |
| `Begin`, `AddTokens`, `BuildTurn`, `BuildRaises`, `AppendTurn`, `CheckTurn` | `process_turn`; `AddTurn` enters at `BuildTurn` |
| `ReadIndex`, `WriteIndex`, `ResetTokens`, `SetBudget` | `_rotate_model` |
| `ReadBudget`, `SetBudget` | the extension |
| `SaveCounters`, `SaveTurns`, `Replace`, `SaveFails` | `_save` outside the lock; under it the payload is taken by the step that changes the state |
| `PruneMemory`, `Session` | `prune_memory`; `start_session`, `end_session`, `shutdown` |

What `process_turn` does around `_append_turn` runs without the lock, so a
statement that reads an attribute, makes a call and writes is two steps: the
interpreter may switch threads at the call. `overtaken[t]` says that another save
has come after the payload of `t` was begun; `stale` that such a payload did
replace the store, until the next save replaces it again; `behind` that a save is
missing that the next one makes up
for. `alone[t]` and `checked` single out the calls no other overlapped,
`overlapped` the processes in which any did. `later` holds the pairs of turns of
which the first came into memory after the second, through saves and restarts:
it is what `RecallsRecent` compares the memory with. `acked` are the turns still
promised: those whose append returned and that no `prune_memory` has taken out, no
store that was moved away has taken with it, and no process has started without after
one that ended while the store was `stale`. The scores by which `prune_memory` chooses are arbitrary, and so is what
`_dedupe_semantic` drops before the choice: any number of turns up to the one asked
for may remain.

## 3. The runs

| run | instance | checks | result |
|---|---|---|---|
| `log_core` | 2 writers, 1 reader, 2 data values, 2 keys, interval 2 or 0, up to 4 entries, 2 faults | types, `ChainIntact`, `CheckpointsTile`, `CheckpointsVerifiable`, `NoFalseAlarm`, `AckedOnDisk`, `CheckpointLag`; implements `FailStopLog` | holds |
| `log_torn_save` | interval 2, 2 entries, 1 fault | `RecoverableAfterExit` | violated |
| `service_lifecycle` | 3 processes, `SOVEREIGN_MODE` "hybrid", "online" or no mode, checkpoint interval 3, 2 kills or failed writes, passes that raise at will | types, `KeysOutliveTheirUse`, `RefusedOnlyAfterCut`, `AuditTells`, `LeavesSealed`; `StopHonoured`, `StartServes` | holds |
| `backups_paced` | both formats, 2 contents, retention 2, 4 creations a tick apart, 2 of them cut short | types, `ManifestHasBlob`, `RestoreFaithful`, `HistoryBounded`, `HistoryRetained`, `OrphansAccounted`, `ReturnedExists` | holds |
| `backups_same_tick` | two creations in one tick, retention 1 | `ReturnedExists` | violated |
| `fixer_hybrid` | primary and replica, retention 1, 2 clean contents, 1 with findings, 1 that is no text and the empty one, 3 edits, 2 crashes; starts with a program, as wired | types, `OneReadingPerPass`, `SomeBackupIntact`, `NoFalseAlarm`, `RestoredWhole`; `MissingIsHandled`, `SealCatchesUp` | holds |
| `fixer_torn_restore` | the same contents, retention 2, 2 edits, 1 crash; starts with anything | `RestoredWhole` | violated |
| `authority_two_objects` | 2 objects, 3 identities, ledgers of up to 4 lines when a call begins, 2 faults | types, `LedgerChained`, `FailsClosed`, `LeasesHonoured`, `SignersKept`, `IdentityOnRecord`; implements `TamperEvidentTrail` | holds |
| `authority_failed_rotation` | 1 object, 1 fault | `RotationAllOrNothing` | violated |
| `memory_threads` | 2 threads, 2 turns kept of up to 3, chains of 1 and 2 models, 1 fault, damage between processes | types, `StoreCurrent`, `RecallsRecent`, `BudgetKept` | holds |
| `memory_shorter_chain` | 1 thread, the same otherwise | `OnlyCorruptQuarantined` | violated |

### Why these bounds are enough

- Log: four entries at interval 2 give two automatic windows, room for a forced
  checkpoint inside each, and a boundary that a failed save steps over and a
  later append closes. Two faults allow a failed save followed by a crash, and a
  crash in the key file followed by one in the log. Two writers are all the lock
  can tell apart; one reader suffices because readers do not affect each other.
- Service: three processes are one that is cut short, one that is refused or goes
  on with what was left, and one after it; with two faults either of the first
  two may be cut, or one of them twice. A pass that raises uses up no fault. The
  modes in use differ in their replica's key file, and the
  value that is no mode must be taken for ghost, which has none. At interval 3 the
  shutdown entry of a process falls on a boundary or between two, depending on
  how the processes before it ended.
- Backups: four creations against retention 2 prune twice; two calls cut short
  leave a torn file that counts in one prune and an orphan blob, or two of
  either. One token is enough where callers are a tick apart (names differ by
  their second); two are needed where they are not.
- Fixer: three edits are a change, a removal, and a change between two reads of
  the pass that repairs it; two crashes are one in the middle of a backup or a
  seal and one in the middle of what the next process does about it. Retention 1
  is the tightest case of pruning: one mistake leaves nothing.

- Authority: four lines hold a genesis, a rotation and two leases, or what two
  objects write over each other; the last two calls may take the ledger beyond
  the bound. Three identities are two genesis events and a rotation. Two faults
  are a torn write and a crash in the call that meets it.
- Memory: tokens are counted in thousands, with the base of 8 and the forced
  rotation at 12 of `DEFAULT_CONFIG` and an extension of 5, so that two turns of
  5 or 7 reach a rotation by the budget, an extension, and a rotation forced
  below the extended budget. `MaxBuilt` is checked when a turn begins, so two
  threads together build a third, which pushes one out of a memory of two.
  `MaxCount` bounds the count where no turn can be built any more.

The bounds `MaxEntries`, `MaxFaults`, `MaxTime`, `MaxCreates`, `MaxEdits`,
`MaxLines`, `MaxBuilt`, `MaxCount` and `MaxRuns` are guards in the actions; the
proofs hold for any values of the ones they meet.

`CHECK_DEADLOCK FALSE` is set where the system may stop: in the log, the service,
the backups, the authority and the memory the callers may stop calling (the bounds
are used up), and in `fixer_hybrid` a file that others left missing, or in a state
that is no program, starts nothing. `fixer_torn_restore` checks for deadlock.

### Fairness

`SelfFixer` states `WF_vars(Pass \/ Wake)`. A step of a pass waits for nobody (file
operations and a synchronous scan), and the sleep between passes is
`asyncio.wait_for` with a timeout (`self_fixer.py:48-54`), so a loop that is
running takes its next step. `Start`, `Stop`, `Edit` and `Crash` have no fairness:
nothing in the code starts the process again.

`Service` states `WF_vars(Step)`: a process that is up is scheduled, and its file
operations and passes come to an end. `Start`, `Signal` and the faults have no
fairness.

### What the violated runs show

Each states a sentence of the repository; the counterexample is a run of the
code.

- `RecoverableAfterExit` (`core/immutable_log.py:20`, "The log is append-only;
  entries are never modified or deleted."): `_save` truncates the log file and
  then fills it. A process that ends in between leaves a file `json.loads`
  refuses, and every acknowledged entry is gone with it. What does hold, and is
  proved, is `AckedOnDisk`: a file that can be read is complete.
- `ReturnedExists` (`tests/test_self_fixer.py:206`): two creations in one tick of
  `st_mtime` are ordered by a random token or by their format, so the prune inside
  `create_backup` may remove the very backup it returns. With callers a tick
  apart it holds (`backups_paced`).
- `RestoredWhole` (`tests/test_self_fixer.py:180`): a restore cut short between
  truncation and filling leaves an empty file, in which the next pass finds
  nothing: it is backed up and sealed in place of the program. It takes a
  start that does not need the file. `main.py` watches itself, and an emptied
  `main.py` makes no passes: as wired the property holds (`fixer_hybrid`, and
  `RestoredAsWired` for every instance). It is a behaviour of the class, which its
  tests give other files.
- `RotationAllOrNothing` (`tests/test_pqc_authority.py:72-75`): `rotate` replaces
  the identity on disk and in memory before it writes to the ledger. When that
  write raises, or the ledger holds a line that was cut, the caller sees a failed
rotation, and has the new identity, of which the ledger knows nothing. The
  test quoted is of a rotation without authorization, which raises before it changes
  anything; what it asserts after the exception, that the identity is the old one,
  is not so after an exception of the ledger.
- `OnlyCorruptQuarantined` (`memory/repmhl.py:380`, "memory store was corrupt and
  has been quarantined"): building a turn from the store looks up the model in
  use, whether or not the turn names one. A process configured with fewer models
  than the saved index moves an intact store away and starts with no turns; the
  index stays, and every turn after it raises (`BuildRaises`).

## 4. The proofs

Each module with state that outlives a step has a module of proofs. They hold for
any values of the constants that satisfy the named assumption of the module,
infinite sets included where it does not say finite, and for any number of
faults; the bounds of section 3 play no part in them.

`ImmutableLogProofs` (`LogAssumption`), for every interval, zero included: `TypeOK`,
`ChainIntact`, `CheckpointsTile`, `CheckpointsVerifiable`, `NoFalseAlarm`,
`AckedOnDisk`, `CheckpointLag`, the refinement of `FailStopLog`, and
`AckedNeverChange`, which says of steps what the refinement implies and has no run
of its own. The argument is one inductive invariant, `IInv`. The
properties are not inductive alone: `ChainIntact` needs that a draft is still the
next entry when it is published, which is `DraftInv`, which needs that only the
holder of the lock is inside a call, `LockInv`. `CheckpointsTile` needs that a
window about to be closed is not empty (`PendingInv`). `NoFalseAlarm` needs that a
reader's cursor agrees with the list it walks (`CursorInv`), and `AckedOnDisk` and
the refinement need that the file is a past value of the list (`DiskInv`) and that
what was acknowledged is still in memory (`AckedInv`). The lemmas before the steps
say what `NewEntry`, `NewCheckpoint` and the prefix order do to a chain and to a
tiling. Each action has one step, and under it one for each conjunct it can
disturb. `CheckpointLag` has an invariant of its own on top, `LagInv`: of the
multiples of the interval that the log has passed, no more than the faults so far
(and the one of the call under way) come after the last checkpoint, in memory and
in the file; `NextRemainder` is the arithmetic.

`ServiceProofs` (`ServiceAssumption`): `TypeOK`, `KeysOutliveTheirUse` and
`RefusedOnlyAfterCut`. A key in memory is the key in its file (`KeysInv`), and each
file that a stage is past has been read or made (`HeldInv`), so a pass writes under
keys that are in their files. For a refusal, a file is half written only where its
own write is under way, or because that file was cut (`CutInv`), and `LogInv` says where the
audit log is at each stage of `main()`.

`ServiceLogProofs` (the same assumption) puts the two together: it takes
`ImmutableLogProofs` for the one thread of `main()` and proves `AuditTells`,
`LeavesSealed`, and that the log inside the service keeps `ChainIntact`,
`CheckpointsTile`, `CheckpointsVerifiable` and `AckedOnDisk` and implements
`FailStopLog`. A process of the service may also end when nothing fails, and
faults occur outside the log: `ExitPreserves`, `FaultPreserves` and `RefinedExit`
are the lemmas for that. The invariant of what the log says, `AuditInv`, is that
the list in memory and the file, as long as it can be read, both tell how the
processes so far ended (`ToldInv`); that the last entry is, at each stage, the one
the stage implies (`WordInv`), which is why a "shutdown" comes right after its own
"startup"; and how far the seal is (`SealInv`): the shutdown is in the file before
`force_checkpoint` is called, and when that returns, or has nothing to do because
the shutdown fell on a boundary, the last checkpoint ends at the last entry. The
last step needs `CheckpointsTile`: a checkpoint never reaches beyond the list.

`AuthorityProofs` (`AuthorityAssumption`, the objects are finitely many): `TypeOK`,
`LedgerChained`, `FailsClosed`, `LeasesHonoured`, `SignersKept`, `IdentityOnRecord`,
and the refinement of `TamperEvidentTrail`, races included.
A call that was not overtaken has, after its `Verify`, a ledger that verifies and,
after `ReadEvents`, lines equal to the ledger's (`CallKnows`). `FailsClosed` is
counted: the lines behind a broken one and the calls that have verified and not
yet written are together fewer than the objects (`LateInv`). `KeptInv` says that
every identity an object holds, or is about to be recorded under, is in use or
backed up. For `IdentityOnRecord`, the identity on disk is the ledger's last, or a
call is on its way to record one, and such a call, unless it was overtaken,
records the one on disk or is not the last on its way (`NamedInv`). The refinement
follows the file: a write adds a line or spoils an unfinished one, and no line
behind one that is not in the chain is reached by `verify` (`TrailWritten`).

`BackupManagerProofs` (`BackupAssumption`): `TypeOK`, `ManifestHasBlob`,
`RestoreFaithful`, `HistoryBounded`, `OrphansAccounted`, `ReturnedExists` when
`MinGap > 0`, and `HistoryRetained` when `MinGap >= TicksPerSecond`. `StoredInv` says
what every file of the directory holds, `CallInv` what a creation has done before
each of its steps. `BoundInv` needs that the listing is a total order, so that what
`Prune` takes leaves as many as are retained (`Oldest`, `Newest`). With paced
callers the backup of the call in progress is the newest, and so no victim
(`PacedInv`), and as many files remain as were returned, the torn ones being no
more than the calls cut short (`RetainedInv`).

`SelfFixerProofs` (`LockAssumption`, `FixerAssumption`) proves `TypeOK`,
`OneReadingPerPass`, `NoFalseAlarm`, `SomeBackupIntact` and, under the further
assumption that a process starts only with what somebody wrote, `RestoredWhole`
(`RestoredAsWired`), for any contents, any
retention, with or without a replica, and any number of edits and crashes. Its
invariant follows the pass: as long as the scan is not stale the file still is
what was scanned (`ScanInv`), and so are the bytes in hand (`PayloadInv`) and the
digest (`HashInv`); a write overtakes all reads at once, and a seal whose digest
was overtaken stays marked so (`StaleInv`), without which `WriteState` would break
`NoFalseAlarm`. For the backups, `IntactInv` says which directories the pass has
already completed; `RetainedKeepsLast` says that pruning keeps the backup just
made. For `RestoredWhole`, `WholeInv` says that, until a pass has created the
file empty, every intact backup, what a pass has in hand and, outside a restore, the
file itself is something that somebody wrote: the file a restore has truncated is met
by no pass, because the process that did so has ended and no other starts with it.

`RepmhlProofs` (`RepmhlAssumption`): `TypeOK`, with it that no more turns are kept
than allowed; `StoreCurrent`; `RecallsRecent`; and `BudgetKept` when the base budget
and the forced rotation are above zero. `BudgetInv` follows a call that no other
overlaps through `process_turn`: what it knows of the count and of the limits at
each of its steps (`PhaseInv`), and that a limit above the base was justified when
it was raised (`JustifiedInv`). `CurrentInv` says that an attribute the store does
not have yet has a save to come (`Pending`) whose payload holds it, or is marked
`behind`. For `RecallsRecent`, `RecallInv` says that the list in memory is in the
order `later` records and that what it no longer holds came before all it holds
(`OrderInv`), and that a turn that was acknowledged is in memory unless memory is
full. What a restart reads may be older than memory, so the same is said of every
copy that is, or may yet become, the store (`CopiesInv`): the store itself, and
the payload of each save that no other has overtaken, recall every acknowledged
turn or are full of later ones, but for a store that an overtaken save has replaced
and no later one yet (`stale`). Of the object the property is unconditional; of the
store it holds unless `stale`, and a save under the lock always ends that, since its
payload is the memory as it is. An append drops the front of the list only
(`Appends`), and nothing
unless the list is full (`AppendKeeps`).

Left to TLC: liveness (fairness is beyond the prover used here): `StopHonoured`,
`StartServes`, `MissingIsHandled` and `SealCatchesUp`. Every other property of a
passing run is proved, and so is `AckedNeverChange`.

## 5. What is not modelled, and why

- Cryptography is taken at its contract: digests are collision-free, a signature
  verifies under its own key only, an encrypted file that was cut short does not
  decrypt. `encrypt_file` and `decrypt_file` have no caller.
- The scanner's rules, formatting, notifications: they do not change the state the
  properties are about. Which contents raise, and which are clean, is a parameter.
  The TPM and the post-quantum tools are external programs.
- Two processes on one base directory at one time, and several callers of one
  backup directory: `main()` is meant to be the only one, and nothing in the code
  keeps a second from starting. The authority, which other programs construct, is
  the exception and is modelled with several objects.
- A process's first seal starts a new chain of digests (`previous_hash` is not
  read from the state file): the model's `Start` does the same, and no property
  relates the digests of two processes.
- In the memory engine: the learning profile (saved by `shutdown` only),
  embeddings, the index over them, and searches, which change nothing. Two stores
  moved away in one second share a name; the model's set of them has no names.
- Time in the authority: an expiry or an authorization only ever refuses a call,
  before it changes anything.
- The change log's unreleased entries on TPM NV indices and layered recovery have
  no code beside what is modelled here.

Some hazards are in the models, and no property forbids what the code does about
them, because nothing in the repository promises otherwise:

- an edit between the reads of one pass is backed up or sealed unscanned
  (`self_fixer.py:68-78`; `OneReadingPerPass` and `NoFalseAlarm` exempt it), and a
  missing file that is sealed is the same to `verify` as an empty one;
- a restore may overwrite a file that has just come back, only the newest backup is
  tried, and a file created empty is backed up and sealed by the next pass;
- two backups of a path in one second are one file (`HistoryRetained` keeps them
  apart);
- raced ledger writes break the chain (`LedgerChained` exempts them; `FailsClosed`
  and `ImplementsTrail` say what is left), and an object goes on with the identity it
  loaded after another has rotated it;
- two overlapping additions of tokens may count as one (`BudgetKept` speaks of calls
  that none overlaps), and a process that ends after an overtaken save has replaced
  the store, and before the next, has lost what the older list lacked.

## 6. Plan

Done: the audit log with its abstract specification and proofs; the service as
the composition of the key files, the log, the session and the loop, with
proofs; the backup manager, the repair loop with the tamper lock, the authority
with its ledger, and the memory engine, each with proofs.

Left, in this order:

1. Two processes on one log file: what of `FailStopLog` is left when each
   overwrites the other's file.
2. The Merkle root's duplication of an odd last leaf, as a pure function against a
   reference definition.
