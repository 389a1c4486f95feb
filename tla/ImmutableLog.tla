---------------------------- MODULE ImmutableLog ----------------------------
(***************************************************************************)
(* The audit log of selffixerai/core/immutable_log.py: one ImmutableLog    *)
(* instance, the threads that call it, and its two files.                  *)
(*                                                                         *)
(* append() and force_checkpoint() run under self._lock, verify_chain()    *)
(* does not.  _save() rewrites the whole log with Path.write_text, which   *)
(* truncates the file and then fills it, so a crash or a failed write      *)
(* between the two leaves a file json.loads refuses ("torn").              *)
(*                                                                         *)
(* A SHA3-512 digest is modelled, collision-free, by what it digests: the  *)
(* hash of an entry is the previous hash extended with the entry's fields, *)
(* and a Merkle root is the sequence of hashes under it.                   *)
(***************************************************************************)
EXTENDS Integers, Sequences, SequencesExt

CONSTANTS
  Writers,             \* threads calling append and force_checkpoint
  Readers,             \* threads calling verify_chain
  Data,                \* what an entry records: timestamp, event type, actor, data
  Keys,                \* Ed25519 keys that may be generated
  Nobody,              \* no thread, no key
  Intervals,           \* what a policy may say: 0 is not rejected
  MaxEntries,          \* bound: appends stop at this length
  MaxFaults            \* bound: crashes, exits and failed writes

ASSUME LogAssumption ==
  /\ Nobody \notin Writers \cup Keys
  /\ Intervals \subseteq Nat
  /\ MaxEntries \in Nat /\ MaxFaults \in Nat

VARIABLES
  checkpoint_interval, \* self.checkpoint_interval, the same in every process
  status,       \* the instance: down, keying, loading, running or failed
  key_file,     \* [state, key]: the private key on disk
  private_key,  \* self._private_key
  entries,      \* self._entries
  checkpoints,  \* self._checkpoints
  disk,         \* [state, entries, checkpoints]: the log file
  lock,         \* holder of self._lock
  pc,           \* where each writer is
  draft,        \* the entry each writer has built and not yet published
  cursor,       \* [at, prev]: how far each verify_chain has read
  verdict,      \* the last answer of each verify_chain
  acked,        \* history: log length at the last call that returned normally
  faults        \* history: how many of the MaxFaults have happened

fileVars   == <<key_file, disk>>
memoryVars == <<entries, checkpoints>>
readVars   == <<cursor, verdict>>
vars == <<checkpoint_interval, status, key_file, private_key, entries, checkpoints, disk,
          lock, pc, draft, cursor, verdict, acked, faults>>

-----------------------------------------------------------------------------
GENESIS_HASH == <<>>

\* Injective in (index, data, previous_hash), as the digest is taken to be.
ComputeHash(index, data, previous_hash) ==
  Append(previous_hash, <<index, data>>)

LastHash(es) == IF es = <<>> THEN GENESIS_HASH ELSE Last(es).entry_hash

NewEntry(data) ==
  [index         |-> Len(entries),
   data          |-> data,
   previous_hash |-> LastHash(entries),
   entry_hash    |-> ComputeHash(Len(entries), data, LastHash(entries))]

LastCheckpointEnd(cps) == IF cps = <<>> THEN -1 ELSE Last(cps).end_index

\* The hashes of the entries with indices first .. last, in order.
MerkleRoot(es, first, last) ==
  [k \in 1 .. last - first + 1 |-> es[first + k].entry_hash]

\* The window is every entry after the last checkpoint.
NewCheckpoint ==
  LET first == LastCheckpointEnd(checkpoints) + 1
      last  == Len(entries) - 1
  IN [start_index |-> first,
      end_index   |-> last,
      merkle_root |-> MerkleRoot(entries, first, last),
      signature   |-> private_key]

Absent == [state |-> "absent", entries |-> <<>>, checkpoints |-> <<>>]
Torn   == [state |-> "torn",   entries |-> <<>>, checkpoints |-> <<>>]
Saved  == [state |-> "ok", entries |-> entries, checkpoints |-> checkpoints]

NoKey   == [state |-> "absent", key |-> Nobody]
TornKey == [state |-> "torn",   key |-> Nobody]

Reading(prev, at) == [at |-> at, prev |-> prev]
NotReading == Reading(GENESIS_HASH, 0)

Init ==
  /\ checkpoint_interval \in Intervals
  /\ status = "down"
  /\ key_file = NoKey
  /\ private_key = Nobody
  /\ entries = <<>> /\ checkpoints = <<>>
  /\ disk = Absent
  /\ lock = Nobody
  /\ pc = [w \in Writers |-> "idle"]
  /\ draft = [w \in Writers |-> <<>>]
  /\ cursor = [r \in Readers |-> NotReading]
  /\ verdict = [r \in Readers |-> "none"]
  /\ acked = 0
  /\ faults = 0

-----------------------------------------------------------------------------
(* Construction: the key is loaded or generated, then the log is loaded.   *)

\* Mutant of LoadKey: the key read is not kept in self._private_key.
LoadKeyUnset ==
  /\ status = "down"
  /\ key_file.state = "ok"
  /\ status' = "loading"
  /\ UNCHANGED <<private_key, key_file, memoryVars, disk, lock, pc, draft,
                 readVars, acked, faults, checkpoint_interval>>

LoadKey ==
  /\ status = "down"
  /\ CASE key_file.state = "ok" ->
            status' = "loading" /\ private_key' = key_file.key
       [] key_file.state = "torn" ->
            status' = "failed" /\ UNCHANGED private_key
       [] OTHER -> FALSE
  /\ UNCHANGED <<key_file, memoryVars, disk, lock, pc, draft, readVars,
                 acked, faults, checkpoint_interval>>

\* Mutant of GenerateKey: no key_path.exists() check.
GenerateKeyAnew ==
  /\ status = "down"
  /\ \E k \in Keys : private_key' = k
  /\ key_file' = TornKey
  /\ status' = "keying"
  /\ UNCHANGED <<memoryVars, disk, lock, pc, draft, readVars, acked, faults,
                 checkpoint_interval>>

\* Path.write_bytes has created the key file and not filled it yet.
GenerateKey ==
  /\ status = "down"
  /\ key_file.state = "absent"
  /\ \E k \in Keys : private_key' = k
  /\ key_file' = TornKey
  /\ status' = "keying"
  /\ UNCHANGED <<memoryVars, disk, lock, pc, draft, readVars, acked, faults,
                 checkpoint_interval>>

\* Mutant of WriteKey: in an encoding that from_private_bytes does not take.
WriteKeyEncoded ==
  /\ status = "keying"
  /\ status' = "loading"
  /\ UNCHANGED <<key_file, private_key, memoryVars, disk, lock, pc, draft,
                 readVars, acked, faults, checkpoint_interval>>

WriteKey ==
  /\ status = "keying"
  /\ key_file' = [state |-> "ok", key |-> private_key]
  /\ status' = "loading"
  /\ UNCHANGED <<private_key, memoryVars, disk, lock, pc, draft, readVars,
                 acked, faults, checkpoint_interval>>

\* Mutant of Load: a file that does not parse is taken for an empty log.
LoadLeniently ==
  /\ status = "loading"
  /\ status' = "running"
  /\ entries' = disk.entries
  /\ checkpoints' = disk.checkpoints
  /\ UNCHANGED <<fileVars, private_key, lock, pc, draft, readVars, acked,
                 faults, checkpoint_interval>>

Load ==
  /\ status = "loading"
  /\ IF disk.state = "torn"
       THEN status' = "failed" /\ UNCHANGED memoryVars
       ELSE /\ status' = "running"
            /\ entries' = disk.entries
            /\ checkpoints' = disk.checkpoints
  /\ UNCHANGED <<fileVars, private_key, lock, pc, draft, readVars, acked,
                 faults, checkpoint_interval>>

-----------------------------------------------------------------------------
(* append() and force_checkpoint(), both inside "with self._lock".         *)

\* Mutant of Acquire: append and force_checkpoint without "with self._lock".
AcquireUnlocked(w) ==
  /\ status = "running"
  /\ pc[w] = "idle"
  /\ lock' = w

Acquire(w) ==
  /\ status = "running"
  /\ lock = Nobody
  /\ pc[w] = "idle"
  /\ lock' = w

\* append: the entry is built from the current end of the log.
BuildEntry(w, data) ==
  /\ Acquire(w)
  /\ Len(entries) < MaxEntries
  /\ draft' = [draft EXCEPT ![w] = <<NewEntry(data)>>]
  /\ pc' = [pc EXCEPT ![w] = "built"]
  /\ UNCHANGED <<status, fileVars, private_key, memoryVars, readVars, acked,
                 faults, checkpoint_interval>>

\* Mutants of PublishEntry: the hash is computed only after the entry is in the
\* list; the save is left to the next checkpoint.
PublishUnhashed(w) ==
  /\ pc[w] = "built"
  /\ entries' = Append(entries, [Head(draft[w]) EXCEPT !.entry_hash = GENESIS_HASH])
  /\ draft' = [draft EXCEPT ![w] = <<>>]
  /\ pc' = [pc EXCEPT ![w] = "save"]
  /\ UNCHANGED <<status, fileVars, private_key, checkpoints, lock, readVars,
                 acked, faults, checkpoint_interval>>

PublishUnsaved(w) ==
  /\ pc[w] = "built"
  /\ entries' = Append(entries, Head(draft[w]))
  /\ draft' = [draft EXCEPT ![w] = <<>>]
  /\ pc' = [pc EXCEPT ![w] = "due"]
  /\ UNCHANGED <<status, fileVars, private_key, checkpoints, lock, readVars,
                 acked, faults, checkpoint_interval>>

PublishEntry(w) ==
  /\ pc[w] = "built"
  /\ entries' = Append(entries, Head(draft[w]))
  /\ draft' = [draft EXCEPT ![w] = <<>>]
  /\ pc' = [pc EXCEPT ![w] = "save"]
  /\ UNCHANGED <<status, fileVars, private_key, checkpoints, lock, readVars,
                 acked, faults, checkpoint_interval>>

\* Mutant of ForceCheckpoint: the last entry's index is not compared.
ForceCheckpointAlways(w) ==
  /\ Acquire(w)
  /\ entries # <<>>
  /\ checkpoints' = Append(checkpoints, NewCheckpoint)
  /\ pc' = [pc EXCEPT ![w] = "saveCheckpoint"]
  /\ UNCHANGED <<status, fileVars, private_key, entries, draft, readVars,
                 acked, faults, checkpoint_interval>>

\* force_checkpoint: does nothing when no entry follows the last checkpoint.
ForceCheckpoint(w) ==
  /\ Acquire(w)
  /\ entries # <<>>
  /\ Len(entries) - 1 > LastCheckpointEnd(checkpoints)
  /\ checkpoints' = Append(checkpoints, NewCheckpoint)
  /\ pc' = [pc EXCEPT ![w] = "saveCheckpoint"]
  /\ UNCHANGED <<status, fileVars, private_key, entries, draft, readVars,
                 acked, faults, checkpoint_interval>>

\* _save, first half: opening the file for writing truncates it.
SaveOpen(w) ==
  /\ \/ pc[w] = "save" /\ pc' = [pc EXCEPT ![w] = "write"]
     \/ pc[w] = "saveCheckpoint" /\ pc' = [pc EXCEPT ![w] = "writeCheckpoint"]
  /\ disk' = Torn
  /\ UNCHANGED <<status, key_file, private_key, memoryVars, lock, draft,
                 readVars, acked, faults, checkpoint_interval>>

Release(w) ==
  /\ lock' = Nobody
  /\ pc' = [pc EXCEPT ![w] = "idle"]

\* The call returns to its caller: what it logged is promised to be durable.
Return(w) ==
  /\ Release(w)
  /\ acked' = Len(entries)

\* _save, second half: the text is in the file.
SaveWrite(w) ==
  /\ \/ /\ pc[w] = "write"
        /\ pc' = [pc EXCEPT ![w] = "due"]
        /\ UNCHANGED <<lock, acked>>
     \/ /\ pc[w] = "writeCheckpoint"
        /\ Return(w)
  /\ disk' = Saved
  /\ UNCHANGED <<status, key_file, private_key, memoryVars, draft, readVars,
                 faults, checkpoint_interval>>

\* An OSError from either half leaves the call by the exception; what was
\* appended in memory stays there.
SaveFails(w) ==
  /\ pc[w] \in {"save", "write", "saveCheckpoint", "writeCheckpoint"}
  /\ faults < MaxFaults
  /\ Release(w)
  /\ faults' = faults + 1
  /\ UNCHANGED <<status, fileVars, private_key, memoryVars, draft, readVars,
                 acked, checkpoint_interval>>

\* Mutant of AtBoundary: an interval of n closes n + 1 entries.
AtBoundaryLate == Len(entries) % (checkpoint_interval + 1) = 0

\* The tail of append, once the entry is saved.
AtBoundary == Len(entries) % checkpoint_interval = 0

CheckpointDue(w) ==
  /\ pc[w] = "due"
  /\ checkpoint_interval # 0
  /\ AtBoundary
  /\ checkpoints' = Append(checkpoints, NewCheckpoint)
  /\ pc' = [pc EXCEPT ![w] = "saveCheckpoint"]
  /\ UNCHANGED <<status, fileVars, private_key, entries, lock, draft,
                 readVars, acked, faults, checkpoint_interval>>

CheckpointNotDue(w) ==
  /\ pc[w] = "due"
  /\ checkpoint_interval # 0
  /\ ~ AtBoundary
  /\ Return(w)
  /\ UNCHANGED <<status, fileVars, private_key, memoryVars, draft, readVars,
                 faults, checkpoint_interval>>

\* len % 0 raises ZeroDivisionError after the entry has been saved.
ZeroInterval(w) ==
  /\ pc[w] = "due"
  /\ checkpoint_interval = 0
  /\ Release(w)
  /\ UNCHANGED <<status, fileVars, private_key, memoryVars, draft, readVars,
                 acked, faults, checkpoint_interval>>

-----------------------------------------------------------------------------
(* verify_chain(), without the lock: it iterates over the live list.       *)

StartVerify(r) ==
  /\ status = "running"
  /\ cursor[r] = NotReading
  /\ cursor' = [cursor EXCEPT ![r] = Reading(GENESIS_HASH, 1)]
  /\ verdict' = [verdict EXCEPT ![r] = "none"]
  /\ UNCHANGED <<status, fileVars, private_key, memoryVars, lock, pc, draft,
                 acked, faults, checkpoint_interval>>

EntryOK(entry, prev) ==
  /\ entry.previous_hash = prev
  /\ entry.entry_hash = ComputeHash(entry.index, entry.data, entry.previous_hash)

Answer(r, answer) ==
  /\ cursor' = [cursor EXCEPT ![r] = NotReading]
  /\ verdict' = [verdict EXCEPT ![r] = answer]

VerifyStep(r) ==
  /\ cursor[r].at > 0
  /\ IF cursor[r].at > Len(entries) THEN Answer(r, "intact")
     ELSE LET entry == entries[cursor[r].at] IN
          IF EntryOK(entry, cursor[r].prev)
            THEN /\ cursor' = [cursor EXCEPT
                      ![r] = Reading(entry.entry_hash, cursor[r].at + 1)]
                 /\ UNCHANGED verdict
            ELSE Answer(r, "broken")
  /\ UNCHANGED <<status, fileVars, private_key, memoryVars, lock, pc, draft,
                 acked, faults, checkpoint_interval>>

-----------------------------------------------------------------------------
\* The process ends: memory is gone, the files are as they are.
Exit ==
  /\ status' = "down"
  /\ private_key' = Nobody
  /\ entries' = <<>> /\ checkpoints' = <<>>
  /\ lock' = Nobody
  /\ pc' = [w \in Writers |-> "idle"]
  /\ draft' = [w \in Writers |-> <<>>]
  /\ cursor' = [r \in Readers |-> NotReading]
  /\ verdict' = [r \in Readers |-> "none"]
  /\ UNCHANGED <<fileVars, acked, checkpoint_interval>>

\* It may end at any point, with or without a call under way.
Crash ==
  /\ status # "down"
  /\ faults < MaxFaults
  /\ faults' = faults + 1
  /\ Exit

Write(w) ==
  \/ \E data \in Data : BuildEntry(w, data)
  \/ PublishEntry(w)
  \/ ForceCheckpoint(w)
  \/ SaveOpen(w)
  \/ SaveWrite(w)
  \/ SaveFails(w)
  \/ CheckpointDue(w)
  \/ CheckpointNotDue(w)
  \/ ZeroInterval(w)

Next ==
  \/ LoadKey
  \/ GenerateKey
  \/ WriteKey
  \/ Load
  \/ \E w \in Writers : Write(w)
  \/ \E r \in Readers : StartVerify(r) \/ VerifyStep(r)
  \/ Crash

Spec == Init /\ [][Next]_vars

-----------------------------------------------------------------------------
(* Properties.                                                             *)

Hash == Seq(Nat \X Data)
Entry == [index : Nat, data : Data, previous_hash : Hash, entry_hash : Hash]
Checkpoint == [start_index : Nat, end_index : Nat, merkle_root : Seq(Hash),
               signature : Keys]

\* Types: every variable holds values of the shape the code gives it
\* (dataclasses LogEntry and Checkpoint, immutable_log.py:49-78).
TypeOK ==
  /\ checkpoint_interval \in Intervals
  /\ status \in {"down", "keying", "loading", "running", "failed"}
  /\ key_file \in [state : {"absent", "torn", "ok"}, key : Keys \cup {Nobody}]
  /\ private_key \in Keys \cup {Nobody}
  /\ entries \in Seq(Entry) /\ checkpoints \in Seq(Checkpoint)
  /\ disk \in [state : {"absent", "torn", "ok"},
               entries : Seq(Entry), checkpoints : Seq(Checkpoint)]
  /\ lock \in Writers \cup {Nobody}
  /\ pc \in [Writers -> {"idle", "built", "save", "write", "due",
                         "saveCheckpoint", "writeCheckpoint"}]
  /\ draft \in [Writers -> Seq(Entry)]
  /\ cursor \in [Readers -> [at : Nat, prev : Hash]]
  /\ verdict \in [Readers -> {"none", "intact", "broken"}]
  /\ acked \in Nat /\ faults \in Nat

\* es[i] continues the chain that es[1 .. i-1] forms.
Chained(es) ==
  \A i \in 1 .. Len(es) :
    /\ es[i].index = i - 1
    /\ EntryOK(es[i], IF i = 1 THEN GENESIS_HASH ELSE es[i - 1].entry_hash)

\* The checkpoint windows are non-empty, follow one another without gap or
\* overlap from entry 0, and each root is that of the entries it names.
Tiled(cps, es) ==
  \A k \in 1 .. Len(cps) :
    /\ cps[k].start_index = IF k = 1 THEN 0 ELSE cps[k - 1].end_index + 1
    /\ cps[k].start_index <= cps[k].end_index
    /\ cps[k].end_index < Len(es)
    /\ cps[k].merkle_root = MerkleRoot(es, cps[k].start_index, cps[k].end_index)

\* However appends of several threads, failed saves, crashes and restarts
\* interleave, the log in memory and the log in a readable file are unbroken
\* chains from genesis (immutable_log.py:164-175).
ChainIntact == Chained(entries) /\ Chained(disk.entries)

\* Automatic and forced checkpoints together tile a prefix of the log, in
\* memory and in the file: no entry escapes the windows and none is covered
\* twice (immutable_log.py:181-189, 220-240).
CheckpointsTile ==
  /\ Tiled(checkpoints, entries)
  /\ Tiled(disk.checkpoints, disk.entries)

\* Every checkpoint in the file was signed by the key in the key file, so the
\* log can be checked without the process (immutable_log.py:13-15, 118-129).
CheckpointsVerifiable ==
  \A k \in 1 .. Len(disk.checkpoints) :
    key_file = [state |-> "ok", key |-> disk.checkpoints[k].signature]

\* A verify_chain() that runs concurrently with appends never answers False on
\* a log nobody touched, although it takes no lock (immutable_log.py:191-201).
NoFalseAlarm == \A r \in Readers : verdict[r] # "broken"

\* A file that can be read at all holds every entry whose append returned:
\* a crash loses acknowledged entries loudly or not at all.
AckedOnDisk == disk.state # "torn" => Len(disk.entries) >= acked

\* Between calls, the entries no checkpoint covers stay below one interval for
\* each crash or failed write so far: a missed boundary is caught at the next
\* (immutable_log.py:177, 221-222).
CheckpointLag ==
  status = "running" /\ lock = Nobody /\ checkpoint_interval > 0
    => Len(entries) - (LastCheckpointEnd(checkpoints) + 1)
         < checkpoint_interval * (1 + faults)

\* "The log is append-only; entries are never modified or deleted"
\* (immutable_log.py:20): once the process is gone, what was acknowledged is
\* still in the file.
RecoverableAfterExit == status = "down" => Len(disk.entries) >= acked
=============================================================================
