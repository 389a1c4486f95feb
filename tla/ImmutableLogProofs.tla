------------------------- MODULE ImmutableLogProofs -------------------------
(***************************************************************************)
(* Proofs about ImmutableLog, for every number of threads, entries and     *)
(* faults and every checkpoint interval.                                   *)
(***************************************************************************)
EXTENDS ImmutableLogRefinement, TLAPS, SequenceTheorems

-----------------------------------------------------------------------------
(* The inductive invariant: the properties of ImmutableLog, strengthened.  *)

\* The lock holder, and nobody else, is inside a call; only a running
\* instance has one.
LockInv ==
  /\ lock # Nobody => status = "running"
  /\ \A w \in Writers : pc[w] # "idle" <=> lock = w

\* The draft of an append is the entry the log is waiting for.
DraftInv ==
  \A w \in Writers :
    pc[w] = "built" => \E data \in Data : draft[w] = <<NewEntry(data)>>

\* An instance that is not running holds nothing; one past its constructor's
\* first half holds the key of the key file.
MemoryInv ==
  /\ status # "running" => entries = <<>> /\ checkpoints = <<>>
  /\ status = "keying" => key_file = TornKey /\ private_key \in Keys
  /\ status \in {"loading", "running"} =>
       private_key \in Keys /\ key_file = [state |-> "ok", key |-> private_key]
  /\ \A k \in 1 .. Len(checkpoints) : checkpoints[k].signature = private_key

\* Between publishing an entry and closing its window, the window is not
\* empty; past the save, the file holds what memory holds.
PendingInv ==
  \A w \in Writers :
    /\ pc[w] \in {"save", "write", "due"} =>
         LastCheckpointEnd(checkpoints) < Len(entries) - 1
    /\ pc[w] = "due" => disk = Saved

\* The file is a past value of memory, or unreadable and empty.
DiskInv ==
  /\ disk.state # "ok" => disk.entries = <<>> /\ disk.checkpoints = <<>>
  /\ status = "running" /\ disk.state # "torn" => IsPrefix(disk.entries, entries)
  /\ key_file.state = "ok" => key_file.key \in Keys

AckedInv == status = "running" => acked <= Len(entries)

\* A verify_chain in progress has consumed a prefix of the live list.
CursorInv ==
  \A r \in Readers :
    cursor[r].at > 0 =>
      /\ cursor[r].at <= Len(entries) + 1
      /\ cursor[r].prev = IF cursor[r].at = 1 THEN GENESIS_HASH
                          ELSE entries[cursor[r].at - 1].entry_hash

IInv ==
  /\ TypeOK
  /\ LockInv /\ DraftInv /\ MemoryInv /\ PendingInv /\ DiskInv
  /\ AckedInv /\ CursorInv
  /\ ChainIntact /\ CheckpointsTile /\ CheckpointsVerifiable
  /\ NoFalseAlarm /\ AckedOnDisk

-----------------------------------------------------------------------------
(* The operators the log is built from.                                    *)

\* A log with one more entry: its last hash is a hash, and the entry append()
\* builds is well formed and extends the chain.
LEMMA LastHashType ==
  ASSUME NEW es \in Seq(Entry)
  PROVE  LastHash(es) \in Hash
<1>1. CASE es = <<>>
  BY <1>1 DEF LastHash, GENESIS_HASH, Hash
<1>2. CASE es # <<>>
  <2>1. es[Len(es)] \in Entry
    BY <1>2
  <2> QED
    BY <1>2, <2>1 DEF LastHash, Last, Entry
<1> QED
  BY <1>1, <1>2

LEMMA NewEntryType ==
  ASSUME entries \in Seq(Entry), NEW data \in Data
  PROVE  NewEntry(data) \in Entry
<1>1. LastHash(entries) \in Hash
  BY LastHashType
<1>2. Len(entries) \in Nat
  OBVIOUS
<1>3. ComputeHash(Len(entries), data, LastHash(entries)) \in Hash
  BY <1>1, <1>2 DEF ComputeHash, Hash
<1> QED
  BY <1>1, <1>2, <1>3 DEF NewEntry, Entry

LEMMA ChainedAppend ==
  ASSUME entries \in Seq(Entry), NEW data \in Data, Chained(entries)
  PROVE  Chained(Append(entries, NewEntry(data)))
<1> DEFINE e  == NewEntry(data)
           es == Append(entries, e)
<1>1. /\ Len(es) = Len(entries) + 1
      /\ es[Len(entries) + 1] = e
      /\ \A i \in 1 .. Len(entries) : es[i] = entries[i]
  OBVIOUS
<1>2. e.index = Len(entries)
  BY DEF NewEntry
<1>3. EntryOK(e, LastHash(entries))
  BY DEF NewEntry, EntryOK
<1>4. LastHash(entries) = IF Len(entries) = 0 THEN GENESIS_HASH
                          ELSE entries[Len(entries)].entry_hash
  BY DEF LastHash, Last
<1>5. SUFFICES ASSUME NEW i \in 1 .. Len(es)
               PROVE  /\ es[i].index = i - 1
                      /\ EntryOK(es[i], IF i = 1 THEN GENESIS_HASH
                                        ELSE es[i - 1].entry_hash)
  BY DEF Chained
<1> HIDE DEF e, es
<1>6. CASE i = Len(entries) + 1
  BY <1>1, <1>2, <1>3, <1>4, <1>6
<1>7. CASE i \in 1 .. Len(entries)
  BY <1>1, <1>7 DEF Chained
<1> QED
  BY <1>1, <1>6, <1>7

\* The roots of windows inside a log do not change when the log grows.
LEMMA TiledAppendEntry ==
  ASSUME NEW cps \in Seq(Checkpoint), NEW es \in Seq(Entry), NEW e \in Entry,
         Tiled(cps, es)
  PROVE  Tiled(cps, Append(es, e))
<1>1. /\ Len(Append(es, e)) = Len(es) + 1
      /\ \A i \in 1 .. Len(es) : Append(es, e)[i] = es[i]
  OBVIOUS
<1>2. ASSUME NEW first \in Nat, NEW last \in Nat, last < Len(es)
      PROVE  MerkleRoot(Append(es, e), first, last) = MerkleRoot(es, first, last)
  BY <1>1, <1>2 DEF MerkleRoot
<1>3. ASSUME NEW k \in 1 .. Len(cps)
      PROVE  cps[k].start_index \in Nat /\ cps[k].end_index \in Nat
  <2>1. cps[k] \in Checkpoint
    OBVIOUS
  <2> QED
    BY <2>1 DEF Checkpoint
<1> QED
  BY <1>1, <1>2, <1>3 DEF Tiled

LEMMA LastCheckpointEndType ==
  ASSUME NEW cps \in Seq(Checkpoint)
  PROVE  /\ LastCheckpointEnd(cps) \in Nat \cup {-1}
         /\ cps # <<>> => LastCheckpointEnd(cps) = cps[Len(cps)].end_index
         /\ cps = <<>> => LastCheckpointEnd(cps) = -1
<1>1. CASE cps = <<>>
  BY <1>1 DEF LastCheckpointEnd
<1>2. CASE cps # <<>>
  <2>1. cps[Len(cps)] \in Checkpoint
    BY <1>2
  <2> QED
    BY <1>2, <2>1 DEF LastCheckpointEnd, Last, Checkpoint
<1> QED
  BY <1>1, <1>2

\* When an entry follows the last checkpoint, the next one is well formed.
LEMMA NewCheckpointType ==
  ASSUME entries \in Seq(Entry), checkpoints \in Seq(Checkpoint),
         private_key \in Keys,
         LastCheckpointEnd(checkpoints) < Len(entries) - 1
  PROVE  NewCheckpoint \in Checkpoint
<1> DEFINE first == LastCheckpointEnd(checkpoints) + 1
           last  == Len(entries) - 1
<1>1. first \in Nat /\ last \in Nat /\ first <= last
  BY LastCheckpointEndType
<1>2. MerkleRoot(entries, first, last) \in Seq(Hash)
  <2>1. last - first + 1 \in Nat
    BY <1>1
  <2>2. ASSUME NEW k \in 1 .. last - first + 1
        PROVE  entries[first + k].entry_hash \in Hash
    <3>1. first + k \in 1 .. Len(entries)
      BY <1>1
    <3>2. entries[first + k] \in Entry
      BY <3>1
    <3> QED
      BY <3>2 DEF Entry
  <2> QED
    BY <2>1, <2>2 DEF MerkleRoot
<1> QED
  BY <1>1, <1>2 DEF NewCheckpoint, Checkpoint

\* The window _make_checkpoint closes starts where the last one ended.
LEMMA TiledAppendCheckpoint ==
  ASSUME entries \in Seq(Entry), checkpoints \in Seq(Checkpoint),
         private_key \in Keys,
         LastCheckpointEnd(checkpoints) < Len(entries) - 1,
         Tiled(checkpoints, entries)
  PROVE  Tiled(Append(checkpoints, NewCheckpoint), entries)
<1> DEFINE n   == Len(checkpoints)
           cp  == NewCheckpoint
           cps == Append(checkpoints, cp)
<1>1. /\ n \in Nat
      /\ Len(cps) = n + 1
      /\ cps[n + 1] = cp
      /\ \A k \in 1 .. n : cps[k] = checkpoints[k]
  OBVIOUS
<1>2. /\ cp.start_index = LastCheckpointEnd(checkpoints) + 1
      /\ cp.end_index = Len(entries) - 1
      /\ cp.merkle_root = MerkleRoot(entries, cp.start_index, cp.end_index)
  BY DEF NewCheckpoint
<1>3. LastCheckpointEnd(checkpoints) = IF n = 0 THEN -1 ELSE checkpoints[n].end_index
  BY LastCheckpointEndType
<1>4. LastCheckpointEnd(checkpoints) \in Int /\ Len(entries) \in Nat
  BY LastCheckpointEndType
<1> HIDE DEF cp, cps, n
<1>5. SUFFICES ASSUME NEW k \in 1 .. n + 1
               PROVE  /\ cps[k].start_index = IF k = 1 THEN 0 ELSE cps[k - 1].end_index + 1
                      /\ cps[k].start_index <= cps[k].end_index
                      /\ cps[k].end_index < Len(entries)
                      /\ cps[k].merkle_root =
                           MerkleRoot(entries, cps[k].start_index, cps[k].end_index)
  BY <1>1 DEF Tiled, cps, cp
<1>6. CASE k = n + 1
  <2>1. cp.start_index <= cp.end_index /\ cp.end_index < Len(entries)
    BY <1>2, <1>4
  <2>2. cp.start_index = IF k = 1 THEN 0 ELSE cps[k - 1].end_index + 1
    BY <1>1, <1>2, <1>3, <1>6
  <2>3. cps[k] = cp
    BY <1>1, <1>6
  <2> QED
    BY <1>2, <2>1, <2>2, <2>3
<1>7. CASE k \in 1 .. n
  <2>1. cps[k] = checkpoints[k] /\ (k # 1 => cps[k - 1] = checkpoints[k - 1])
    BY <1>1, <1>7
  <2>2. /\ checkpoints[k].start_index =
             IF k = 1 THEN 0 ELSE checkpoints[k - 1].end_index + 1
        /\ checkpoints[k].start_index <= checkpoints[k].end_index
        /\ checkpoints[k].end_index < Len(entries)
        /\ checkpoints[k].merkle_root =
             MerkleRoot(entries, checkpoints[k].start_index, checkpoints[k].end_index)
    BY <1>7 DEF Tiled, n
  <2> QED
    BY <2>1, <2>2
<1> QED
  BY <1>1, <1>6, <1>7

-----------------------------------------------------------------------------
(* Every step preserves every part of the invariant.                       *)

LEMMA InitInv == Init => IInv
<1> SUFFICES ASSUME Init PROVE IInv
  OBVIOUS
<1> USE LogAssumption DEF Init
<1>1. TypeOK
  <2>1. NotReading \in [at : Nat, prev : Hash]
    BY DEF NotReading, Reading, GENESIS_HASH, Hash
  <2> QED
    BY <2>1 DEF TypeOK, NoKey, Absent
<1>2. LockInv /\ DraftInv /\ MemoryInv /\ PendingInv /\ AckedInv
  BY DEF LockInv, DraftInv, MemoryInv, PendingInv, AckedInv
<1>3. DiskInv /\ CursorInv
  BY DEF DiskInv, CursorInv, Absent, NoKey, NotReading, Reading
<1>4. ChainIntact /\ CheckpointsTile /\ CheckpointsVerifiable
  BY DEF ChainIntact, Chained, CheckpointsTile, Tiled, CheckpointsVerifiable, Absent
<1>5. NoFalseAlarm /\ AckedOnDisk
  BY DEF NoFalseAlarm, AckedOnDisk, Absent
<1> QED
  BY <1>1, <1>2, <1>3, <1>4, <1>5 DEF IInv

\* A thread inside a call holds the lock of a running instance, whose key is
\* the one in the key file.
LEMMA InsideCall ==
  ASSUME IInv, NEW w \in Writers, pc[w] # "idle"
  PROVE  /\ lock = w
         /\ \A v \in Writers \ {w} : pc[v] = "idle"
         /\ status = "running"
         /\ private_key \in Keys
         /\ key_file = [state |-> "ok", key |-> private_key]
<1>1. lock = w /\ \A v \in Writers \ {w} : pc[v] = "idle"
  BY DEF IInv, LockInv
<1>2. status = "running"
  BY <1>1, LogAssumption DEF IInv, LockInv
<1> QED
  BY <1>1, <1>2 DEF IInv, MemoryInv

LEMMA TypeStep ==
  ASSUME IInv, [Next]_vars
  PROVE  TypeOK'
<1> USE DEF TypeOK, fileVars, memoryVars, readVars
<1> TypeOK
  BY DEF IInv
<1>1. CASE LoadKey
  BY <1>1 DEF LoadKey, IInv, DiskInv
<1>2. CASE GenerateKey
  BY <1>2 DEF GenerateKey, TornKey
<1>3. CASE WriteKey
  BY <1>3 DEF WriteKey
<1>4. CASE Load
  BY <1>4 DEF Load
<1>5. ASSUME NEW w \in Writers, NEW data \in Data, BuildEntry(w, data)
      PROVE  TypeOK'
  <2>1. NewEntry(data) \in Entry
    BY NewEntryType
  <2>2. <<NewEntry(data)>> \in Seq(Entry)
    BY <2>1
  <2> QED
    BY <1>5, <2>2 DEF BuildEntry, Acquire
<1>6. ASSUME NEW w \in Writers, PublishEntry(w)
      PROVE  TypeOK'
  <2>1. PICK data \in Data : draft[w] = <<NewEntry(data)>>
    BY <1>6 DEF PublishEntry, IInv, DraftInv
  <2>2. Head(draft[w]) \in Entry
    BY <2>1, NewEntryType
  <2> QED
    BY <1>6, <2>2 DEF PublishEntry
<1>7. ASSUME NEW w \in Writers, ForceCheckpoint(w)
      PROVE  TypeOK'
  <2>1. NewCheckpoint \in Checkpoint
    <3>1. private_key \in Keys
      BY <1>7 DEF ForceCheckpoint, Acquire, IInv, MemoryInv
    <3> QED
      BY <1>7, <3>1, NewCheckpointType, LastCheckpointEndType DEF ForceCheckpoint
  <2> QED
    BY <1>7, <2>1 DEF ForceCheckpoint, Acquire
<1>8. ASSUME NEW w \in Writers, SaveOpen(w)
      PROVE  TypeOK'
  <2>1. Torn \in [state : {"absent", "torn", "ok"},
                 entries : Seq(Entry), checkpoints : Seq(Checkpoint)]
    BY DEF Torn
  <2>2. /\ disk' = Torn
        /\ UNCHANGED <<status, key_file, private_key, memoryVars, lock, draft,
                       readVars, acked, faults, checkpoint_interval>>
    BY <1>8 DEF SaveOpen
  <2>3. pc' = [pc EXCEPT ![w] = "write"] \/ pc' = [pc EXCEPT ![w] = "writeCheckpoint"]
    BY <1>8 DEF SaveOpen
  <2>4. disk' \in [state : {"absent", "torn", "ok"},
                  entries : Seq(Entry), checkpoints : Seq(Checkpoint)]
    BY <2>1, <2>2
  <2>5. pc' \in [Writers -> {"idle", "built", "save", "write", "due",
                            "saveCheckpoint", "writeCheckpoint"}]
    BY <2>3
  <2> QED
    BY <2>2, <2>4, <2>5
<1>9. ASSUME NEW w \in Writers, SaveWrite(w)
      PROVE  TypeOK'
  <2>1. Saved \in [state : {"absent", "torn", "ok"},
                  entries : Seq(Entry), checkpoints : Seq(Checkpoint)]
    BY DEF Saved
  <2>2. /\ disk' = Saved
        /\ UNCHANGED <<status, key_file, private_key, memoryVars, draft, readVars,
                       faults, checkpoint_interval>>
    BY <1>9 DEF SaveWrite
  <2>3. pc' = [pc EXCEPT ![w] = "due"] \/ pc' = [pc EXCEPT ![w] = "idle"]
    BY <1>9 DEF SaveWrite, Return, Release
  <2>4. lock' \in {lock, Nobody} /\ acked' \in {acked, Len(entries)}
    BY <1>9 DEF SaveWrite, Return, Release
  <2>5. disk' \in [state : {"absent", "torn", "ok"},
                  entries : Seq(Entry), checkpoints : Seq(Checkpoint)]
    BY <2>1, <2>2
  <2>6. pc' \in [Writers -> {"idle", "built", "save", "write", "due",
                            "saveCheckpoint", "writeCheckpoint"}]
    BY <2>3
  <2> QED
    BY <2>2, <2>4, <2>5, <2>6
<1>10. ASSUME NEW w \in Writers, SaveFails(w)
       PROVE  TypeOK'
  BY <1>10 DEF SaveFails, Release
<1>11. ASSUME NEW w \in Writers, CheckpointDue(w)
       PROVE  TypeOK'
  <2>1. NewCheckpoint \in Checkpoint
    <3>1. pc[w] = "due"
      BY <1>11 DEF CheckpointDue
    <3>2. private_key \in Keys
      BY <3>1, InsideCall
    <3>3. LastCheckpointEnd(checkpoints) < Len(entries) - 1
      BY <3>1 DEF IInv, PendingInv
    <3> QED
      BY <3>2, <3>3, NewCheckpointType
  <2>2. /\ checkpoints' = Append(checkpoints, NewCheckpoint)
        /\ pc' = [pc EXCEPT ![w] = "saveCheckpoint"]
        /\ UNCHANGED <<status, fileVars, private_key, entries, lock, draft,
                       readVars, acked, faults, checkpoint_interval>>
    BY <1>11 DEF CheckpointDue
  <2> QED
    BY <2>1, <2>2
<1>12. ASSUME NEW w \in Writers, CheckpointNotDue(w) \/ ZeroInterval(w)
       PROVE  TypeOK'
  <2>1. /\ Release(w)
        /\ acked' = Len(entries) \/ UNCHANGED acked
        /\ UNCHANGED <<status, fileVars, private_key, memoryVars, draft,
                       readVars, faults, checkpoint_interval>>
    BY <1>12 DEF CheckpointNotDue, ZeroInterval, Return
  <2> QED
    BY <2>1 DEF Release
<1>13. ASSUME NEW r \in Readers, StartVerify(r)
       PROVE  TypeOK'
  <2>1. Reading(GENESIS_HASH, 1) \in [at : Nat, prev : Hash]
    BY DEF Reading, GENESIS_HASH, Hash
  <2> QED
    BY <1>13, <2>1 DEF StartVerify
<1>14. ASSUME NEW r \in Readers, VerifyStep(r)
       PROVE  TypeOK'
  <2>1. NotReading \in [at : Nat, prev : Hash]
    BY DEF NotReading, Reading, GENESIS_HASH, Hash
  <2>2. ASSUME cursor[r].at > 0, cursor[r].at <= Len(entries)
        PROVE  Reading(entries[cursor[r].at].entry_hash, cursor[r].at + 1)
                 \in [at : Nat, prev : Hash]
    <3>1. cursor[r].at \in Nat
      OBVIOUS
    <3>2. entries[cursor[r].at] \in Entry
      BY <2>2, <3>1
    <3> QED
      BY <3>1, <3>2 DEF Reading, Entry
  <2>3. cursor' = [cursor EXCEPT ![r] = NotReading] \/
          (/\ cursor[r].at > 0 /\ ~ cursor[r].at > Len(entries)
           /\ cursor' = [cursor EXCEPT ![r] =
                Reading(entries[cursor[r].at].entry_hash, cursor[r].at + 1)])
    BY <1>14 DEF VerifyStep, Answer
  <2>4. verdict' = [verdict EXCEPT ![r] = "intact"] \/
          verdict' = [verdict EXCEPT ![r] = "broken"] \/ UNCHANGED verdict
    BY <1>14 DEF VerifyStep, Answer
  <2>5. UNCHANGED <<status, fileVars, private_key, memoryVars, lock, pc, draft,
                    acked, faults, checkpoint_interval>>
    BY <1>14 DEF VerifyStep
  <2>6. cursor' \in [Readers -> [at : Nat, prev : Hash]]
    <3>1. cursor[r].at \in Nat /\ Len(entries) \in Nat
      OBVIOUS
    <3>2. CASE cursor' = [cursor EXCEPT ![r] = NotReading]
      BY <2>1, <3>2
    <3>3. CASE ~ cursor' = [cursor EXCEPT ![r] = NotReading]
      <4> DEFINE next == Reading(entries[cursor[r].at].entry_hash, cursor[r].at + 1)
      <4>1. next \in [at : Nat, prev : Hash]
        BY <2>2, <2>3, <3>1, <3>3
      <4>2. cursor' = [cursor EXCEPT ![r] = next]
        BY <2>3, <3>3
      <4> HIDE DEF next
      <4> QED
        BY <4>1, <4>2
    <3> QED
      BY <3>2, <3>3
  <2>7. verdict' \in [Readers -> {"none", "intact", "broken"}]
    BY <2>4
  <2> QED
    BY <2>5, <2>6, <2>7
<1>15. CASE Crash
  <2>1. NotReading \in [at : Nat, prev : Hash]
    BY DEF NotReading, Reading, GENESIS_HASH, Hash
  <2> QED
    BY <1>15, <2>1 DEF Crash, Exit
<1>16. CASE UNCHANGED vars
  BY <1>16 DEF vars
<1> QED
  BY <1>1, <1>2, <1>3, <1>4, <1>5, <1>6, <1>7, <1>8, <1>9, <1>10, <1>11, <1>12,
     <1>13, <1>14, <1>15, <1>16 DEF Next, Write

\* Who writes what: each variable changes in these actions only.
LEMMA Writes ==
  ASSUME [Next]_vars
  PROVE  /\ \/ UNCHANGED <<status, key_file, private_key>>
            \/ LoadKey \/ GenerateKey \/ WriteKey \/ Load \/ Crash
         /\ \/ UNCHANGED entries
            \/ Load \/ Crash \/ \E w \in Writers : PublishEntry(w)
         /\ \/ UNCHANGED checkpoints
            \/ Load \/ Crash \/ \E w \in Writers : ForceCheckpoint(w) \/ CheckpointDue(w)
         /\ \/ UNCHANGED disk
            \/ \E w \in Writers : SaveOpen(w) \/ SaveWrite(w)
         /\ \/ UNCHANGED draft
            \/ Crash
            \/ \E w \in Writers : (\E data \in Data : BuildEntry(w, data)) \/ PublishEntry(w)
         /\ \/ UNCHANGED <<pc, lock>>
            \/ Crash
            \/ \E w \in Writers : Write(w)
         /\ \/ UNCHANGED acked
            \/ \E w \in Writers : SaveWrite(w) \/ CheckpointNotDue(w)
         /\ \/ UNCHANGED readVars
            \/ Crash
            \/ \E r \in Readers : StartVerify(r) \/ VerifyStep(r)
<1> USE DEF fileVars, memoryVars, readVars
<1>1. CASE LoadKey \/ GenerateKey \/ WriteKey
  BY <1>1 DEF LoadKey, GenerateKey, WriteKey
<1>2. CASE Load
  BY <1>2 DEF Load
<1>3. ASSUME NEW w \in Writers, NEW data \in Data, BuildEntry(w, data)
      PROVE  UNCHANGED <<status, key_file, private_key, entries, checkpoints, disk,
                         acked, readVars>>
  BY <1>3 DEF BuildEntry
<1>4. ASSUME NEW w \in Writers, PublishEntry(w)
      PROVE  UNCHANGED <<status, key_file, private_key, checkpoints, disk, acked,
                         readVars>>
  BY <1>4 DEF PublishEntry
<1>5. ASSUME NEW w \in Writers, ForceCheckpoint(w) \/ CheckpointDue(w)
      PROVE  UNCHANGED <<status, key_file, private_key, entries, disk, draft,
                         acked, readVars>>
  BY <1>5 DEF ForceCheckpoint, CheckpointDue
<1>6. ASSUME NEW w \in Writers, SaveOpen(w)
      PROVE  UNCHANGED <<status, key_file, private_key, entries, checkpoints, draft,
                         acked, readVars>>
  BY <1>6 DEF SaveOpen
<1>7. ASSUME NEW w \in Writers, SaveWrite(w)
      PROVE  UNCHANGED <<status, key_file, private_key, entries, checkpoints, draft,
                         readVars>>
  BY <1>7 DEF SaveWrite
<1>8. ASSUME NEW w \in Writers, SaveFails(w) \/ ZeroInterval(w)
      PROVE  UNCHANGED <<status, key_file, private_key, entries, checkpoints, disk,
                         draft, acked, readVars>>
  BY <1>8 DEF SaveFails, ZeroInterval
<1>9. ASSUME NEW w \in Writers, CheckpointNotDue(w)
      PROVE  UNCHANGED <<status, key_file, private_key, entries, checkpoints, disk,
                         draft, readVars>>
  BY <1>9 DEF CheckpointNotDue
<1>10. ASSUME NEW r \in Readers, StartVerify(r) \/ VerifyStep(r)
       PROVE  UNCHANGED <<status, key_file, private_key, entries, checkpoints, disk,
                          draft, pc, lock, acked>>
  BY <1>10 DEF StartVerify, VerifyStep
<1>11. CASE Crash
  BY <1>11 DEF Crash, Exit
<1>12. CASE UNCHANGED vars
  BY <1>12 DEF vars
<1> QED
  BY <1>1, <1>2, <1>3, <1>4, <1>5, <1>6, <1>7, <1>8, <1>9, <1>10, <1>11, <1>12
     DEF Next, Write

LEMMA ChainStep ==
  ASSUME IInv, [Next]_vars
  PROVE  ChainIntact'
<1> USE DEF ChainIntact
<1>0. Chained(entries) /\ Chained(disk.entries) /\ TypeOK
  BY DEF IInv
<1>1. Chained(<<>>)
  BY DEF Chained
<1>2. Chained(entries)'
  <2>1. CASE UNCHANGED entries
    BY <1>0, <2>1 DEF Chained
  <2>2. CASE Load
    <3>1. entries' = entries \/ entries' = disk.entries
      BY <2>2 DEF Load, memoryVars
    <3> QED
      BY <1>0, <3>1 DEF Chained
  <2>3. CASE Crash
    BY <1>1, <2>3 DEF Crash, Exit, Chained
  <2>4. ASSUME NEW w \in Writers, PublishEntry(w)
        PROVE  Chained(entries)'
    <3>1. PICK data \in Data : draft[w] = <<NewEntry(data)>>
      BY <2>4 DEF PublishEntry, IInv, DraftInv
    <3>2. entries' = Append(entries, NewEntry(data))
      BY <2>4, <3>1 DEF PublishEntry
    <3>3. Chained(Append(entries, NewEntry(data)))
      BY <1>0, ChainedAppend DEF TypeOK
    <3> QED
      BY <3>2, <3>3 DEF Chained
  <2> QED
    BY <2>1, <2>2, <2>3, <2>4, Writes
<1>3. Chained(disk.entries)'
  <2>1. CASE UNCHANGED disk
    BY <1>0, <2>1 DEF Chained
  <2>2. ASSUME NEW w \in Writers, SaveOpen(w)
        PROVE  Chained(disk.entries)'
    BY <2>2, <1>1 DEF SaveOpen, Torn, Chained
  <2>3. ASSUME NEW w \in Writers, SaveWrite(w)
        PROVE  Chained(disk.entries)'
    <3>1. disk'.entries = entries
      BY <2>3 DEF SaveWrite, Saved
    <3> QED
      BY <1>0, <3>1 DEF Chained
  <2> QED
    BY <2>1, <2>2, <2>3, Writes
<1> QED
  BY <1>2, <1>3

LEMMA TileStep ==
  ASSUME IInv, [Next]_vars
  PROVE  CheckpointsTile'
<1> USE DEF CheckpointsTile
<1>0. Tiled(checkpoints, entries) /\ Tiled(disk.checkpoints, disk.entries) /\ TypeOK
  BY DEF IInv
<1>1. ASSUME NEW es PROVE Tiled(<<>>, es)
  BY DEF Tiled
<1>2. Tiled(checkpoints, entries)'
  <2>1. CASE UNCHANGED <<checkpoints, entries>>
    BY <1>0, <2>1 DEF Tiled, MerkleRoot
  <2>2. CASE Load
    <3>1. \/ UNCHANGED <<checkpoints, entries>>
          \/ checkpoints' = disk.checkpoints /\ entries' = disk.entries
      BY <2>2 DEF Load, memoryVars
    <3> QED
      BY <1>0, <3>1 DEF Tiled, MerkleRoot
  <2>3. CASE Crash
    BY <1>1, <2>3 DEF Crash, Exit, Tiled
  <2>4. ASSUME NEW w \in Writers, PublishEntry(w)
        PROVE  Tiled(checkpoints, entries)'
    <3>1. PICK data \in Data : draft[w] = <<NewEntry(data)>>
      BY <2>4 DEF PublishEntry, IInv, DraftInv
    <3>2. entries' = Append(entries, NewEntry(data)) /\ UNCHANGED checkpoints
      BY <2>4, <3>1 DEF PublishEntry
    <3>3. Tiled(checkpoints, Append(entries, NewEntry(data)))
      BY <1>0, NewEntryType, TiledAppendEntry DEF TypeOK
    <3>4. PICK es : entries' = es /\ Tiled(checkpoints, es)
      BY <3>2, <3>3
    <3>5. checkpoints' = checkpoints
      BY <3>2
    <3> QED
      BY <3>4, <3>5 DEF Tiled, MerkleRoot
  <2>5. ASSUME NEW w \in Writers, ForceCheckpoint(w) \/ CheckpointDue(w)
        PROVE  Tiled(checkpoints, entries)'
    <3>1. private_key \in Keys /\ LastCheckpointEnd(checkpoints) < Len(entries) - 1
      <4>1. CASE ForceCheckpoint(w)
        <5>1. status = "running" /\ Len(entries) - 1 > LastCheckpointEnd(checkpoints)
          BY <4>1 DEF ForceCheckpoint, Acquire
        <5>2. private_key \in Keys
          BY <5>1 DEF IInv, MemoryInv
        <5>3. LastCheckpointEnd(checkpoints) \in Int /\ Len(entries) \in Nat
          BY <1>0, LastCheckpointEndType DEF TypeOK
        <5> QED
          BY <5>1, <5>2, <5>3
      <4>2. CASE CheckpointDue(w)
        <5>1. pc[w] = "due"
          BY <4>2 DEF CheckpointDue
        <5> QED
          BY <5>1, InsideCall DEF IInv, PendingInv
      <4> QED
        BY <2>5, <4>1, <4>2
    <3>2. checkpoints' = Append(checkpoints, NewCheckpoint) /\ UNCHANGED entries
      BY <2>5 DEF ForceCheckpoint, CheckpointDue
    <3>3. Tiled(Append(checkpoints, NewCheckpoint), entries)
      BY <1>0, <3>1, TiledAppendCheckpoint DEF TypeOK
    <3>4. PICK cps : checkpoints' = cps /\ Tiled(cps, entries)
      BY <3>2, <3>3
    <3>5. entries' = entries
      BY <3>2
    <3> QED
      BY <3>4, <3>5 DEF Tiled, MerkleRoot
  <2> QED
    BY <2>1, <2>2, <2>3, <2>4, <2>5, Writes
<1>3. Tiled(disk.checkpoints, disk.entries)'
  <2>1. CASE UNCHANGED disk
    BY <1>0, <2>1 DEF Tiled, MerkleRoot
  <2>2. ASSUME NEW w \in Writers, SaveOpen(w)
        PROVE  Tiled(disk.checkpoints, disk.entries)'
    BY <2>2 DEF SaveOpen, Torn, Tiled
  <2>3. ASSUME NEW w \in Writers, SaveWrite(w)
        PROVE  Tiled(disk.checkpoints, disk.entries)'
    <3>1. disk'.entries = entries /\ disk'.checkpoints = checkpoints
      BY <2>3 DEF SaveWrite, Saved
    <3> QED
      BY <1>0, <3>1 DEF Tiled, MerkleRoot
  <2> QED
    BY <2>1, <2>2, <2>3, Writes
<1> QED
  BY <1>2, <1>3

LEMMA LockStep ==
  ASSUME IInv, [Next]_vars
  PROVE  LockInv'
<1> USE LogAssumption DEF LockInv
<1>0. LockInv /\ TypeOK
  BY DEF IInv
<1>1. CASE Crash
  BY <1>1 DEF Crash, Exit
<1>2. CASE \E w \in Writers : Write(w)
  <2>1. PICK w \in Writers : Write(w)
    BY <1>2
  <2>2. status' = status
    BY <2>1 DEF Write, BuildEntry, PublishEntry, ForceCheckpoint, SaveOpen, SaveWrite,
                SaveFails, CheckpointDue, CheckpointNotDue, ZeroInterval
  <2>3. CASE Release(w) /\ pc[w] # "idle"
    BY <2>2, <2>3, <1>0, InsideCall DEF Release, TypeOK
  <2>4. CASE /\ pc[w] # "idle" /\ lock' = lock
             /\ \E l \in {"built", "save", "write", "due", "saveCheckpoint",
                          "writeCheckpoint"} : pc' = [pc EXCEPT ![w] = l]
    BY <2>2, <2>4, <1>0 DEF TypeOK
  <2>5. CASE /\ Acquire(w)
             /\ \E l \in {"built", "saveCheckpoint"} : pc' = [pc EXCEPT ![w] = l]
    BY <2>2, <2>5, <1>0 DEF Acquire, TypeOK
  <2>6. \/ Release(w) /\ pc[w] # "idle"
        \/ /\ pc[w] # "idle" /\ lock' = lock
           /\ \E l \in {"built", "save", "write", "due", "saveCheckpoint",
                        "writeCheckpoint"} : pc' = [pc EXCEPT ![w] = l]
        \/ /\ Acquire(w)
           /\ \E l \in {"built", "saveCheckpoint"} : pc' = [pc EXCEPT ![w] = l]
    <3>1. CASE (\E data \in Data : BuildEntry(w, data)) \/ ForceCheckpoint(w)
      BY <3>1 DEF BuildEntry, ForceCheckpoint
    <3>2. CASE PublishEntry(w) \/ SaveOpen(w) \/ CheckpointDue(w)
      BY <3>2 DEF PublishEntry, SaveOpen, CheckpointDue
    <3>3. CASE SaveWrite(w)
      BY <3>3 DEF SaveWrite, Return
    <3>4. CASE SaveFails(w) \/ CheckpointNotDue(w) \/ ZeroInterval(w)
      BY <3>4 DEF SaveFails, CheckpointNotDue, ZeroInterval, Return
    <3> QED
      BY <2>1, <3>1, <3>2, <3>3, <3>4 DEF Write
  <2> QED
    BY <2>3, <2>4, <2>5, <2>6
<1>3. CASE UNCHANGED <<pc, lock>> /\ ~ Crash
  <2>1. status = "running" => status' = "running"
    BY <1>3, Writes DEF LoadKey, GenerateKey, WriteKey, Load
  <2> QED
    BY <1>0, <1>3, <2>1
<1> QED
  BY <1>1, <1>2, <1>3, Writes

\* Mutual exclusion: a thread that is inside a call after a step made that step
\* itself, or nothing it relies on changed.
LEMMA Solo ==
  ASSUME IInv, [Next]_vars, NEW v \in Writers, pc'[v] # "idle"
  PROVE  \/ Write(v)
         \/ UNCHANGED <<pc, lock, entries, checkpoints, disk, draft, private_key>>
<1> TypeOK
  BY DEF IInv
<1>1. CASE \E w \in Writers : Write(w)
  <2>1. PICK w \in Writers : Write(w)
    BY <1>1
  <2>2. CASE w = v
    BY <2>1, <2>2
  <2>3. CASE w # v
    <3>1. pc'[v] = pc[v]
      BY <2>1, <2>3 DEF Write, BuildEntry, PublishEntry, ForceCheckpoint, SaveOpen,
         SaveWrite, SaveFails, CheckpointDue, CheckpointNotDue, ZeroInterval, Return,
         Release, TypeOK
    <3>2. lock = v /\ pc[w] = "idle"
      BY <2>3, <3>1, InsideCall
    <3>3. ~ Write(w)
      BY <3>2, LogAssumption DEF Write, BuildEntry, PublishEntry, ForceCheckpoint,
         Acquire, SaveOpen, SaveWrite, SaveFails, CheckpointDue, CheckpointNotDue,
         ZeroInterval
    <3> QED
      BY <2>1, <3>3
  <2> QED
    BY <2>2, <2>3
<1>2. CASE LoadKey \/ GenerateKey \/ WriteKey \/ Load
  <2>1. pc' = pc /\ status # "running"
    BY <1>2 DEF LoadKey, GenerateKey, WriteKey, Load
  <2> QED
    BY <2>1, InsideCall
<1>3. CASE Crash
  BY <1>3 DEF Crash, Exit
<1>4. CASE \E r \in Readers : StartVerify(r) \/ VerifyStep(r)
  BY <1>4 DEF StartVerify, VerifyStep, fileVars, memoryVars
<1>5. CASE UNCHANGED vars
  BY <1>5 DEF vars
<1> QED
  BY <1>1, <1>2, <1>3, <1>4, <1>5 DEF Next

LEMMA DraftStep ==
  ASSUME IInv, [Next]_vars
  PROVE  DraftInv'
<1> TypeOK /\ DraftInv
  BY DEF IInv
<1> SUFFICES ASSUME NEW v \in Writers, pc'[v] = "built"
             PROVE  \E data \in Data : draft'[v] = <<NewEntry(data)'>>
  BY DEF DraftInv
<1>1. CASE Write(v)
  <2>1. ASSUME NEW data \in Data, BuildEntry(v, data)
        PROVE  draft'[v] = <<NewEntry(data)'>>
    <3>1. draft'[v] = <<NewEntry(data)>> /\ entries' = entries
      BY <2>1 DEF BuildEntry, memoryVars, TypeOK
    <3> QED
      BY <3>1 DEF NewEntry, LastHash
  <2>2. ~ PublishEntry(v) /\ ~ ForceCheckpoint(v) /\ ~ SaveOpen(v) /\ ~ SaveWrite(v)
    BY DEF PublishEntry, ForceCheckpoint, SaveOpen, SaveWrite, Return, Release, TypeOK
  <2>3. ~ SaveFails(v) /\ ~ ZeroInterval(v)
    BY DEF SaveFails, ZeroInterval, Release, TypeOK
  <2>4. ~ CheckpointDue(v) /\ ~ CheckpointNotDue(v)
    <3>1. CheckpointDue(v) => pc' = [pc EXCEPT ![v] = "saveCheckpoint"]
      BY DEF CheckpointDue
    <3>2. CheckpointNotDue(v) => pc' = [pc EXCEPT ![v] = "idle"]
      BY DEF CheckpointNotDue, Return, Release
    <3> QED
      BY <3>1, <3>2 DEF TypeOK
  <2> QED
    BY <1>1, <2>1, <2>2, <2>3, <2>4 DEF Write
<1>2. CASE UNCHANGED <<pc, entries, draft>>
  <2>1. PICK data \in Data : draft[v] = <<NewEntry(data)>>
    BY <1>2 DEF DraftInv
  <2> QED
    BY <1>2, <2>1 DEF NewEntry, LastHash
<1> QED
  BY <1>1, <1>2, Solo

LEMMA PendingStep ==
  ASSUME IInv, [Next]_vars
  PROVE  PendingInv'
<1> TypeOK /\ PendingInv /\ DraftInv /\ Tiled(checkpoints, entries)
  BY DEF IInv, CheckpointsTile
<1> SUFFICES ASSUME NEW v \in Writers, pc'[v] \in {"save", "write", "due"}
             PROVE  /\ LastCheckpointEnd(checkpoints') < Len(entries') - 1
                    /\ pc'[v] = "due" => disk' = Saved'
  BY DEF PendingInv, LastCheckpointEnd
<1>1. CASE PublishEntry(v)
  <2>1. PICK data \in Data : draft[v] = <<NewEntry(data)>>
    BY <1>1 DEF PublishEntry, DraftInv
  <2>2. entries' = Append(entries, NewEntry(data)) /\ checkpoints' = checkpoints
        /\ pc'[v] = "save"
    BY <1>1, <2>1 DEF PublishEntry, TypeOK
  <2>3. Len(entries') = Len(entries) + 1
    BY <2>2, NewEntryType DEF TypeOK
  <2>4. LastCheckpointEnd(checkpoints) < Len(entries)
    <3>1. CASE checkpoints = <<>>
      <4>1. LastCheckpointEnd(checkpoints) = -1
        BY <3>1 DEF LastCheckpointEnd
      <4> QED
        BY <4>1 DEF TypeOK
    <3>2. CASE checkpoints # <<>>
      <4>1. Len(checkpoints) \in 1 .. Len(checkpoints)
        BY <3>2 DEF TypeOK
      <4>2. checkpoints[Len(checkpoints)].end_index < Len(entries)
        BY <4>1 DEF Tiled
      <4> QED
        BY <3>2, <4>2, LastCheckpointEndType DEF TypeOK
    <3> QED
      BY <3>1, <3>2
  <2>5. LastCheckpointEnd(checkpoints) \in Int /\ Len(entries) \in Nat
    BY LastCheckpointEndType DEF TypeOK
  <2> QED
    BY <2>2, <2>3, <2>4, <2>5
<1>2. CASE SaveOpen(v)
  BY <1>2 DEF SaveOpen, PendingInv, TypeOK, memoryVars
<1>3. CASE SaveWrite(v)
  BY <1>3 DEF SaveWrite, Return, Release, Saved, PendingInv, TypeOK, memoryVars
<1>4. CASE UNCHANGED <<pc, entries, checkpoints, disk>>
  BY <1>4 DEF PendingInv, Saved
<1>5. CASE Write(v) /\ ~ PublishEntry(v) /\ ~ SaveOpen(v) /\ ~ SaveWrite(v)
  <2>1. pc'[v] \in {"idle", "built", "saveCheckpoint"}
    <3>1. \A data \in Data : BuildEntry(v, data) => pc'[v] = "built"
      BY DEF BuildEntry, TypeOK
    <3>2. ForceCheckpoint(v) \/ CheckpointDue(v) => pc' = [pc EXCEPT ![v] = "saveCheckpoint"]
      BY DEF ForceCheckpoint, CheckpointDue
    <3>3. SaveFails(v) \/ CheckpointNotDue(v) \/ ZeroInterval(v)
            => pc' = [pc EXCEPT ![v] = "idle"]
      BY DEF SaveFails, CheckpointNotDue, ZeroInterval, Return, Release
    <3> QED
      BY <1>5, <3>1, <3>2, <3>3 DEF Write, TypeOK
  <2> QED
    BY <2>1
<1> QED
  BY <1>1, <1>2, <1>3, <1>4, <1>5, Solo

LEMMA MemoryStep ==
  ASSUME IInv, [Next]_vars
  PROVE  MemoryInv'
<1> TypeOK /\ MemoryInv /\ CheckpointsVerifiable
  BY DEF IInv
<1>1. CASE Crash
  BY <1>1 DEF Crash, Exit, MemoryInv, TypeOK
<1>2. CASE LoadKey \/ GenerateKey \/ WriteKey
  BY <1>2 DEF LoadKey, GenerateKey, WriteKey, MemoryInv, DiskInv, IInv, TypeOK,
              memoryVars
<1>3. CASE Load
  BY <1>3 DEF Load, MemoryInv, CheckpointsVerifiable, memoryVars, fileVars, TypeOK
<1>4. CASE /\ UNCHANGED <<status, key_file, private_key>>
           /\ ~ Crash /\ ~ Load
  <2>1. CASE UNCHANGED <<entries, checkpoints>>
    BY <1>4, <2>1 DEF MemoryInv
  <2>2. ASSUME NEW w \in Writers, PublishEntry(w)
        PROVE  MemoryInv'
    BY <1>4, <2>2, InsideCall DEF PublishEntry, MemoryInv
  <2>3. ASSUME NEW w \in Writers, ForceCheckpoint(w) \/ CheckpointDue(w)
        PROVE  MemoryInv'
    <3>1. status = "running"
      <4>1. CASE ForceCheckpoint(w)
        BY <4>1 DEF ForceCheckpoint, Acquire
      <4>2. CASE CheckpointDue(w)
        <5>1. pc[w] = "due"
          BY <4>2 DEF CheckpointDue
        <5> QED
          BY <5>1, InsideCall
      <4> QED
        BY <2>3, <4>1, <4>2
    <3>2. checkpoints' = Append(checkpoints, NewCheckpoint)
      BY <2>3 DEF ForceCheckpoint, CheckpointDue
    <3>3. NewCheckpoint.signature = private_key
      BY DEF NewCheckpoint
    <3>4. \A k \in 1 .. Len(checkpoints') : checkpoints'[k].signature = private_key
      <4>1. checkpoints \in Seq(Checkpoint)
        BY DEF TypeOK
      <4>2. \A k \in 1 .. Len(checkpoints) : checkpoints[k].signature = private_key
        BY DEF MemoryInv
      <4> QED
        BY <3>2, <3>3, <4>1, <4>2
    <3> QED
      BY <1>4, <3>1, <3>4 DEF MemoryInv, TornKey
  <2> QED
    BY <1>4, <2>1, <2>2, <2>3, Writes
<1> QED
  BY <1>1, <1>2, <1>3, <1>4, Writes

LEMMA PrefixElementwise ==
  ASSUME NEW S, NEW s \in Seq(S), NEW t \in Seq(S)
  PROVE  IsPrefix(s, t) <=> /\ Len(s) <= Len(t)
                            /\ \A i \in 1 .. Len(s) : s[i] = t[i]
<1> DEFINE p == SubSeq(t, 1, Len(s))
<1>1. SubSeq(s, 1, Len(s)) = s
  OBVIOUS
<1>2. CASE Len(s) <= Len(t)
  <2>1. /\ p \in Seq(S) /\ Len(p) = Len(s)
        /\ \A i \in 1 .. Len(s) : p[i] = t[i]
    BY <1>2
  <2>2. s = p <=> \A i \in 1 .. Len(s) : s[i] = t[i]
    <3> HIDE DEF p
    <3>1. (\A i \in 1 .. Len(s) : s[i] = p[i]) => s = p
      BY <2>1, SeqEqual
    <3> QED
      BY <2>1, <3>1
  <2> QED
    BY <1>1, <1>2, <2>2 DEF IsPrefix
<1>3. CASE ~ Len(s) <= Len(t)
  BY <1>3 DEF IsPrefix
<1> QED
  BY <1>2, <1>3

LEMMA PrefixAppend ==
  ASSUME NEW S, NEW s \in Seq(S), NEW t \in Seq(S), NEW e \in S, IsPrefix(s, t)
  PROVE  IsPrefix(s, Append(t, e))
<1>1. /\ Append(t, e) \in Seq(S)
      /\ Len(Append(t, e)) = Len(t) + 1
      /\ \A i \in 1 .. Len(t) : Append(t, e)[i] = t[i]
  OBVIOUS
<1>2. Len(s) <= Len(t) /\ \A i \in 1 .. Len(s) : s[i] = t[i]
  BY PrefixElementwise
<1>3. Len(s) <= Len(Append(t, e)) /\ \A i \in 1 .. Len(s) : s[i] = Append(t, e)[i]
  BY <1>1, <1>2
<1> QED
  BY <1>1, <1>3, PrefixElementwise

LEMMA DiskStep ==
  ASSUME IInv, [Next]_vars
  PROVE  DiskInv'
<1> TypeOK /\ DiskInv /\ MemoryInv
  BY DEF IInv
<1>1. (disk.state # "ok" => disk.entries = <<>> /\ disk.checkpoints = <<>>)'
  BY Writes DEF DiskInv, SaveOpen, SaveWrite, Torn, Saved
<1>2. (key_file.state = "ok" => key_file.key \in Keys)'
  BY Writes DEF DiskInv, MemoryInv, LoadKey, GenerateKey, WriteKey, Load, Crash, Exit,
                fileVars, TornKey
<1>3. ASSUME status' = "running", disk'.state # "torn"
      PROVE  IsPrefix(disk'.entries, entries')
  <2>1. CASE Load
    <3>1. disk' = disk /\ entries' = disk.entries
      BY <1>3, <2>1 DEF Load, fileVars
    <3>2. IsPrefix(disk.entries, disk.entries)
      BY DEF IsPrefix, TypeOK
    <3> QED
      BY <3>1, <3>2
  <2>2. CASE /\ ~ Load
             /\ UNCHANGED <<status, key_file, private_key>>
    <3>1. CASE UNCHANGED <<entries, disk>>
      BY <1>3, <2>2, <3>1 DEF DiskInv
    <3>2. ASSUME NEW w \in Writers, PublishEntry(w)
          PROVE  IsPrefix(disk'.entries, entries')
      <4>1. PICK data \in Data : draft[w] = <<NewEntry(data)>>
        BY <3>2 DEF PublishEntry, IInv, DraftInv
      <4>2. entries' = Append(entries, NewEntry(data)) /\ disk' = disk
        BY <3>2, <4>1 DEF PublishEntry, fileVars
      <4>3. NewEntry(data) \in Entry
        BY NewEntryType DEF TypeOK
      <4>4. IsPrefix(disk.entries, entries)
        BY <1>3, <2>2, <4>2 DEF DiskInv
      <4>5. disk.entries \in Seq(Entry) /\ entries \in Seq(Entry)
        BY DEF TypeOK
      <4> QED
        BY <4>2, <4>3, <4>4, <4>5, PrefixAppend
    <3>3. ASSUME NEW w \in Writers, SaveOpen(w) \/ SaveWrite(w)
          PROVE  IsPrefix(disk'.entries, entries')
      <4>1. disk'.entries = entries /\ entries' = entries
        BY <1>3, <3>3 DEF SaveOpen, SaveWrite, Torn, Saved, memoryVars
      <4>2. IsPrefix(entries, entries)
        BY DEF IsPrefix, TypeOK
      <4> QED
        BY <4>1, <4>2
    <3>4. ~ Crash
      BY <1>3 DEF Crash, Exit
    <3> QED
      BY <2>2, <3>1, <3>2, <3>3, <3>4, Writes
  <2>3. ~ LoadKey /\ ~ GenerateKey /\ ~ WriteKey /\ ~ Crash
    BY <1>3 DEF LoadKey, GenerateKey, WriteKey, Crash, Exit
  <2> QED
    BY <2>1, <2>2, <2>3, Writes
<1> QED
  BY <1>1, <1>2, <1>3 DEF DiskInv

LEMMA AckedStep ==
  ASSUME IInv, [Next]_vars
  PROVE  AckedInv' /\ AckedOnDisk'
<1> TypeOK /\ AckedInv /\ AckedOnDisk
  BY DEF IInv
<1> USE DEF AckedInv, AckedOnDisk
<1>0. Len(entries) \in Nat /\ acked \in Nat
  BY DEF TypeOK
<1>1. CASE \E w \in Writers : SaveWrite(w)
  BY <1>0, <1>1, InsideCall DEF SaveWrite, Return, Saved, memoryVars
<1>2. CASE \E w \in Writers : CheckpointNotDue(w)
  <2>1. PICK w \in Writers : CheckpointNotDue(w)
    BY <1>2
  <2>2. pc[w] = "due" /\ acked' = Len(entries) /\ entries' = entries /\ disk' = disk
    BY <2>1 DEF CheckpointNotDue, Return, memoryVars, fileVars
  <2>3. disk.entries = entries
    BY <2>2 DEF IInv, PendingInv, Saved
  <2> QED
    BY <1>0, <2>2, <2>3
<1>3. CASE UNCHANGED acked
  <2>1. CASE \E w \in Writers : SaveOpen(w)
    BY <1>3, <2>1 DEF SaveOpen, Torn, memoryVars
  <2>2. CASE \E w \in Writers : PublishEntry(w)
    BY <1>0, <1>3, <2>2 DEF PublishEntry, fileVars, TypeOK
  <2>3. CASE Crash \/ Load
    BY <1>3, <2>3 DEF Crash, Exit, Load, fileVars
  <2>4. CASE UNCHANGED <<entries, disk>> /\ (status' = "running" => status = "running")
    BY <1>3, <2>4
  <2>5. LoadKey \/ GenerateKey \/ WriteKey => status' # "running"
    BY DEF LoadKey, GenerateKey, WriteKey, TypeOK
  <2> QED
    BY <1>1, <2>1, <2>2, <2>3, <2>4, <2>5, Writes
<1> QED
  BY <1>1, <1>2, <1>3, Writes

LEMMA CursorStep ==
  ASSUME IInv, [Next]_vars
  PROVE  CursorInv'
<1> TypeOK /\ CursorInv /\ MemoryInv
  BY DEF IInv
<1>0. Len(entries) \in Nat /\ \A r \in Readers : cursor[r].at \in Nat
  BY DEF TypeOK
<1>1. CASE Crash
  BY <1>1 DEF Crash, Exit, CursorInv, NotReading, Reading
<1>2. CASE UNCHANGED readVars /\ UNCHANGED entries
  BY <1>2 DEF CursorInv, readVars
<1>3. CASE UNCHANGED readVars /\ Load
  <2>1. disk.entries \in Seq(Entry)
    BY DEF TypeOK
  <2>2. entries = <<>> /\ (entries' = entries \/ entries' = disk.entries)
    BY <1>3 DEF Load, MemoryInv, memoryVars
  <2>3. \A r \in Readers : cursor[r].at > 0 =>
          cursor[r].at = 1 /\ cursor[r].prev = GENESIS_HASH
    BY <1>0, <2>2 DEF CursorInv
  <2>4. Len(entries') \in Nat
    BY <1>0, <2>1, <2>2
  <2> QED
    BY <1>3, <2>3, <2>4 DEF CursorInv, readVars
<1>4. CASE UNCHANGED readVars /\ \E w \in Writers : PublishEntry(w)
  <2>1. /\ Len(entries') = Len(entries) + 1
        /\ \A i \in 1 .. Len(entries) : entries'[i] = entries[i]
    BY <1>4 DEF PublishEntry, TypeOK
  <2> QED
    BY <1>0, <1>4, <2>1 DEF CursorInv, readVars
<1>5. ASSUME NEW r \in Readers, StartVerify(r)
      PROVE  CursorInv'
  <2>1. cursor' = [cursor EXCEPT ![r] = Reading(GENESIS_HASH, 1)] /\ entries' = entries
    BY <1>5 DEF StartVerify, memoryVars
  <2>2. cursor \in [Readers -> [at : Nat, prev : Hash]]
    BY DEF TypeOK
  <2>3. /\ cursor'[r] = Reading(GENESIS_HASH, 1)
        /\ \A q \in Readers \ {r} : cursor'[q] = cursor[q]
    BY <2>1, <2>2
  <2>4. Reading(GENESIS_HASH, 1).at = 1 /\ Reading(GENESIS_HASH, 1).prev = GENESIS_HASH
    BY DEF Reading
  <2>5. Len(entries) \in Nat
    BY DEF TypeOK
  <2> SUFFICES ASSUME NEW q \in Readers, cursor'[q].at > 0
               PROVE  /\ cursor'[q].at <= Len(entries) + 1
                      /\ cursor'[q].prev =
                           IF cursor'[q].at = 1 THEN GENESIS_HASH
                           ELSE entries[cursor'[q].at - 1].entry_hash
    BY <2>1 DEF CursorInv
  <2>6. CASE q = r
    BY <2>3, <2>4, <2>5, <2>6
  <2>7. CASE q # r
    <3>1. cursor'[q] = cursor[q]
      BY <2>3, <2>7
    <3> QED
      BY <1>0, <3>1 DEF CursorInv
  <2> QED
    BY <2>6, <2>7
<1>6. ASSUME NEW r \in Readers, VerifyStep(r)
      PROVE  CursorInv'
  <2>1. entries' = entries
    BY <1>6 DEF VerifyStep, memoryVars
  <2>2. CASE cursor' = [cursor EXCEPT ![r] = NotReading]
    BY <2>1, <2>2 DEF CursorInv, NotReading, Reading, TypeOK
  <2>3. CASE /\ cursor[r].at > 0 /\ ~ cursor[r].at > Len(entries)
             /\ cursor' = [cursor EXCEPT ![r] =
                  Reading(entries[cursor[r].at].entry_hash, cursor[r].at + 1)]
    <3> DEFINE next == Reading(entries[cursor[r].at].entry_hash, cursor[r].at + 1)
    <3>1. /\ next.at = cursor[r].at + 1
          /\ next.prev = entries[cursor[r].at].entry_hash
      BY DEF Reading
    <3>2. cursor[r].at \in Nat /\ cursor[r].at > 0 /\ cursor[r].at <= Len(entries)
          /\ Len(entries) \in Nat
      BY <2>3 DEF TypeOK
    <3>3. cursor' = [cursor EXCEPT ![r] = next]
      BY <2>3
    <3> HIDE DEF next
    <3>4. cursor'[r] = next /\ \A q \in Readers \ {r} : cursor'[q] = cursor[q]
      BY <3>3 DEF TypeOK
    <3> SUFFICES ASSUME NEW q \in Readers, cursor'[q].at > 0
                 PROVE  /\ cursor'[q].at <= Len(entries) + 1
                        /\ cursor'[q].prev =
                             IF cursor'[q].at = 1 THEN GENESIS_HASH
                             ELSE entries[cursor'[q].at - 1].entry_hash
      BY <2>1 DEF CursorInv
    <3>5. CASE q = r
      BY <3>1, <3>2, <3>4, <3>5
    <3>6. CASE q # r
      <4>1. cursor'[q] = cursor[q]
        BY <3>4, <3>6
      <4> QED
        BY <1>0, <4>1 DEF CursorInv
    <3> QED
      BY <3>5, <3>6
  <2> QED
    BY <1>6, <2>2, <2>3 DEF VerifyStep, Answer
<1> QED
  BY <1>1, <1>2, <1>3, <1>4, <1>5, <1>6, Writes

LEMMA VerdictStep ==
  ASSUME IInv, [Next]_vars
  PROVE  NoFalseAlarm'
<1> TypeOK /\ CursorInv /\ Chained(entries) /\ NoFalseAlarm
  BY DEF IInv, ChainIntact
<1>1. CASE Crash \/ UNCHANGED readVars
  BY <1>1 DEF Crash, Exit, readVars, NoFalseAlarm
<1>2. ASSUME NEW r \in Readers, StartVerify(r)
      PROVE  NoFalseAlarm'
  BY <1>2 DEF StartVerify, NoFalseAlarm, TypeOK
<1>3. ASSUME NEW r \in Readers, VerifyStep(r)
      PROVE  NoFalseAlarm'
  <2>0. cursor[r].at \in Nat /\ Len(entries) \in Nat /\ cursor[r].at > 0
    BY <1>3 DEF VerifyStep, TypeOK
  <2>1. CASE cursor[r].at > Len(entries)
    <3>1. verdict' = [verdict EXCEPT ![r] = "intact"]
      BY <1>3, <2>1 DEF VerifyStep, Answer
    <3> QED
      BY <3>1 DEF NoFalseAlarm, TypeOK
  <2>2. CASE ~ cursor[r].at > Len(entries)
    <3>1. EntryOK(entries[cursor[r].at], cursor[r].prev)
      <4>1. cursor[r].at \in 1 .. Len(entries)
        BY <2>0, <2>2
      <4>2. cursor[r].prev = IF cursor[r].at = 1 THEN GENESIS_HASH
                             ELSE entries[cursor[r].at - 1].entry_hash
        BY <2>0 DEF CursorInv
      <4> QED
        BY <4>1, <4>2 DEF Chained
    <3>2. verdict' = verdict
      BY <1>3, <2>2, <3>1 DEF VerifyStep
    <3> QED
      BY <3>2 DEF NoFalseAlarm
  <2> QED
    BY <2>1, <2>2
<1> QED
  BY <1>1, <1>2, <1>3, Writes

LEMMA VerifiableStep ==
  ASSUME IInv, [Next]_vars
  PROVE  CheckpointsVerifiable'
<1> TypeOK /\ MemoryInv /\ CheckpointsVerifiable
  BY DEF IInv
<1>1. CASE \E w \in Writers : SaveOpen(w)
  BY <1>1 DEF SaveOpen, Torn, CheckpointsVerifiable
<1>2. CASE \E w \in Writers : SaveWrite(w)
  <2>1. PICK w \in Writers : SaveWrite(w)
    BY <1>2
  <2>2. disk'.checkpoints = checkpoints /\ key_file' = key_file /\ pc[w] # "idle"
    BY <2>1 DEF SaveWrite, Saved
  <2>3. key_file = [state |-> "ok", key |-> private_key]
    BY <2>2, InsideCall
  <2> QED
    BY <2>2, <2>3 DEF CheckpointsVerifiable, MemoryInv
<1>3. CASE UNCHANGED disk
  <2>1. CASE key_file.state # "ok"
    BY <1>3, <2>1 DEF CheckpointsVerifiable
  <2>2. CASE key_file.state = "ok"
    <3>1. key_file' = key_file
      BY <2>2, Writes DEF LoadKey, GenerateKey, WriteKey, Load, Crash, Exit, fileVars,
                          MemoryInv, TornKey
    <3> QED
      BY <1>3, <3>1 DEF CheckpointsVerifiable
  <2> QED
    BY <2>1, <2>2
<1> QED
  BY <1>1, <1>2, <1>3, Writes

-----------------------------------------------------------------------------
(* The whole invariant, in a log of its own and in one inside a program.   *)

LEMMA Preserved ==
  ASSUME IInv, [Next]_vars
  PROVE  IInv'
<1>1. TypeOK' /\ LockInv' /\ DraftInv' /\ MemoryInv' /\ PendingInv' /\ DiskInv'
  BY TypeStep, LockStep, DraftStep, MemoryStep, PendingStep, DiskStep
<1>2. AckedInv' /\ AckedOnDisk' /\ CursorInv' /\ NoFalseAlarm'
  BY AckedStep, CursorStep, VerdictStep
<1>3. ChainIntact' /\ CheckpointsTile' /\ CheckpointsVerifiable'
  BY ChainStep, TileStep, VerifiableStep
<1> QED
  BY <1>1, <1>2, <1>3 DEF IInv

\* A process may also end when nothing fails.
LEMMA ExitPreserves ==
  ASSUME IInv, Exit, faults' \in Nat
  PROVE  IInv'
<1> USE LogAssumption DEF Exit, fileVars
<1>0. TypeOK /\ DiskInv /\ ChainIntact /\ CheckpointsTile /\ CheckpointsVerifiable /\ AckedOnDisk
  BY DEF IInv
<1>1. TypeOK'
  <2>1. NotReading \in [at : Nat, prev : Hash]
    BY DEF NotReading, Reading, GENESIS_HASH, Hash
  <2> QED
    BY <1>0, <2>1 DEF TypeOK
<1>2. LockInv' /\ DraftInv' /\ MemoryInv' /\ PendingInv' /\ AckedInv'
  BY DEF LockInv, DraftInv, MemoryInv, PendingInv, AckedInv
<1>3. DiskInv' /\ CursorInv'
  BY <1>0 DEF DiskInv, CursorInv, NotReading, Reading
<1>4. ChainIntact' /\ CheckpointsTile' /\ CheckpointsVerifiable'
  BY <1>0 DEF ChainIntact, Chained, CheckpointsTile, Tiled, CheckpointsVerifiable
<1>5. NoFalseAlarm' /\ AckedOnDisk'
  BY <1>0 DEF NoFalseAlarm, AckedOnDisk
<1> QED
  BY <1>1, <1>2, <1>3, <1>4, <1>5 DEF IInv

\* Something outside the log fails.
LEMMA FaultPreserves ==
  ASSUME IInv, faults' \in Nat,
         UNCHANGED <<checkpoint_interval, status, key_file, private_key, entries, checkpoints,
                     disk, lock, pc, draft, cursor, verdict, acked>>
  PROVE  IInv'
<1>1. TypeOK' /\ LockInv' /\ DraftInv' /\ MemoryInv' /\ PendingInv' /\ DiskInv'
  BY DEF IInv, TypeOK, LockInv, DraftInv, NewEntry, MemoryInv, PendingInv, Saved, DiskInv
<1>2. AckedInv' /\ AckedOnDisk' /\ CursorInv' /\ NoFalseAlarm'
  BY DEF IInv, AckedInv, AckedOnDisk, CursorInv, NoFalseAlarm
<1>3. ChainIntact' /\ CheckpointsTile' /\ CheckpointsVerifiable'
  BY DEF IInv, ChainIntact, CheckpointsTile, CheckpointsVerifiable
<1> QED
  BY <1>1, <1>2, <1>3 DEF IInv

-----------------------------------------------------------------------------
(* The theorems.                                                           *)

LEMMA Inductive == Spec => []IInv
<1>1. IInv /\ [Next]_vars => IInv'
  BY Preserved
<1> QED
  BY <1>1, InitInv, PTL DEF Spec

\* Every variable keeps its type, whatever the threads, crashes and restarts.
THEOREM Typed == Spec => []TypeOK
<1>1. IInv => TypeOK
  BY DEF IInv
<1> QED
  BY <1>1, Inductive, PTL

\* The log in memory and the log in the file are unbroken chains from genesis
\* in every reachable state.
THEOREM ChainAlwaysIntact == Spec => []ChainIntact
<1>1. IInv => ChainIntact
  BY DEF IInv
<1> QED
  BY <1>1, Inductive, PTL

\* The checkpoints always tile a prefix of the entries, for any interval.
THEOREM CheckpointsAlwaysTile == Spec => []CheckpointsTile
<1>1. IInv => CheckpointsTile
  BY DEF IInv
<1> QED
  BY <1>1, Inductive, PTL

\* Every stored checkpoint can be verified with the stored key.
THEOREM CheckpointsAlwaysVerifiable == Spec => []CheckpointsVerifiable
<1>1. IInv => CheckpointsVerifiable
  BY DEF IInv
<1> QED
  BY <1>1, Inductive, PTL

\* verify_chain, which takes no lock, never reports an intact log as broken.
THEOREM NeverFalseAlarm == Spec => []NoFalseAlarm
<1>1. IInv => NoFalseAlarm
  BY DEF IInv
<1> QED
  BY <1>1, Inductive, PTL

\* A readable file holds at least what was acknowledged.
THEOREM AckedAlwaysOnDisk == Spec => []AckedOnDisk
<1>1. IInv => AckedOnDisk
  BY DEF IInv
<1> QED
  BY <1>1, Inductive, PTL

-----------------------------------------------------------------------------
(* How far checkpoints fall behind: CheckpointLag.                         *)

\* The last multiple of the interval c that a log of n entries has passed.
Boundary(n, c) == n - (n % c)

\* No more than f of the boundaries passed come after the last checkpoint.
Missed(es, cps, f, c) ==
  Boundary(Len(es), c) <= LastCheckpointEnd(cps) + 1 + f * c

\* Each fault has made the log miss one boundary at most; the boundary of the
\* call under way is yet to be seen to, in memory and then in the file.
LagInv ==
  checkpoint_interval > 0 =>
    /\ Missed(entries, checkpoints, faults + 1, checkpoint_interval)
    /\ ~ AtBoundary \/ (\A w \in Writers : pc[w] \notin {"save", "write", "due"}) =>
         Missed(entries, checkpoints, faults, checkpoint_interval)
    /\ disk.state # "torn" =>
         /\ Missed(disk.entries, disk.checkpoints, faults + 1, checkpoint_interval)
         /\ (\A w \in Writers : pc[w] \notin {"due", "saveCheckpoint"}) =>
              Missed(disk.entries, disk.checkpoints, faults, checkpoint_interval)

LEMMA NextRemainder ==
  ASSUME NEW n \in Nat, NEW c \in Nat \ {0}
  PROVE  /\ n % c \in 0 .. c - 1
         /\ (n + 1) % c = 0 => n % c = c - 1
         /\ (n + 1) % c # 0 => (n + 1) % c = (n % c) + 1
<1> DEFINE q == n \div c
           p == (n + 1) \div c
           r == n % c
           s == (n + 1) % c
<1>1. q \in Nat /\ r \in 0 .. c - 1 /\ n = (c * q) + r
  OBVIOUS
<1>2. p \in Nat /\ s \in 0 .. c - 1 /\ n + 1 = (c * p) + s
  OBVIOUS
<1> HIDE DEF q, p, r, s
<1>3. p <= q + 1
  <2>1. CASE p >= q + 2
    <3>1. c * p >= c * (q + 2)
      BY <1>1, <1>2, <2>1
    <3>2. c * (q + 2) = (c * q) + c + c
      BY <1>1
    <3> QED
      BY <1>1, <1>2, <3>1, <3>2
  <2> QED
    BY <1>1, <1>2, <2>1
<1>4. p >= q
  <2>1. CASE q >= p + 1
    <3>1. c * q >= c * (p + 1)
      BY <1>1, <1>2, <2>1
    <3>2. c * (p + 1) = (c * p) + c
      BY <1>2
    <3> QED
      BY <1>1, <1>2, <3>1, <3>2
  <2> QED
    BY <1>1, <1>2, <2>1
<1>5. CASE p = q
  BY <1>1, <1>2, <1>5 DEF r, s
<1>6. CASE p = q + 1
  <2>1. c * p = (c * q) + c
    BY <1>1, <1>6
  <2> QED
    BY <1>1, <1>2, <2>1 DEF r, s
<1> QED
  BY <1>1, <1>2, <1>3, <1>4, <1>5, <1>6

\* The constants of the argument.
LEMMA LagTypes ==
  ASSUME TypeOK, checkpoint_interval > 0
  PROVE  /\ checkpoint_interval \in Nat \ {0} /\ faults \in Nat
         /\ entries \in Seq(Entry) /\ checkpoints \in Seq(Checkpoint)
         /\ disk.entries \in Seq(Entry) /\ disk.checkpoints \in Seq(Checkpoint)
BY LogAssumption DEF TypeOK

LEMMA MissedTypes ==
  ASSUME NEW c \in Nat \ {0}, NEW es \in Seq(Entry), NEW cps \in Seq(Checkpoint),
         NEW f \in Nat
  PROVE  /\ Boundary(Len(es), c) \in Int /\ Boundary(Len(es), c) <= Len(es)
         /\ LastCheckpointEnd(cps) \in Int
         /\ f * c \in Nat
         /\ (f + 1) * c = (f * c) + c
<1>1. Len(es) % c \in 0 .. c - 1
  BY NextRemainder
<1>2. LastCheckpointEnd(cps) \in Int
  BY LastCheckpointEndType
<1>3. f * c \in Nat
  OBVIOUS
<1>4. (f + 1) * c = (f * c) + c
  OBVIOUS
<1> QED
  BY <1>1, <1>2, <1>3, <1>4 DEF Boundary

\* A fault more allows for more.
LEMMA MissedOneMore ==
  ASSUME NEW c \in Nat \ {0}, NEW es \in Seq(Entry), NEW cps \in Seq(Checkpoint),
         NEW f \in Nat, Missed(es, cps, f, c)
  PROVE  Missed(es, cps, f + 1, c)
BY MissedTypes DEF Missed

LEMMA MissedAppend ==
  ASSUME NEW c \in Nat \ {0}, NEW es \in Seq(Entry), NEW cps \in Seq(Checkpoint),
         NEW f \in Nat, NEW e \in Entry, Missed(es, cps, f, c)
  PROVE  /\ Missed(Append(es, e), cps, f + 1, c)
         /\ Len(Append(es, e)) % c # 0 => Missed(Append(es, e), cps, f, c)
<1> DEFINE n == Len(es)
<1>1. n \in Nat /\ Len(Append(es, e)) = n + 1
  OBVIOUS
<1>2. /\ n % c \in 0 .. c - 1
      /\ (n + 1) % c = 0 => n % c = c - 1
      /\ (n + 1) % c # 0 =>
           (n + 1) % c = (n % c) + 1
  BY <1>1, NextRemainder
<1>3. /\ (n + 1) % c = 0 => Boundary(n + 1, c) = Boundary(n, c) + c
      /\ (n + 1) % c # 0 => Boundary(n + 1, c) = Boundary(n, c)
  BY <1>1, <1>2 DEF Boundary
<1>4. /\ Boundary(n, c) \in Int /\ LastCheckpointEnd(cps) \in Int /\ f * c \in Nat
      /\ (f + 1) * c = (f * c) + c
  BY MissedTypes
<1>5. Boundary(n, c) <= LastCheckpointEnd(cps) + 1 + f * c
  BY DEF Missed
<1> HIDE DEF n
<1> QED
  BY <1>1, <1>3, <1>4, <1>5 DEF Missed

\* A checkpoint sees to every boundary.
LEMMA MissedNone ==
  ASSUME NEW c \in Nat \ {0}, entries \in Seq(Entry), checkpoints \in Seq(Checkpoint),
         NEW f \in Nat
  PROVE  Missed(entries, Append(checkpoints, NewCheckpoint), f, c)
<1> DEFINE cps == Append(checkpoints, NewCheckpoint)
<1>0. cps # <<>> /\ cps[Len(cps)] = NewCheckpoint
  OBVIOUS
<1>1. LastCheckpointEnd(cps) = Len(entries) - 1
  BY <1>0 DEF LastCheckpointEnd, Last, NewCheckpoint
<1>2. /\ Boundary(Len(entries), c) \in Int /\ Boundary(Len(entries), c) <= Len(entries)
      /\ f * c \in Nat
  BY MissedTypes
<1> HIDE DEF cps
<1>3. Missed(entries, cps, f, c)
  BY <1>1, <1>2 DEF Missed
<1> QED
  BY <1>3 DEF cps

LEMMA MissedEmpty ==
  ASSUME NEW c \in Nat \ {0}, NEW f \in Nat
  PROVE  Missed(<<>>, <<>>, f, c)
<1>1. <<>> \in Seq(Entry) /\ <<>> \in Seq(Checkpoint) /\ Len(<<>>) = 0
  OBVIOUS
<1>2. LastCheckpointEnd(<<>>) = -1
  BY DEF LastCheckpointEnd
<1>3. Boundary(0, c) \in Int /\ Boundary(0, c) <= 0 /\ f * c \in Nat
  BY <1>1, MissedTypes
<1> QED
  BY <1>1, <1>2, <1>3 DEF Missed

LEMMA LagIsBounded ==
  ASSUME IInv, LagInv
  PROVE  CheckpointLag
<1> SUFFICES ASSUME status = "running", lock = Nobody, checkpoint_interval > 0
             PROVE  Len(entries) - (LastCheckpointEnd(checkpoints) + 1)
                      < checkpoint_interval * (1 + faults)
  BY DEF CheckpointLag
<1>1. /\ checkpoint_interval \in Nat \ {0} /\ faults \in Nat
      /\ entries \in Seq(Entry) /\ checkpoints \in Seq(Checkpoint)
  BY LagTypes DEF IInv
<1>2. \A w \in Writers : pc[w] = "idle"
  BY LogAssumption DEF IInv, LockInv
<1>3. Missed(entries, checkpoints, faults, checkpoint_interval)
  BY <1>2 DEF LagInv
<1>4. /\ LastCheckpointEnd(checkpoints) \in Int /\ faults * checkpoint_interval \in Nat
      /\ Len(entries) \in Nat
  BY <1>1, MissedTypes
<1>5. Len(entries) % checkpoint_interval \in 0 .. checkpoint_interval - 1
  BY <1>1, <1>4, NextRemainder
<1>6. checkpoint_interval * (1 + faults) = (faults * checkpoint_interval) + checkpoint_interval
  BY <1>1
<1> QED
  BY <1>1, <1>3, <1>4, <1>5, <1>6 DEF Missed, Boundary

LEMMA LagInit == Init => LagInv
<1> SUFFICES ASSUME Init, checkpoint_interval > 0 PROVE LagInv
  BY DEF LagInv
<1>1. checkpoint_interval \in Nat \ {0} /\ faults = 0
  BY LogAssumption DEF Init
<1>2. Missed(<<>>, <<>>, 0, checkpoint_interval) /\ Missed(<<>>, <<>>, 0 + 1, checkpoint_interval)
  BY <1>1, MissedEmpty
<1> QED
  BY <1>1, <1>2 DEF Init, LagInv, Absent

LEMMA LagStep ==
  ASSUME IInv, LagInv, [Next]_vars
  PROVE  LagInv'
<1>0. checkpoint_interval' = checkpoint_interval
  BY DEF Next, vars, Write, LoadKey, GenerateKey, WriteKey, Load, BuildEntry, PublishEntry,
         ForceCheckpoint, SaveOpen, SaveWrite, SaveFails, CheckpointDue, CheckpointNotDue,
         ZeroInterval, StartVerify, VerifyStep, Crash, Exit
<1> SUFFICES ASSUME checkpoint_interval > 0 PROVE LagInv'
  BY <1>0 DEF LagInv
<1>1. /\ checkpoint_interval \in Nat \ {0} /\ faults \in Nat
      /\ entries \in Seq(Entry) /\ checkpoints \in Seq(Checkpoint)
      /\ disk.entries \in Seq(Entry) /\ disk.checkpoints \in Seq(Checkpoint)
  BY LagTypes DEF IInv
<1>2. \A w \in Writers : pc[w] # "idle" => \A v \in Writers \ {w} : pc[v] = "idle"
  BY DEF IInv, LockInv
<1>3. pc \in [Writers -> {"idle", "built", "save", "write", "due", "saveCheckpoint", "writeCheckpoint"}]
  BY DEF IInv, TypeOK
<1>4. /\ \A es, cps : Missed(es, cps, faults, checkpoint_interval)
           /\ es \in Seq(Entry) /\ cps \in Seq(Checkpoint) =>
             Missed(es, cps, faults + 1, checkpoint_interval)
      /\ \A es, cps : Missed(es, cps, faults + 1, checkpoint_interval)
           /\ es \in Seq(Entry) /\ cps \in Seq(Checkpoint) =>
             Missed(es, cps, faults + 1 + 1, checkpoint_interval)
  BY <1>1, MissedOneMore
<1>5. CASE Crash
  <2>1. /\ entries' = <<>> /\ checkpoints' = <<>> /\ disk' = disk /\ faults' = faults + 1
    BY <1>5 DEF Crash, Exit, fileVars
  <2>2. \A f \in Nat : Missed(<<>>, <<>>, f, checkpoint_interval)
    BY <1>1, MissedEmpty
  <2>3. /\ Missed(entries', checkpoints', faults' + 1, checkpoint_interval)
        /\ Missed(entries', checkpoints', faults', checkpoint_interval)
    BY <1>1, <2>1, <2>2
  <2>4. disk.state # "torn" =>
          /\ Missed(disk.entries, disk.checkpoints, faults + 1, checkpoint_interval)
          /\ Missed(disk.entries, disk.checkpoints, faults + 1 + 1, checkpoint_interval)
    BY <1>1, <1>4 DEF LagInv
  <2> QED
    BY <1>0, <2>1, <2>3, <2>4 DEF LagInv
<1>6. CASE Load
  <2>1. /\ pc' = pc /\ disk' = disk /\ faults' = faults
        /\ \/ disk.state # "torn" /\ entries' = disk.entries /\ checkpoints' = disk.checkpoints
           \/ UNCHANGED <<entries, checkpoints>>
    BY <1>6 DEF Load, fileVars, memoryVars
  <2>2. \A w \in Writers : pc[w] = "idle"
    BY <1>6, LogAssumption DEF Load, IInv, LockInv
  <2> QED
    BY <1>0, <2>1, <2>2 DEF LagInv, AtBoundary
<1>7. CASE UNCHANGED <<pc, entries, checkpoints, disk, faults>>
  BY <1>0, <1>7 DEF LagInv, AtBoundary
<1>8. ASSUME NEW w \in Writers, Write(w) PROVE LagInv'
  <2>1. CASE \E data \in Data : BuildEntry(w, data)
    <3>1. UNCHANGED <<entries, checkpoints, disk, faults>>
      BY <2>1 DEF BuildEntry, fileVars, memoryVars
    <3>2. \A v \in Writers : pc[v] = "idle" /\ pc'[v] \in {"idle", "built"}
      BY <2>1, <1>3, LogAssumption DEF BuildEntry, Acquire, IInv, LockInv
    <3> QED
      BY <1>0, <3>1, <3>2 DEF LagInv, AtBoundary
  <2>2. CASE PublishEntry(w)
    <3>1. /\ UNCHANGED <<checkpoints, disk, faults>>
          /\ pc[w] = "built" /\ entries' = Append(entries, Head(draft[w]))
      BY <2>2 DEF PublishEntry, fileVars
    <3>2. Head(draft[w]) \in Entry
      <4>1. PICK data \in Data : draft[w] = <<NewEntry(data)>>
        BY <3>1 DEF IInv, DraftInv
      <4> QED
        BY <1>1, <4>1, NewEntryType
    <3>3. \A v \in Writers : pc[v] \in {"idle", "built"}
      BY <1>2, <3>1
    <3>4. Missed(entries, checkpoints, faults, checkpoint_interval)
      BY <3>3 DEF LagInv
    <3>5. /\ Missed(entries', checkpoints, faults + 1, checkpoint_interval)
          /\ Len(entries') % checkpoint_interval # 0 =>
               Missed(entries', checkpoints, faults, checkpoint_interval)
      BY <1>1, <3>1, <3>2, <3>4, MissedAppend
    <3>6. disk.state # "torn" =>
            /\ Missed(disk.entries, disk.checkpoints, faults + 1, checkpoint_interval)
            /\ Missed(disk.entries, disk.checkpoints, faults, checkpoint_interval)
      BY <3>3 DEF LagInv
    <3>7. pc'[w] = "save"
      BY <1>3, <2>2 DEF PublishEntry
    <3> QED
      BY <1>0, <3>1, <3>5, <3>6, <3>7 DEF LagInv, AtBoundary
  <2>3. CASE ForceCheckpoint(w) \/ CheckpointDue(w)
    <3>1. /\ UNCHANGED <<entries, disk, faults>>
          /\ checkpoints' = Append(checkpoints, NewCheckpoint)
      BY <2>3 DEF ForceCheckpoint, CheckpointDue, fileVars
    <3>2. pc'[w] = "saveCheckpoint"
      BY <1>3, <2>3 DEF ForceCheckpoint, CheckpointDue
    <3>3. \A f \in Nat : Missed(entries, checkpoints', f, checkpoint_interval)
      BY <1>1, <3>1, MissedNone
    <3> QED
      BY <1>0, <1>1, <3>1, <3>2, <3>3 DEF LagInv
  <2>4. CASE SaveOpen(w)
    <3>1. UNCHANGED <<entries, checkpoints, faults>> /\ disk'.state = "torn"
      BY <2>4 DEF SaveOpen, memoryVars, Torn
    <3>2. (\A v \in Writers : pc'[v] \notin {"save", "write", "due"}) =>
            (\A v \in Writers : pc[v] \notin {"save", "write", "due"})
      BY <1>3, <2>4 DEF SaveOpen
    <3> QED
      BY <1>0, <3>1, <3>2 DEF LagInv, AtBoundary
  <2>5. CASE SaveWrite(w)
    <3>1. /\ UNCHANGED <<entries, checkpoints, faults>>
          /\ disk'.entries = entries /\ disk'.checkpoints = checkpoints
      BY <2>5 DEF SaveWrite, memoryVars, Saved
    <3>2. CASE pc[w] = "write"
      <4>1. pc'[w] = "due"
        BY <1>3, <2>5, <3>2 DEF SaveWrite
      <4> QED
        BY <1>0, <3>1, <3>2, <4>1 DEF LagInv, AtBoundary
    <3>3. CASE pc[w] = "writeCheckpoint"
      <4>1. \A v \in Writers : pc[v] \in {"idle", "writeCheckpoint"}
        BY <1>2, <3>3
      <4> QED
        BY <1>0, <3>1, <4>1 DEF LagInv, AtBoundary
    <3> QED
      BY <2>5, <3>2, <3>3 DEF SaveWrite
  <2>6. CASE SaveFails(w)
    <3>1. UNCHANGED <<entries, checkpoints, disk>> /\ faults' = faults + 1
      BY <2>6 DEF SaveFails, fileVars, memoryVars
    <3>2. /\ Missed(entries, checkpoints, faults + 1, checkpoint_interval)
          /\ Missed(entries, checkpoints, faults + 1 + 1, checkpoint_interval)
      BY <1>1, <1>4 DEF LagInv
    <3>3. disk.state # "torn" =>
            /\ Missed(disk.entries, disk.checkpoints, faults + 1, checkpoint_interval)
            /\ Missed(disk.entries, disk.checkpoints, faults + 1 + 1, checkpoint_interval)
      BY <1>1, <1>4 DEF LagInv
    <3> QED
      BY <1>0, <3>1, <3>2, <3>3 DEF LagInv
  <2>7. CASE CheckpointNotDue(w)
    <3>1. UNCHANGED <<entries, checkpoints, disk, faults>> /\ pc[w] = "due" /\ ~ AtBoundary
      BY <2>7 DEF CheckpointNotDue, fileVars, memoryVars
    <3>2. /\ Missed(entries, checkpoints, faults, checkpoint_interval)
          /\ Missed(entries, checkpoints, faults + 1, checkpoint_interval)
      BY <3>1 DEF LagInv
    <3>3. disk.entries = entries /\ disk.checkpoints = checkpoints
      BY <3>1 DEF IInv, PendingInv, Saved
    <3> QED
      BY <1>0, <3>1, <3>2, <3>3 DEF LagInv
  <2>8. ~ ZeroInterval(w)
    BY DEF ZeroInterval
  <2> QED
    BY <1>8, <2>1, <2>2, <2>3, <2>4, <2>5, <2>6, <2>7, <2>8 DEF Write
<1>9. CASE LoadKey \/ GenerateKey \/ WriteKey \/ UNCHANGED vars
           \/ \E r \in Readers : StartVerify(r) \/ VerifyStep(r)
  BY <1>7, <1>9 DEF LoadKey, GenerateKey, WriteKey, StartVerify, VerifyStep, fileVars, memoryVars, vars
<1> QED
  BY <1>5, <1>6, <1>8, <1>9 DEF Next

\* Between calls, the entries no checkpoint covers stay below one interval for
\* each crash or failed write so far: a missed boundary is caught at the next
\* (immutable_log.py:177, 221-222).
THEOREM CheckpointsKeepUp == Spec => []CheckpointLag
<1>1. Init => LagInv
  BY LagInit
<1>2. IInv /\ LagInv /\ [Next]_vars => LagInv'
  BY LagStep
<1>3. IInv /\ LagInv => CheckpointLag
  BY LagIsBounded
<1> QED
  BY <1>1, <1>2, <1>3, Inductive, PTL DEF Spec

-----------------------------------------------------------------------------
(* ImmutableLog implements FailStopLog.                                    *)

LEMMA DataOfType ==
  ASSUME NEW es \in Seq(Entry)
  PROVE  /\ DataOf(es) \in Seq(Data)
         /\ Len(DataOf(es)) = Len(es)
         /\ \A i \in 1 .. Len(es) : DataOf(es)[i] = es[i].data
<1>1. Len(es) \in Nat
  OBVIOUS
<1>2. ASSUME NEW i \in 1 .. Len(es)
      PROVE  es[i].data \in Data
  <2>1. es[i] \in Entry
    OBVIOUS
  <2> QED
    BY <2>1 DEF Entry
<1> QED
  BY <1>1, <1>2 DEF DataOf

LEMMA DataOfAppend ==
  ASSUME NEW es \in Seq(Entry), NEW e \in Entry
  PROVE  DataOf(Append(es, e)) = Append(DataOf(es), e.data)
<1> DEFINE s == DataOf(Append(es, e))
           t == Append(DataOf(es), e.data)
<1>1. e.data \in Data
  BY DEF Entry
<1>2. /\ Append(es, e) \in Seq(Entry)
      /\ Len(Append(es, e)) = Len(es) + 1
      /\ \A i \in 1 .. Len(es) : Append(es, e)[i] = es[i]
      /\ Append(es, e)[Len(es) + 1] = e
      /\ Len(es) \in Nat
  OBVIOUS
<1>3. /\ s \in Seq(Data)
      /\ Len(s) = Len(es) + 1
      /\ \A i \in 1 .. Len(es) : s[i] = es[i].data
      /\ s[Len(es) + 1] = e.data
  <2> DEFINE es1 == Append(es, e)
  <2>1. /\ s \in Seq(Data)
        /\ Len(s) = Len(es1)
        /\ \A i \in 1 .. Len(es1) : s[i] = es1[i].data
    BY <1>2, DataOfType
  <2> HIDE DEF s
  <2> QED
    BY <1>2, <2>1
<1>4. /\ t \in Seq(Data)
      /\ Len(t) = Len(es) + 1
      /\ \A i \in 1 .. Len(es) : t[i] = es[i].data
      /\ t[Len(es) + 1] = e.data
  BY <1>1, <1>2, DataOfType
<1> HIDE DEF s, t
<1>5. \A i \in 1 .. Len(s) : s[i] = t[i]
  BY <1>2, <1>3, <1>4
<1> QED
  BY <1>3, <1>4, <1>5, SeqEqual DEF s, t

LEMMA DataOfPrefix ==
  ASSUME NEW s \in Seq(Entry), NEW t \in Seq(Entry), IsPrefix(s, t)
  PROVE  DataOf(s) = SubSeq(DataOf(t), 1, Len(s))
<1> DEFINE u == DataOf(s)
           v == SubSeq(DataOf(t), 1, Len(s))
<1>1. /\ Len(s) \in Nat /\ Len(t) \in Nat
      /\ Len(s) <= Len(t)
      /\ \A i \in 1 .. Len(s) : s[i] = t[i]
  BY PrefixElementwise
<1>2. /\ u \in Seq(Data) /\ Len(u) = Len(s)
      /\ \A i \in 1 .. Len(s) : u[i] = s[i].data
  BY DataOfType
<1>3. /\ v \in Seq(Data) /\ Len(v) = Len(s)
      /\ \A i \in 1 .. Len(s) : v[i] = t[i].data
  BY <1>1, DataOfType
<1> HIDE DEF u, v
<1>4. \A i \in 1 .. Len(u) : u[i] = v[i]
  BY <1>1, <1>2, <1>3
<1> QED
  BY <1>2, <1>3, <1>4, SeqEqual DEF u, v

LEMMA RefinedInit == Init => FailStop!Init
BY DEF Init, FailStop!Init, RefinedLog, Readable, DataOf, Absent

\* The process ends: at most what was not acknowledged is gone, or all is refused.
LEMMA RefinedExit ==
  ASSUME IInv, Exit
  PROVE  [FailStop!Drop \/ FailStop!Refuse]_(FailStop!vars)
<1> TypeOK /\ MemoryInv /\ DiskInv /\ AckedInv /\ AckedOnDisk
  BY DEF IInv
<1> USE DEF FailStop!vars
<1>0. entries \in Seq(Entry) /\ disk.entries \in Seq(Entry) /\ acked \in Nat
  BY DEF TypeOK
<1>1. status' = "down" /\ UNCHANGED <<disk, acked>>
  BY DEF Exit, fileVars
<1>2. RefinedLog' = DataOf(disk.entries) /\ (Readable' <=> disk.state # "torn")
  BY <1>1 DEF RefinedLog, DataOf, Readable
<1>3. CASE status = "running" /\ disk.state = "torn"
  <2>1. RefinedLog' = <<>>
    BY <1>2, <1>3 DEF DiskInv, DataOf
  <2> QED
    BY <1>1, <1>2, <1>3, <2>1 DEF FailStop!Refuse, Readable
<1>4. CASE status = "running" /\ disk.state # "torn"
  <2>1. IsPrefix(disk.entries, entries)
    BY <1>4 DEF DiskInv
  <2>2. RefinedLog' = SubSeq(RefinedLog, 1, Len(disk.entries))
    BY <1>0, <1>2, <1>4, <2>1, DataOfPrefix DEF RefinedLog
  <2>3. Len(disk.entries) \in acked .. Len(RefinedLog)
    <3>1. Len(disk.entries) <= Len(entries) /\ acked <= Len(disk.entries)
      BY <1>4, <2>1 DEF IsPrefix, AckedOnDisk
    <3> QED
      BY <1>0, <1>4, <3>1, DataOfType DEF RefinedLog
  <2> QED
    BY <1>1, <1>2, <1>4, <2>2, <2>3 DEF FailStop!Drop, Readable
<1>5. CASE status # "running"
  BY <1>1, <1>2, <1>5 DEF RefinedLog, Readable
<1> QED
  BY <1>3, <1>4, <1>5

LEMMA RefinedStep ==
  ASSUME IInv, [Next]_vars
  PROVE  [FailStop!Next]_(FailStop!vars)
<1> TypeOK /\ MemoryInv /\ DiskInv /\ AckedInv /\ AckedOnDisk
  BY DEF IInv
<1> USE DEF FailStop!vars
<1>0. entries \in Seq(Entry) /\ disk.entries \in Seq(Entry) /\ acked \in Nat
  BY DEF TypeOK
<1>1. ASSUME NEW w \in Writers, PublishEntry(w)
      PROVE  FailStop!Add
  <2>1. PICK data \in Data : draft[w] = <<NewEntry(data)>>
    BY <1>1 DEF PublishEntry, IInv, DraftInv
  <2>2. /\ entries' = Append(entries, NewEntry(data))
        /\ UNCHANGED <<status, disk, acked>>
        /\ status = "running"
    BY <1>1, <2>1, InsideCall DEF PublishEntry, fileVars
  <2>3. RefinedLog' = Append(RefinedLog, data)
    <3>1. NewEntry(data).data = data
      BY DEF NewEntry
    <3>2. DataOf(Append(entries, NewEntry(data))) = Append(DataOf(entries), data)
      BY <1>0, <3>1, NewEntryType, DataOfAppend
    <3> QED
      BY <2>2, <3>2 DEF RefinedLog, DataOf
  <2> QED
    BY <2>2, <2>3 DEF FailStop!Add, Readable
<1>2. ASSUME NEW w \in Writers, SaveWrite(w) \/ CheckpointNotDue(w), ~ UNCHANGED acked
      PROVE  FailStop!Acknowledge
  <2>1. pc[w] # "idle" /\ acked' = Len(entries) /\ UNCHANGED <<status, entries>>
    BY <1>2 DEF SaveWrite, CheckpointNotDue, Return, memoryVars
  <2>2. status = "running" /\ status' = "running"
    BY <2>1, InsideCall
  <2>3. RefinedLog' = RefinedLog /\ Len(RefinedLog) = Len(entries) /\ Readable /\ Readable'
    BY <1>0, <2>1, <2>2, DataOfType DEF RefinedLog, DataOf, Readable
  <2>4. acked' \in acked .. Len(entries)
    BY <1>0, <2>1, <2>2 DEF AckedInv
  <2> QED
    BY <2>3, <2>4 DEF FailStop!Acknowledge
<1>3. ASSUME Crash
      PROVE  FailStop!Drop \/ FailStop!Refuse \/ UNCHANGED FailStop!vars
  BY <1>3, RefinedExit DEF Crash, FailStop!Next
<1>4. CASE Load
  BY <1>4 DEF Load, RefinedLog, Readable, fileVars, DataOf
<1>5. CASE /\ UNCHANGED <<entries, acked>>
           /\ status' = status \/ (status # "running" /\ status' # "running")
           /\ UNCHANGED disk \/ \E w \in Writers : SaveOpen(w) \/ SaveWrite(w)
  <2>1. disk' = disk \/ status = "running"
    BY <1>5, InsideCall DEF SaveOpen, SaveWrite
  <2> QED
    BY <1>5, <2>1 DEF RefinedLog, Readable, DataOf
<1>6. LoadKey \/ GenerateKey \/ WriteKey => status # "running" /\ status' # "running"
  BY DEF LoadKey, GenerateKey, WriteKey, TypeOK
<1>7. CASE ~ Load /\ ~ Crash
  <2>1. status' = status \/ (status # "running" /\ status' # "running")
    BY <1>6, <1>7, Writes
  <2> QED
    BY <1>1, <1>2, <1>5, <1>7, <2>1, Writes DEF FailStop!Next
<1> QED
  BY <1>3, <1>4, <1>7 DEF FailStop!Next

\* The implementation theorem: every behaviour of the log's threads, files,
\* crashes and restarts is a behaviour of the fail-stop log.
THEOREM LogImplementsFailStop == Spec => ImplementsFailStop
<1>1. IInv /\ [Next]_vars => [FailStop!Next]_(FailStop!vars)
  BY RefinedStep
<1> QED
  BY <1>1, RefinedInit, Inductive, PTL DEF Spec, ImplementsFailStop, FailStop!Spec

\* No step that leaves the log readable changes an acknowledged entry.
THEOREM AckedEntriesNeverChange == Spec => AckedNeverChange
<1> DEFINE Kept == /\ acked <= Len(RefinedLog')
                   /\ SubSeq(RefinedLog', 1, acked) = SubSeq(RefinedLog, 1, acked)
<1>1. IInv /\ [Next]_vars => [Readable /\ Readable' => Kept]_(FailStop!vars)
  <2> SUFFICES ASSUME IInv, [Next]_vars, Readable, Readable'
               PROVE  Kept \/ UNCHANGED FailStop!vars
    OBVIOUS
  <2>1. RefinedLog \in Seq(Data) /\ acked \in Nat /\ acked <= Len(RefinedLog)
    BY DataOfType DEF IInv, TypeOK, AckedInv, AckedOnDisk, RefinedLog, Readable
  <2>2. CASE FailStop!Add
    <3>1. PICK data \in Data : RefinedLog' = Append(RefinedLog, data)
      BY <2>2 DEF FailStop!Add
    <3>2. /\ acked <= Len(Append(RefinedLog, data))
          /\ SubSeq(Append(RefinedLog, data), 1, acked) = SubSeq(RefinedLog, 1, acked)
      BY <2>1
    <3> QED
      BY <3>1, <3>2
  <2>3. CASE FailStop!Drop
    <3>1. PICK n \in acked .. Len(RefinedLog) : RefinedLog' = SubSeq(RefinedLog, 1, n)
      BY <2>3 DEF FailStop!Drop
    <3>2. /\ acked <= Len(SubSeq(RefinedLog, 1, n))
          /\ SubSeq(SubSeq(RefinedLog, 1, n), 1, acked) = SubSeq(RefinedLog, 1, acked)
      BY <2>1
    <3> QED
      BY <3>1, <3>2
  <2>4. CASE FailStop!Acknowledge
    <3>1. RefinedLog' = RefinedLog
      BY <2>4 DEF FailStop!Acknowledge
    <3> QED
      BY <2>1, <3>1
  <2>5. CASE FailStop!Refuse
    BY <2>5 DEF FailStop!Refuse
  <2> QED
    BY <2>2, <2>3, <2>4, <2>5, RefinedStep DEF FailStop!Next
<1> QED
  BY <1>1, Inductive, PTL DEF Spec, AckedNeverChange, FailStop!AckedNeverChange
=============================================================================
