--------------------------- MODULE ServiceLogProofs ---------------------------
(***************************************************************************)
(* What the service says of itself in the audit log, and that the audit    *)
(* log keeps its own promises inside the service, for any number of        *)
(* processes, faults and modes.                                            *)
(***************************************************************************)
EXTENDS ServiceProofs

\* The proofs about ImmutableLog, for the one thread of the service.
LP == INSTANCE ImmutableLogProofs
  WITH Writers <- {Main}, Readers <- {}, Data <- Events, MaxEntries <- 2 * MaxRuns

-----------------------------------------------------------------------------
(* The log inside the service.                                             *)

\* The number of a process is one its entries may carry.
RunInv == run <= MaxRuns

LEMMA Assumed == LP!LogAssumption
BY ServiceAssumption DEF LP!LogAssumption

LEMMA RunStep ==
  ASSUME IInv, RunInv, [Next]_vars
  PROVE  RunInv'
<1>1. ASSUME NEW env \in Environments, Start(env)
      PROVE  RunInv'
  BY <1>1, ServiceAssumption DEF Start, RunInv, IInv, Typed, TypeOK
<1>2. ASSUME NEW how, End(how)
      PROVE  RunInv'
  BY <1>2 DEF End, RunInv
<1>3. CASE KeyRefused \/ LogRefused \/ Raised \/ Leave \/ WriteFails \/ Kill
  BY <1>2, <1>3 DEF KeyRefused, LogRefused, Raised, Leave, WriteFails, Kill
<1>4. CASE ReadKey \/ CreateKey \/ FillKey \/ OpenLog \/ LogEvent \/ LogCall \/ LogCallFails
  BY <1>4 DEF RunInv, ReadKey, CreateKey, FillKey, Opened, OpenLog, LogEvent, LogCall,
     LogCallFails, history
<1>5. CASE NothingToSeal \/ StartSession \/ CloseSession \/ AddTurn \/ WriteUnderKey \/ SkipWrites
  BY <1>5 DEF RunInv, NothingToSeal, StartSession, CloseSession, AddTurn, SaveStore,
     WriteUnderKey, SkipWrites, Pass, history
<1>6. CASE NextPass \/ Stopped \/ Signal \/ PassRaises \/ UNCHANGED vars
  BY <1>6 DEF RunInv, NextPass, Stopped, Signal, PassRaises, vars, history
<1> QED
  BY <1>1, <1>3, <1>4, <1>5, <1>6 DEF Next, Step

\* Each call of the service is a step of the log.
LEMMA OpenLogIsStep ==
  ASSUME OpenLog
  PROVE  LP!Next
BY DEF OpenLog, LP!Next, Log!LoadKey, LP!LoadKey, Log!GenerateKey, LP!GenerateKey,
   Log!WriteKey, LP!WriteKey, Log!Load, LP!Load, Log!fileVars, LP!fileVars,
   Log!readVars, LP!readVars, Log!memoryVars, LP!memoryVars, Log!TornKey, LP!TornKey

LEMMA LogEventIsStep ==
  ASSUME LogEvent, IInv, RunInv
  PROVE  LP!Next
<1> DEFINE event == [event |-> stage, run |-> run]
<1>1. event \in Events
  BY ServiceAssumption DEF LogEvent, IInv, Typed, TypeOK, RunInv, Events
<1>2. Log!BuildEntry(Main, event)
  BY DEF LogEvent
<1>3. LP!BuildEntry(Main, event)
  BY <1>2 DEF Log!BuildEntry, LP!BuildEntry, Log!Acquire, LP!Acquire, Log!NewEntry, LP!NewEntry,
     Log!LastHash, LP!LastHash, Log!ComputeHash, LP!ComputeHash, Log!Last, LP!Last,
     Log!GENESIS_HASH, LP!GENESIS_HASH, Log!fileVars, LP!fileVars, Log!readVars, LP!readVars,
     Log!memoryVars, LP!memoryVars
<1> QED
  BY <1>1, <1>3 DEF LP!Next, LP!Write

LEMMA LogCallIsStep ==
  ASSUME LogCall \/ LogCallFails
  PROVE  LP!Next
<1> USE DEF Log!fileVars, LP!fileVars, Log!readVars, LP!readVars, Log!memoryVars, LP!memoryVars,
    LP!Next, LP!Write
<1>1. CASE Log!PublishEntry(Main)
  BY <1>1 DEF Log!PublishEntry, LP!PublishEntry
<1>2. CASE Log!SaveOpen(Main)
  BY <1>2 DEF Log!SaveOpen, LP!SaveOpen, Log!Torn, LP!Torn
<1>3. CASE Log!SaveWrite(Main)
  BY <1>3 DEF Log!SaveWrite, LP!SaveWrite, Log!Saved, LP!Saved, Log!Return, LP!Return,
     Log!Release, LP!Release
<1>4. LP!NewCheckpoint = Log!NewCheckpoint
  BY DEF Log!NewCheckpoint, LP!NewCheckpoint, Log!LastCheckpointEnd, LP!LastCheckpointEnd,
     Log!MerkleRoot, LP!MerkleRoot, Log!Last, LP!Last
<1>5. CASE Log!CheckpointDue(Main)
  BY <1>4, <1>5 DEF Log!CheckpointDue, LP!CheckpointDue, Log!AtBoundary, LP!AtBoundary
<1>6. CASE Log!CheckpointNotDue(Main)
  BY <1>6 DEF Log!CheckpointNotDue, LP!CheckpointNotDue, Log!AtBoundary, LP!AtBoundary,
     Log!Return, LP!Return, Log!Release, LP!Release
<1>7. CASE Log!ForceCheckpoint(Main)
  BY <1>4, <1>7 DEF Log!ForceCheckpoint, LP!ForceCheckpoint, Log!Acquire, LP!Acquire,
     Log!LastCheckpointEnd, LP!LastCheckpointEnd, Log!Last, LP!Last
<1>8. CASE Log!SaveFails(Main)
  BY <1>8 DEF Log!SaveFails, LP!SaveFails, Log!Release, LP!Release
<1> QED
  BY <1>1, <1>2, <1>3, <1>5, <1>6, <1>7, <1>8 DEF LogCall, LogCallFails

LEMMA EndIsExit ==
  ASSUME NEW how, End(how)
  PROVE  LP!Exit
BY DEF End, Log!Exit, LP!Exit, Log!fileVars, LP!fileVars, Log!NotReading, LP!NotReading,
   Log!Reading, LP!Reading, Log!GENESIS_HASH, LP!GENESIS_HASH

\* A step of the service is, for the log, one of its steps, an exit, or nothing.
LEMMA LogSees ==
  ASSUME IInv, RunInv, [Next]_vars
  PROVE  \/ LP!Next
         \/ LP!Exit /\ faults' \in {faults, faults + 1}
         \/ UNCHANGED logVars /\ faults' \in {faults, faults + 1}
<1>1. CASE OpenLog \/ LogEvent \/ LogCall \/ LogCallFails
  BY <1>1, OpenLogIsStep, LogEventIsStep, LogCallIsStep
<1>2. ASSUME NEW env \in Environments, Start(env)
      PROVE  UNCHANGED <<logVars, faults>>
  BY <1>2 DEF Start
<1>3. CASE KeyRefused \/ LogRefused \/ Raised \/ Leave \/ WriteFails \/ Kill
  BY <1>3, EndIsExit DEF KeyRefused, LogRefused, Raised, Leave, WriteFails, Kill, Fault
<1>4. CASE ReadKey \/ CreateKey \/ FillKey
  BY <1>4 DEF ReadKey, CreateKey, FillKey, Opened
<1>5. CASE NothingToSeal \/ StartSession \/ CloseSession \/ AddTurn \/ WriteUnderKey \/ SkipWrites
  BY <1>5 DEF NothingToSeal, StartSession, CloseSession, AddTurn, SaveStore, WriteUnderKey,
     SkipWrites, Pass
<1>6. CASE NextPass \/ Stopped \/ Signal \/ PassRaises \/ UNCHANGED vars
  BY <1>6 DEF NextPass, Stopped, Signal, PassRaises, vars, Fault
<1> QED
  BY <1>1, <1>2, <1>3, <1>4, <1>5, <1>6 DEF Next, Step

\* The invariant of the log holds in the service.
LEMMA LogKeepsInv ==
  ASSUME IInv, RunInv, LP!IInv, [Next]_vars
  PROVE  LP!IInv'
<1>1. faults \in Nat
  BY DEF LP!IInv, LP!TypeOK
<1>2. CASE LP!Next
  BY <1>2, LP!Preserved, Assumed
<1>3. CASE LP!Exit /\ faults' \in {faults, faults + 1}
  BY <1>1, <1>3, LP!ExitPreserves, Assumed
<1>4. CASE UNCHANGED logVars /\ faults' \in {faults, faults + 1}
  BY <1>1, <1>4, LP!FaultPreserves, Assumed DEF logVars
<1> QED
  BY <1>2, <1>3, <1>4, LogSees

LEMMA LogStarts ==
  ASSUME Init
  PROVE  LP!Init
BY DEF Init, Log!Init, LP!Init, Log!NoKey, LP!NoKey, Log!Absent, LP!Absent,
   Log!NotReading, LP!NotReading, Log!Reading, LP!Reading, Log!GENESIS_HASH, LP!GENESIS_HASH

LEMMA LogInit ==
  ASSUME Init
  PROVE  LP!IInv
BY LogStarts, LP!InitInv, Assumed

-----------------------------------------------------------------------------
(* The inductive invariant of what the log tells.                          *)

\* What log_event records.
Event(event, r) == [event |-> event, run |-> r]

LastEnd(cps) == LP!LastCheckpointEnd(cps)

\* A log and its checkpoints tell of n processes that ended as ends says: every
\* entry is of one of them, "shutdown" follows the "startup" of its process, and
\* a clean end is under a checkpoint.
Told(es, cps, n, ends) ==
  /\ \A i \in 1 .. Len(es) : es[i].data.run \in 1 .. n
  /\ \A i \in 1 .. Len(es) : \A r \in 1 .. n :
       es[i].data = Event("shutdown", r) => i > 1 /\ es[i - 1].data = Event("startup", r)
  /\ \A r \in 1 .. Len(ends) : ends[r] = "clean" =>
       \E i \in 1 .. LastEnd(cps) + 1 : es[i].data = Event("shutdown", r)

\* The log in memory tells it, and so does the file while it can be read.
ToldInv ==
  /\ status = "running" => Told(entries, checkpoints, run, ended)
  /\ disk.state # "torn" => Told(disk.entries, disk.checkpoints, run, ended)

\* Each process that is gone has an end.
EndedInv == Len(ended) = IF stage = "down" THEN run ELSE run - 1

\* Past the constructor the log is there; only the seal makes checkpoint calls.
StageInv ==
  /\ stage \in {"session", "scan", "wait", "shutdown", "seal", "close", "leave"} =>
       status = "running"
  /\ stage = "seal" => pc[Main] \in {"idle", "saveCheckpoint", "writeCheckpoint"}

LastIs(event) == entries # <<>> /\ entries[Len(entries)].data = Event(event, run)

\* The last word of the log in memory, at each stage.
WordInv ==
  /\ pc[Main] = "built" => Head(draft[Main]).data = Event(stage, run)
  /\ (stage \in {"startup", "shutdown"} /\ pc[Main] \notin {"idle", "built"}) => LastIs(stage)
  /\ stage \in {"session", "scan", "wait"} => LastIs("startup")
  /\ (stage = "shutdown" /\ pc[Main] \in {"idle", "built"}) => LastIs("startup")
  /\ stage \in {"seal", "close", "leave"} => LastIs("shutdown")

AllCovered == LastEnd(checkpoints) = Len(entries) - 1

\* How far the seal is: the shutdown is saved, then covered, then both.
SealInv ==
  /\ (stage = "seal" /\ pc[Main] = "idle") => disk = LP!Saved
  /\ (stage = "seal" /\ pc[Main] # "idle") => AllCovered
  /\ stage \in {"close", "leave"} => AllCovered /\ disk = LP!Saved
  /\ stage = "leave" => ~ active

AuditInv == ToldInv /\ EndedInv /\ StageInv /\ WordInv /\ SealInv /\ LeavesSealed

\* All that is known of the service and of its log.
Known == IInv /\ RunInv /\ LP!IInv

-----------------------------------------------------------------------------
(* The operators.                                                          *)

LEMMA SameEnd ==
  ASSUME NEW cps
  PROVE  Log!LastCheckpointEnd(cps) = LastEnd(cps)
BY DEF LastEnd, Log!LastCheckpointEnd, LP!LastCheckpointEnd, Log!Last, LP!Last

\* A checkpoint covers entries there are.
LEMMA EndInside ==
  ASSUME NEW es \in Seq(LP!Entry), NEW cps \in Seq(LP!Checkpoint), LP!Tiled(cps, es)
  PROVE  LastEnd(cps) \in Int /\ LastEnd(cps) >= -1 /\ LastEnd(cps) <= Len(es) - 1
<1>1. Len(es) \in Nat
  OBVIOUS
<1>2. CASE cps = <<>>
  BY <1>1, <1>2 DEF LastEnd, LP!LastCheckpointEnd
<1>3. CASE cps # <<>>
  <2>1. Len(cps) \in 1 .. Len(cps) /\ cps[Len(cps)] \in LP!Checkpoint
    BY <1>3
  <2>2. cps[Len(cps)].end_index \in Nat /\ cps[Len(cps)].end_index < Len(es)
    BY <2>1 DEF LP!Checkpoint, LP!Tiled
  <2>3. LastEnd(cps) = cps[Len(cps)].end_index
    BY <1>3 DEF LastEnd, LP!LastCheckpointEnd, LP!Last
  <2> QED
    BY <1>1, <2>2, <2>3
<1> QED
  BY <1>2, <1>3

\* What the invariant of the log says that matters here.
LEMMA LogFacts ==
  ASSUME Known
  PROVE  /\ run \in Nat /\ (stage # "down" => run # 0)
         /\ ended \in Seq({"refused", "killed", "failed", "clean"})
         /\ entries \in Seq(LP!Entry) /\ disk.entries \in Seq(LP!Entry)
         /\ LastEnd(checkpoints) \in Int /\ LastEnd(disk.checkpoints) \in Int
         /\ LastEnd(checkpoints) >= -1 /\ LastEnd(disk.checkpoints) >= -1
         /\ LastEnd(checkpoints) <= Len(entries) - 1
         /\ LastEnd(disk.checkpoints) <= Len(disk.entries) - 1
         /\ pc[Main] = "due" => disk = LP!Saved
         /\ disk.state \in {"absent", "torn", "ok"}
         /\ pc[Main] = "built" =>
              \E data \in Events : draft[Main] = <<LP!NewEntry(data)>>
         /\ LP!TypeOK
<1>1. LP!TypeOK /\ LP!CheckpointsTile /\ LP!PendingInv /\ LP!DraftInv
  BY DEF Known, LP!IInv
<1>2. /\ entries \in Seq(LP!Entry) /\ disk.entries \in Seq(LP!Entry)
      /\ checkpoints \in Seq(LP!Checkpoint) /\ disk.checkpoints \in Seq(LP!Checkpoint)
      /\ disk.state \in {"absent", "torn", "ok"}
  BY <1>1 DEF LP!TypeOK
<1>3. LP!Tiled(checkpoints, entries) /\ LP!Tiled(disk.checkpoints, disk.entries)
  BY <1>1 DEF LP!CheckpointsTile
<1>4. /\ LastEnd(checkpoints) \in Int /\ LastEnd(disk.checkpoints) \in Int
      /\ LastEnd(checkpoints) >= -1 /\ LastEnd(disk.checkpoints) >= -1
      /\ LastEnd(checkpoints) <= Len(entries) - 1
      /\ LastEnd(disk.checkpoints) <= Len(disk.entries) - 1
  BY <1>2, <1>3, EndInside
<1>5. /\ pc[Main] = "due" => disk = LP!Saved
      /\ pc[Main] = "built" => \E data \in Events : draft[Main] = <<LP!NewEntry(data)>>
  BY <1>1 DEF LP!PendingInv, LP!DraftInv
<1>6. /\ run \in Nat /\ (stage # "down" => run # 0)
      /\ ended \in Seq({"refused", "killed", "failed", "clean"})
  BY DEF Known, IInv, Typed, TypeOK
<1> QED
  BY <1>1, <1>2, <1>4, <1>5, <1>6

\* One more process, of which nothing is told yet.
LEMMA ToldOfOneMore ==
  ASSUME NEW es, NEW cps, NEW n \in Nat, NEW ends, Told(es, cps, n, ends)
  PROVE  Told(es, cps, n + 1, ends)
<1>1. \A i \in 1 .. Len(es) : es[i].data.run \in 1 .. n
  BY DEF Told
<1>2. ASSUME NEW i \in 1 .. Len(es), NEW r \in 1 .. n + 1, es[i].data = Event("shutdown", r)
      PROVE  i > 1 /\ es[i - 1].data = Event("startup", r)
  <2>1. r \in 1 .. n
    BY <1>1, <1>2 DEF Event
  <2> QED
    BY <1>2, <2>1 DEF Told
<1> QED
  BY <1>1, <1>2 DEF Told

\* One more end; a clean one only if it is told, under a checkpoint.
LEMMA ToldOfEnd ==
  ASSUME NEW es, NEW cps, NEW n, NEW ends \in Seq({"refused", "killed", "failed", "clean"}),
         NEW how \in {"refused", "killed", "failed", "clean"}, Told(es, cps, n, ends),
         how = "clean" =>
           \E i \in 1 .. LastEnd(cps) + 1 : es[i].data = Event("shutdown", Len(ends) + 1)
  PROVE  Told(es, cps, n, Append(ends, how))
<1>1. /\ Len(Append(ends, how)) = Len(ends) + 1 /\ Len(ends) \in Nat
      /\ \A r \in 1 .. Len(ends) : Append(ends, how)[r] = ends[r]
      /\ Append(ends, how)[Len(ends) + 1] = how
  OBVIOUS
<1>2. ASSUME NEW r \in 1 .. Len(ends) + 1, Append(ends, how)[r] = "clean"
      PROVE  \E i \in 1 .. LastEnd(cps) + 1 : es[i].data = Event("shutdown", r)
  <2>1. CASE r = Len(ends) + 1
    BY <1>1, <1>2, <2>1
  <2>2. CASE r # Len(ends) + 1
    <3>1. r \in 1 .. Len(ends)
      BY <1>1, <2>2
    <3> QED
      BY <1>1, <1>2, <3>1 DEF Told
  <2> QED
    BY <2>1, <2>2
<1> QED
  BY <1>1, <1>2 DEF Told

\* Checkpoints that reach further.
LEMMA ToldFurther ==
  ASSUME NEW es, NEW cps, NEW more, NEW n, NEW ends, Told(es, cps, n, ends),
         LastEnd(cps) \in Int, LastEnd(more) \in Int, LastEnd(cps) <= LastEnd(more)
  PROVE  Told(es, more, n, ends)
<1>1. \A i \in 1 .. LastEnd(cps) + 1 : i \in 1 .. LastEnd(more) + 1
  OBVIOUS
<1> QED
  BY <1>1 DEF Told

\* One more entry, of the last process.
LEMMA ToldAppend ==
  ASSUME NEW es \in Seq(LP!Entry), NEW cps, NEW n \in Nat \ {0}, NEW ends, NEW e \in LP!Entry,
         Told(es, cps, n, ends), LastEnd(cps) \in Int, LastEnd(cps) <= Len(es) - 1,
         \/ e.data = Event("startup", n)
         \/ /\ e.data = Event("shutdown", n)
            /\ es # <<>> /\ es[Len(es)].data = Event("startup", n)
  PROVE  Told(Append(es, e), cps, n, ends)
<1> DEFINE more == Append(es, e)
<1>1. /\ Len(more) = Len(es) + 1 /\ Len(es) \in Nat
      /\ \A i \in 1 .. Len(es) : more[i] = es[i]
      /\ more[Len(es) + 1] = e
      /\ es # <<>> => Len(es) > 0
  OBVIOUS
<1> HIDE DEF more
<1>2. e.data.run = n
  BY DEF Event
<1>3. ASSUME NEW i \in 1 .. Len(more)
      PROVE  more[i].data.run \in 1 .. n
  <2>1. CASE i = Len(es) + 1
    BY <1>1, <1>2, <2>1
  <2>2. CASE i # Len(es) + 1
    <3>1. i \in 1 .. Len(es)
      BY <1>1, <2>2
    <3> QED
      BY <1>1, <3>1 DEF Told
  <2> QED
    BY <2>1, <2>2
<1>4. ASSUME NEW i \in 1 .. Len(more), NEW r \in 1 .. n, more[i].data = Event("shutdown", r)
      PROVE  i > 1 /\ more[i - 1].data = Event("startup", r)
  <2>1. CASE i = Len(es) + 1
    <3>1. e.data = Event("shutdown", r)
      BY <1>1, <1>4, <2>1
    <3>2. e.data # Event("startup", n) /\ r = n
      BY <1>2, <3>1 DEF Event
    <3>3. Len(es) > 0 /\ es[Len(es)].data = Event("startup", r)
      BY <1>1, <3>2
    <3> QED
      BY <1>1, <2>1, <3>3
  <2>2. CASE i # Len(es) + 1
    <3>1. i \in 1 .. Len(es)
      BY <1>1, <2>2
    <3>2. i > 1 /\ es[i - 1].data = Event("startup", r)
      BY <1>1, <1>4, <3>1 DEF Told
    <3>3. i - 1 \in 1 .. Len(es)
      BY <3>1, <3>2
    <3> QED
      BY <1>1, <3>2, <3>3
  <2> QED
    BY <2>1, <2>2
<1>5. ASSUME NEW r \in 1 .. Len(ends), ends[r] = "clean"
      PROVE  \E i \in 1 .. LastEnd(cps) + 1 : more[i].data = Event("shutdown", r)
  <2>1. PICK i \in 1 .. LastEnd(cps) + 1 : es[i].data = Event("shutdown", r)
    BY <1>5 DEF Told
  <2>2. i \in 1 .. Len(es)
    BY <1>1
  <2> QED
    BY <1>1, <2>1, <2>2
<1> QED
  BY <1>3, <1>4, <1>5 DEF Told, more

-----------------------------------------------------------------------------
(* Every step preserves it.                                                *)

LEMMA AuditInit ==
  ASSUME Init
  PROVE  AuditInv
<1>1. /\ stage = "down" /\ run = 0 /\ ended = <<>> /\ status = "down"
      /\ disk = Log!Absent /\ pc[Main] = "idle"
  BY DEF Init, Log!Init
<1>2. Told(disk.entries, disk.checkpoints, run, ended)
  BY <1>1 DEF Told, Log!Absent
<1>3. Len(ended) = run
  BY <1>1
<1> QED
  BY <1>1, <1>2, <1>3 DEF AuditInv, ToldInv, EndedInv, StageInv, WordInv, SealInv, LeavesSealed

LEMMA AuditStart ==
  ASSUME Known, AuditInv, NEW env \in Environments, Start(env)
  PROVE  AuditInv'
<1>1. /\ stage = "down" /\ stage' = "open" /\ run' = run + 1
      /\ UNCHANGED <<ended, active, entries, checkpoints, disk, status, pc, draft>>
  BY DEF Start, logVars
<1>2. run \in Nat /\ pc[Main] = "idle"
  BY <1>1, LogFacts DEF Known, IInv, LogInv
<1>3. ToldInv'
  BY <1>1, <1>2, ToldOfOneMore DEF AuditInv, ToldInv
<1>4. EndedInv'
  BY <1>1, <1>2 DEF AuditInv, EndedInv
<1> QED
  BY <1>1, <1>2, <1>3, <1>4 DEF AuditInv, StageInv, WordInv, SealInv, LeavesSealed

\* The process is gone; only one that has come to the end of main() is clean.
LEMMA AuditAtEnd ==
  ASSUME Known, AuditInv, NEW how \in {"refused", "killed", "failed", "clean"}, End(how),
         how = "clean" => stage = "leave"
  PROVE  AuditInv'
<1>1. /\ stage # "down" /\ stage' = "down" /\ status' = "down" /\ pc'[Main] = "idle"
      /\ ended' = Append(ended, how) /\ UNCHANGED <<run, active, disk>>
  BY LogAtEnd DEF End
<1>2. /\ run \in Nat /\ run # 0 /\ Len(ended) = run - 1 /\ Len(ended) \in Nat
      /\ ended \in Seq({"refused", "killed", "failed", "clean"})
      /\ entries \in Seq(LP!Entry)
  BY <1>1, LogFacts DEF AuditInv, EndedInv
<1>3. /\ Len(ended') = run
      /\ ended'[run] = how
  BY <1>1, <1>2
<1>4. ASSUME how = "clean"
      PROVE  /\ disk = LP!Saved /\ AllCovered /\ ~ active
             /\ entries # <<>> /\ entries[Len(entries)].data = Event("shutdown", run)
  BY <1>4 DEF AuditInv, SealInv, WordInv, LastIs
<1>5. ToldInv'
  <2>1. CASE disk.state = "torn"
    BY <1>1, <2>1 DEF ToldInv
  <2>2. CASE disk.state # "torn"
    <3>1. Told(disk.entries, disk.checkpoints, run, ended)
      BY <2>2 DEF AuditInv, ToldInv
    <3>2. ASSUME how = "clean"
          PROVE  \E i \in 1 .. LastEnd(disk.checkpoints) + 1 :
                   disk.entries[i].data = Event("shutdown", Len(ended) + 1)
      <4>1. disk.entries = entries /\ disk.checkpoints = checkpoints
        BY <1>4, <3>2 DEF LP!Saved
      <4>2. Len(entries) \in 1 .. LastEnd(checkpoints) + 1
        BY <1>2, <1>4, <3>2 DEF AllCovered
      <4>3. entries[Len(entries)].data = Event("shutdown", Len(ended) + 1)
        BY <1>2, <1>4, <3>2
      <4> QED
        BY <4>1, <4>2, <4>3
    <3>3. Told(disk.entries, disk.checkpoints, run, Append(ended, how))
      BY <1>2, <3>1, <3>2, ToldOfEnd
    <3> QED
      BY <1>1, <3>3 DEF ToldInv
  <2> QED
    BY <2>1, <2>2
<1>6. LeavesSealed'
  <2> SUFFICES ASSUME how = "clean"
               PROVE  /\ disk.state = "ok" /\ Recorded("shutdown", run, Len(disk.entries))
                      /\ Log!LastCheckpointEnd(disk.checkpoints) = Len(disk.entries) - 1
                      /\ ~ active
    BY <1>1, <1>3 DEF LeavesSealed, Recorded
  <2>1. disk.state = "ok" /\ disk.entries = entries /\ disk.checkpoints = checkpoints
    BY <1>4 DEF LP!Saved
  <2>2. Recorded("shutdown", run, Len(disk.entries))
    BY <1>4, <2>1 DEF Recorded, Event
  <2> QED
    BY <1>4, <2>1, <2>2, SameEnd DEF AllCovered
<1> QED
  BY <1>1, <1>2, <1>3, <1>5, <1>6 DEF AuditInv, EndedInv, StageInv, WordInv, SealInv

\* A step of main() between its calls of the log.
LEMMA AuditBetween ==
  ASSUME Known, AuditInv, UNCHANGED <<run, ended, entries, checkpoints, disk, status, pc, draft>>,
         \/ UNCHANGED <<stage, active>>
         \/ stage \in Opening /\ stage' \in {"open", "fill", "startup"}
         \/ stage \in {"session", "scan", "wait"} /\ stage' \in {"scan", "wait", "shutdown"}
         \/ stage = "close" /\ stage' = "leave" /\ ~ active'
         \/ stage = "seal" /\ stage' = "close" /\ pc[Main] = "idle" /\ AllCovered
  PROVE  AuditInv'
<1> USE DEF AuditInv
<1>1. ToldInv'
  BY DEF ToldInv
<1>2. CASE UNCHANGED <<stage, active>>
  BY <1>1, <1>2 DEF EndedInv, StageInv, WordInv, LastIs, SealInv, AllCovered, LP!Saved,
     LeavesSealed, Recorded
<1>3. CASE stage \in Opening /\ stage' \in {"open", "fill", "startup"}
  <2>1. pc[Main] = "idle"
    BY <1>3 DEF Known, IInv, LogInv, Opening
  <2> QED
    BY <1>1, <1>3, <2>1 DEF EndedInv, StageInv, WordInv, SealInv, LeavesSealed, Opening
<1>4. CASE stage \in {"session", "scan", "wait"} /\ stage' \in {"scan", "wait", "shutdown"}
  <2>1. pc[Main] = "idle"
    BY <1>4 DEF Known, IInv, LogInv
  <2> QED
    BY <1>1, <1>4, <2>1 DEF EndedInv, StageInv, WordInv, LastIs, SealInv, LeavesSealed
<1>5. CASE stage = "close" /\ stage' = "leave" /\ ~ active'
  <2>1. pc[Main] = "idle"
    BY <1>5 DEF Known, IInv, LogInv
  <2> QED
    BY <1>1, <1>5, <2>1 DEF EndedInv, StageInv, WordInv, LastIs, SealInv, AllCovered, LP!Saved,
       LeavesSealed
<1>6. CASE stage = "seal" /\ stage' = "close" /\ pc[Main] = "idle" /\ AllCovered
  BY <1>1, <1>6 DEF EndedInv, StageInv, WordInv, LastIs, SealInv, AllCovered, LP!Saved,
     LeavesSealed
<1> QED
  BY <1>2, <1>3, <1>4, <1>5, <1>6

\* The constructor reads the log, and with it what it tells.
LEMMA AuditOpens ==
  ASSUME Known, AuditInv, OpenLog
  PROVE  AuditInv'
<1>1. /\ stage = "startup" /\ pc[Main] = "idle" /\ UNCHANGED <<stage, run, ended, active, pc, draft, disk>>
      /\ \/ UNCHANGED <<entries, checkpoints>> /\ status' # "running"
         \/ /\ disk.state # "torn" /\ status' = "running"
            /\ entries' = disk.entries /\ checkpoints' = disk.checkpoints
  <2>1. stage = "startup" /\ status # "running"
    BY DEF OpenLog, Log!LoadKey, Log!GenerateKey, Log!WriteKey, Log!Load
  <2>2. pc[Main] = "idle"
    BY <2>1 DEF Known, IInv, LogInv
  <2> QED
    BY <2>1, <2>2 DEF OpenLog, history, Log!LoadKey, Log!GenerateKey, Log!WriteKey, Log!Load,
       Log!fileVars, Log!memoryVars
<1>2. ToldInv'
  BY <1>1 DEF AuditInv, ToldInv
<1> QED
  BY <1>1, <1>2 DEF AuditInv, EndedInv, StageInv, WordInv, SealInv, LeavesSealed

\* log_event builds the entry of its stage.
LEMMA AuditEvent ==
  ASSUME Known, AuditInv, LogEvent
  PROVE  AuditInv'
<1>1. /\ stage \in {"startup", "shutdown"} /\ pc[Main] = "idle"
      /\ UNCHANGED <<stage, run, ended, active, entries, checkpoints, disk, status>>
      /\ pc' = [pc EXCEPT ![Main] = "built"]
      /\ draft' = [draft EXCEPT ![Main] = <<Log!NewEntry([event |-> stage, run |-> run])>>]
  BY DEF LogEvent, history, Log!BuildEntry, Log!Acquire, Log!fileVars, Log!memoryVars
<1>2. pc'[Main] = "built"
  BY <1>1 DEF Known, IInv, LogInv
<1>3. Head(draft'[Main]).data = Event(stage, run)
  <2>1. draft'[Main] = <<Log!NewEntry([event |-> stage, run |-> run])>>
    BY <1>1, LogFacts DEF LP!TypeOK
  <2>2. Log!NewEntry([event |-> stage, run |-> run]).data = [event |-> stage, run |-> run]
    BY DEF Log!NewEntry
  <2> QED
    BY <2>1, <2>2 DEF Event
<1>4. ToldInv'
  BY <1>1 DEF AuditInv, ToldInv
<1> QED
  BY <1>1, <1>2, <1>3, <1>4 DEF AuditInv, EndedInv, StageInv, WordInv, LastIs, SealInv,
     LeavesSealed

\* What every step of a call leaves alone.
LEMMA InCall ==
  ASSUME Known, LogCall
  PROVE  /\ stage \in {"startup", "shutdown", "seal"} /\ status = "running"
         /\ UNCHANGED <<run, ended, active, status>>
         /\ pc'[Main] # "idle" => stage' = stage
         /\ pc'[Main] = "idle" => stage' = AfterCall
<1>1. stage \in {"startup", "shutdown", "seal"}
  BY LogStages DEF Known, IInv
<1>2. status = "running" /\ status' = status
  BY DEF Known, IInv, LogInv, LogCall, Log!PublishEntry, Log!SaveOpen, Log!SaveWrite,
     Log!CheckpointDue, Log!CheckpointNotDue, Log!ForceCheckpoint, Log!Acquire
<1> QED
  BY <1>1, <1>2 DEF LogCall, history

\* append puts the entry in the list.
LEMMA AuditPublish ==
  ASSUME Known, AuditInv, LogCall, Log!PublishEntry(Main)
  PROVE  AuditInv'
<1> DEFINE e == Head(draft[Main])
<1>1. /\ pc[Main] = "built" /\ pc' = [pc EXCEPT ![Main] = "save"]
      /\ entries' = Append(entries, e)
      /\ UNCHANGED <<checkpoints, disk>>
  BY DEF Log!PublishEntry, Log!fileVars
<1>2. pc'[Main] = "save"
  BY <1>1 DEF Known, IInv, LogInv
<1>3. /\ stage \in {"startup", "shutdown"} /\ status = "running"
      /\ UNCHANGED <<stage, run, ended, active, status>>
      /\ e.data = Event(stage, run)
      /\ stage = "shutdown" => LastIs("startup")
  BY <1>1, <1>2, InCall DEF AuditInv, StageInv, WordInv
<1>4. e \in LP!Entry
  <2>1. draft[Main] \in Seq(LP!Entry) /\ draft[Main] # <<>>
    BY <1>1, LogFacts DEF LP!TypeOK
  <2> QED
    BY <2>1
<1>5. /\ entries \in Seq(LP!Entry) /\ run \in Nat \ {0}
      /\ LastEnd(checkpoints) \in Int /\ LastEnd(checkpoints) <= Len(entries) - 1
  BY <1>3, LogFacts
<1>6. LastIs(stage)'
  <2>1. entries' # <<>> /\ entries'[Len(entries')] = e
    BY <1>1, <1>4, <1>5
  <2> QED
    BY <1>3, <2>1 DEF LastIs
<1>7. Told(Append(entries, e), checkpoints, run, ended)
  <2>1. Told(entries, checkpoints, run, ended)
    BY <1>3 DEF AuditInv, ToldInv
  <2>2. \/ e.data = Event("startup", run)
        \/ /\ e.data = Event("shutdown", run)
           /\ entries # <<>> /\ entries[Len(entries)].data = Event("startup", run)
    BY <1>3 DEF LastIs
  <2> QED
    BY <1>4, <1>5, <2>1, <2>2, ToldAppend
<1>8. ToldInv'
  BY <1>1, <1>3, <1>7 DEF AuditInv, ToldInv
<1> QED
  BY <1>2, <1>3, <1>6, <1>8 DEF AuditInv, EndedInv, StageInv, WordInv, SealInv, LeavesSealed

\* A save: the file is cut, then it tells what memory tells.
LEMMA AuditSave ==
  ASSUME Known, AuditInv, LogCall, Log!SaveOpen(Main) \/ Log!SaveWrite(Main)
  PROVE  AuditInv'
<1>0. /\ stage \in {"startup", "shutdown", "seal"} /\ status = "running"
      /\ UNCHANGED <<run, ended, active, status, entries, checkpoints, draft>>
      /\ stage = "seal" => pc[Main] \in {"idle", "saveCheckpoint", "writeCheckpoint"}
      /\ stage \in {"startup", "shutdown"} /\ pc[Main] \notin {"idle", "built"} => LastIs(stage)
      /\ stage = "seal" => LastIs("shutdown")
      /\ stage = "seal" /\ pc[Main] # "idle" => AllCovered
  BY InCall DEF Log!SaveOpen, Log!SaveWrite, Log!memoryVars, AuditInv, StageInv, WordInv, SealInv
<1>1. CASE Log!SaveOpen(Main)
  <2>1. /\ pc[Main] \in {"save", "saveCheckpoint"} /\ disk'.state = "torn"
        /\ pc'[Main] = IF pc[Main] = "save" THEN "write" ELSE "writeCheckpoint"
    BY <1>1 DEF Log!SaveOpen, Log!Torn, Known, IInv, LogInv
  <2>2. stage' = stage
    BY <2>1, InCall
  <2>3. ToldInv'
    BY <1>0, <2>1 DEF AuditInv, ToldInv
  <2> QED
    BY <1>0, <2>1, <2>2, <2>3 DEF AuditInv, EndedInv, StageInv, WordInv, LastIs, SealInv,
       AllCovered, LeavesSealed
<1>2. CASE Log!SaveWrite(Main)
  <2>1. /\ pc[Main] \in {"write", "writeCheckpoint"}
        /\ pc'[Main] = IF pc[Main] = "write" THEN "due" ELSE "idle"
        /\ disk' = Log!Saved
    BY <1>2 DEF Log!SaveWrite, Log!Return, Log!Release, Known, IInv, LogInv
  <2>2. /\ disk'.entries = entries /\ disk'.checkpoints = checkpoints
        /\ disk' = LP!Saved'
    BY <1>0, <2>1 DEF Log!Saved, LP!Saved
  <2>3. ToldInv'
    BY <1>0, <2>2 DEF AuditInv, ToldInv
  <2>4. CASE pc[Main] = "write"
    <3>1. stage' = stage /\ pc'[Main] = "due"
      BY <2>1, <2>4, InCall
    <3> QED
      BY <1>0, <2>3, <2>4, <3>1 DEF AuditInv, EndedInv, StageInv, WordInv, LastIs, SealInv,
         LeavesSealed
  <2>5. CASE pc[Main] = "writeCheckpoint"
    <3>1. stage' = AfterCall /\ pc'[Main] = "idle"
      BY <2>1, <2>5, InCall
    <3>2. CASE stage = "startup"
      <4>1. stage' = "session"
        BY <3>1, <3>2 DEF AfterCall
      <4> QED
        BY <1>0, <2>3, <2>5, <3>1, <3>2, <4>1 DEF AuditInv, EndedInv, StageInv, WordInv, LastIs,
           SealInv, LeavesSealed
    <3>3. CASE stage = "shutdown"
      <4>1. stage' = "seal"
        BY <3>1, <3>3 DEF AfterCall
      <4> QED
        BY <1>0, <2>2, <2>3, <2>5, <3>1, <3>3, <4>1 DEF AuditInv, EndedInv, StageInv, WordInv,
           LastIs, SealInv, LeavesSealed
    <3>4. CASE stage = "seal"
      <4>1. stage' = "close"
        BY <3>1, <3>4 DEF AfterCall
      <4> QED
        BY <1>0, <2>2, <2>3, <2>5, <3>1, <3>4, <4>1 DEF AuditInv, EndedInv, StageInv, WordInv,
           LastIs, SealInv, AllCovered, LeavesSealed
    <3> QED
      BY <1>0, <3>2, <3>3, <3>4
  <2> QED
    BY <2>1, <2>4, <2>5
<1> QED
  BY <1>1, <1>2

\* A checkpoint, at a boundary or for the shutdown, covers the whole log.
LEMMA AuditCheckpoint ==
  ASSUME Known, AuditInv, LogCall,
         Log!CheckpointDue(Main) \/ (stage = "seal" /\ Log!ForceCheckpoint(Main))
  PROVE  AuditInv'
<1>1. /\ stage \in {"startup", "shutdown", "seal"} /\ status = "running"
      /\ UNCHANGED <<run, ended, active, status, entries, disk>>
      /\ checkpoints' = Append(checkpoints, Log!NewCheckpoint)
      /\ pc[Main] = IF stage = "seal" THEN "idle" ELSE "due"
      /\ pc'[Main] = "saveCheckpoint"
  BY InCall DEF Log!CheckpointDue, Log!ForceCheckpoint, Log!Acquire, Log!fileVars, Known, IInv,
     LogInv, AuditInv, StageInv
<1>2. stage' = stage
  BY <1>1, InCall
<1>3. LastEnd(checkpoints') = Len(entries) - 1
  <2>1. checkpoints \in Seq(LP!Checkpoint)
    BY LogFacts DEF LP!TypeOK
  <2>2. /\ checkpoints' # <<>>
        /\ checkpoints'[Len(checkpoints')] = Log!NewCheckpoint
    BY <1>1, <2>1
  <2>3. Log!NewCheckpoint.end_index = Len(entries) - 1
    BY DEF Log!NewCheckpoint
  <2> QED
    BY <2>2, <2>3 DEF LastEnd, LP!LastCheckpointEnd, LP!Last
<1>4. Told(entries, checkpoints', run, ended)
  <2>1. Told(entries, checkpoints, run, ended)
    BY <1>1 DEF AuditInv, ToldInv
  <2>2. /\ LastEnd(checkpoints) \in Int /\ LastEnd(checkpoints') \in Int
        /\ LastEnd(checkpoints) <= LastEnd(checkpoints')
    <3>1. /\ LastEnd(checkpoints) \in Int /\ Len(entries) - 1 \in Int
          /\ LastEnd(checkpoints) <= Len(entries) - 1
      BY LogFacts
    <3> QED
      BY <1>3, <3>1
  <2> QED
    BY <2>1, <2>2, ToldFurther
<1>5. ToldInv'
  BY <1>1, <1>4 DEF AuditInv, ToldInv
<1> QED
  BY <1>1, <1>2, <1>3, <1>5 DEF AuditInv, EndedInv, StageInv, WordInv, LastIs, SealInv,
     AllCovered, LeavesSealed

\* append returns with no checkpoint due: the entry is saved.
LEMMA AuditReturn ==
  ASSUME Known, AuditInv, LogCall, Log!CheckpointNotDue(Main)
  PROVE  AuditInv'
<1>1. /\ stage \in {"startup", "shutdown"} /\ status = "running"
      /\ UNCHANGED <<run, ended, active, status, entries, checkpoints, disk>>
      /\ pc[Main] = "due" /\ pc'[Main] = "idle"
      /\ stage' = IF stage = "startup" THEN "session" ELSE "seal"
  <2>1. pc[Main] = "due" /\ pc'[Main] = "idle" /\ UNCHANGED <<entries, checkpoints, disk>>
    BY DEF Log!CheckpointNotDue, Log!Return, Log!Release, Log!fileVars, Log!memoryVars, Known,
       IInv, LogInv
  <2>2. stage \in {"startup", "shutdown"}
    BY <2>1, InCall DEF AuditInv, StageInv
  <2>3. stage' = IF stage = "startup" THEN "session" ELSE "seal"
    BY <2>1, <2>2, InCall DEF AfterCall
  <2> QED
    BY <2>1, <2>2, <2>3, InCall
<1>2. disk = LP!Saved
  BY <1>1, LogFacts
<1>3. LastIs(stage)
  BY <1>1 DEF AuditInv, WordInv
<1>4. ToldInv'
  BY <1>1 DEF AuditInv, ToldInv
<1> QED
  BY <1>1, <1>2, <1>3, <1>4 DEF AuditInv, EndedInv, StageInv, WordInv, LastIs, SealInv, LP!Saved,
     LeavesSealed

\* A save that fails: main() is left, from finally as well.
LEMMA AuditFails ==
  ASSUME Known, AuditInv, LogCallFails
  PROVE  AuditInv'
<1>1. /\ UNCHANGED <<run, ended, active, status, entries, checkpoints, disk>>
      /\ stage' = "raised" /\ pc'[Main] = "idle" /\ stage # "down"
  BY LogStages DEF LogCallFails, history, Log!SaveFails, Log!Release, Log!fileVars,
     Log!memoryVars, Known, IInv, LogInv
<1>2. ToldInv'
  BY <1>1 DEF AuditInv, ToldInv
<1> QED
  BY <1>1, <1>2 DEF AuditInv, EndedInv, StageInv, WordInv, SealInv, LeavesSealed

LEMMA AuditStep ==
  ASSUME Known, AuditInv, [Next]_vars
  PROVE  AuditInv'
<1>1. ASSUME NEW env \in Environments, Start(env)
      PROVE  AuditInv'
  BY <1>1, AuditStart
<1>2. CASE KeyRefused \/ LogRefused \/ Raised \/ Leave \/ WriteFails \/ Kill
  BY <1>2, AuditAtEnd DEF KeyRefused, LogRefused, Raised, Leave, WriteFails, Kill
<1>3. CASE OpenLog
  BY <1>3, AuditOpens
<1>4. CASE LogEvent
  BY <1>4, AuditEvent
<1>5. CASE LogCall
  BY <1>5, AuditPublish, AuditSave, AuditCheckpoint, AuditReturn DEF LogCall
<1>6. CASE LogCallFails
  BY <1>6, AuditFails
<1>7. CASE ReadKey \/ CreateKey \/ FillKey
  <2>1. stage \in Opening /\ stage' \in {"open", "fill", "startup"}
    BY <1>7 DEF ReadKey, CreateKey, FillKey, Opened, Opening
  <2>2. UNCHANGED <<run, ended, logVars>>
    BY <1>7 DEF ReadKey, CreateKey, FillKey, Opened, history
  <2> QED
    BY <2>1, <2>2, AuditBetween DEF logVars
<1>8. CASE StartSession \/ AddTurn \/ WriteUnderKey \/ SkipWrites
  <2>1. /\ stage \in {"session", "scan", "wait"} /\ stage' \in {"scan", "wait", "shutdown"}
        /\ UNCHANGED <<run, ended, logVars>>
    BY <1>8 DEF StartSession, AddTurn, SaveStore, WriteUnderKey, SkipWrites, Pass, history
  <2> QED
    BY <2>1, AuditBetween DEF logVars
<1>9. CASE NextPass \/ Stopped \/ PassRaises
  <2>1. /\ stage \in {"session", "scan", "wait"} /\ stage' \in {"scan", "wait", "shutdown"}
        /\ UNCHANGED <<run, ended, logVars>>
    BY <1>9 DEF NextPass, Stopped, PassRaises, history
  <2> QED
    BY <2>1, AuditBetween DEF logVars
<1>10. CASE CloseSession
  <2>1. /\ stage = "close" /\ stage' = "leave" /\ ~ active'
        /\ UNCHANGED <<run, ended, logVars>>
    BY <1>10 DEF CloseSession, SaveStore, history
  <2> QED
    BY <2>1, AuditBetween DEF logVars
<1>11. CASE NothingToSeal
  <2>1. /\ stage = "seal" /\ stage' = "close" /\ pc[Main] = "idle"
        /\ UNCHANGED <<run, ended, logVars>>
        /\ Len(entries) - 1 <= LastEnd(checkpoints)
    BY <1>11, SameEnd DEF NothingToSeal, history
  <2>2. AllCovered
    <3>1. /\ LastEnd(checkpoints) \in Int /\ Len(entries) \in Nat
          /\ LastEnd(checkpoints) <= Len(entries) - 1
      BY LogFacts
    <3> QED
      BY <2>1, <3>1 DEF AllCovered
  <2> QED
    BY <2>1, <2>2, AuditBetween DEF logVars
<1>12. CASE Signal \/ UNCHANGED vars
  <2>1. UNCHANGED <<stage, active, run, ended, logVars>>
    BY <1>12 DEF Signal, vars, history
  <2> QED
    BY <2>1, AuditBetween DEF logVars
<1> QED
  BY <1>1, <1>2, <1>3, <1>4, <1>5, <1>6, <1>7, <1>8, <1>9, <1>10, <1>11, <1>12 DEF Next, Step

-----------------------------------------------------------------------------
(* The theorems.                                                           *)

LEMMA AuditInvariant == Spec => [](Known /\ AuditInv)
<1>1. Init => Known /\ AuditInv
  <2>1. Init => RunInv
    BY ServiceAssumption DEF Init, RunInv
  <2> QED
    BY <2>1, InitInv, LogInit, AuditInit DEF Known
<1>2. (Known /\ AuditInv) /\ [Next]_vars => (Known /\ AuditInv)'
  <2> SUFFICES ASSUME Known, AuditInv, [Next]_vars
               PROVE  Known' /\ AuditInv'
    OBVIOUS
  <2>1. IInv'
    BY TypedStep, KeysStep, LogStep, CutStep DEF Known, IInv, KeyParts, CutParts
  <2> QED
    BY <2>1, RunStep, LogKeepsInv, AuditStep DEF Known
<1> QED
  BY <1>1, <1>2, PTL DEF Spec

\* The log that can be read tells how each process ended: "shutdown" only right
\* after the "startup" of the same process, and for each process that ran its
\* finally clause to the end, under a checkpoint (main.py:59, 75-76).
THEOREM LogTellsEnds == Spec => []AuditTells
<1>1. Known /\ AuditInv => AuditTells
  <2> SUFFICES ASSUME Known, AuditInv, disk.state # "torn"
               PROVE  /\ \A i \in 1 .. Len(disk.entries) : \A r \in 1 .. run :
                           Recorded("shutdown", r, i) => i > 1 /\ Recorded("startup", r, i - 1)
                      /\ \A r \in 1 .. Len(ended) : ended[r] = "clean" =>
                           \E i \in 1 .. Log!LastCheckpointEnd(disk.checkpoints) + 1 :
                             Recorded("shutdown", r, i)
    BY DEF AuditTells
  <2>1. Told(disk.entries, disk.checkpoints, run, ended)
    BY DEF AuditInv, ToldInv
  <2> QED
    BY <2>1, SameEnd DEF Told, Event, Recorded
<1> QED
  BY <1>1, AuditInvariant, PTL

\* A process that left in order has the last word in the file, sealed to the
\* end, and leaves no session active (main.py:74-79).
THEOREM LeftSealed == Spec => []LeavesSealed
<1>1. AuditInv => LeavesSealed
  BY DEF AuditInv
<1> QED
  BY <1>1, AuditInvariant, PTL

\* What the audit log promises of itself it keeps as main() uses it.
LogPromises ==
  Log!ChainIntact /\ Log!CheckpointsTile /\ Log!CheckpointsVerifiable /\ Log!AckedOnDisk

\* Through any processes, kills and failed writes of the service: the chain from
\* genesis is unbroken, the checkpoints tile the log and verify with the key
\* in the key file, and a file that can be read holds every event whose
\* log_event returned (immutable_log.py:118-129, 164-189).
THEOREM ServiceKeepsLog == Spec => []LogPromises
<1>1. LP!IInv => LogPromises
  <2> SUFFICES ASSUME LP!IInv PROVE LogPromises
    OBVIOUS
  <2>1. LP!ChainIntact /\ LP!CheckpointsTile /\ LP!CheckpointsVerifiable /\ LP!AckedOnDisk
    BY DEF LP!IInv
  <2>2. Log!ChainIntact
    BY <2>1 DEF Log!ChainIntact, LP!ChainIntact, Log!Chained, LP!Chained, Log!EntryOK, LP!EntryOK,
       Log!ComputeHash, LP!ComputeHash, Log!GENESIS_HASH, LP!GENESIS_HASH
  <2>3. Log!CheckpointsTile
    BY <2>1 DEF Log!CheckpointsTile, LP!CheckpointsTile, Log!Tiled, LP!Tiled, Log!MerkleRoot,
       LP!MerkleRoot
  <2> QED
    BY <2>1, <2>2, <2>3 DEF LogPromises, Log!CheckpointsVerifiable, LP!CheckpointsVerifiable,
       Log!AckedOnDisk, LP!AckedOnDisk
<1> QED
  BY <1>1, AuditInvariant, PTL DEF Known

LEMMA LogFailsStop ==
  ASSUME Known, [Next]_vars
  PROVE  [LP!FailStop!Next]_(LP!FailStop!vars)
<1>1. CASE LP!Next
  BY <1>1, LP!RefinedStep, Assumed DEF Known
<1>2. CASE LP!Exit
  BY <1>2, LP!RefinedExit, Assumed DEF Known, LP!FailStop!Next
<1>3. CASE UNCHANGED logVars
  BY <1>3 DEF logVars, LP!FailStop!vars, LP!RefinedLog, LP!Readable, LP!DataOf
<1> QED
  BY <1>1, <1>2, <1>3, LogSees DEF Known

\* The service drives its log as a fail-stop log: of the events main() records,
\* no end of a process, in order or not, loses one whose log_event returned
\* unless it makes the log refuse to open as a whole (immutable_log.py:139-179,
\* main.py:59, 75-76).
THEOREM ServiceLogIsFailStop == Spec => LP!ImplementsFailStop
<1>1. Init => LP!FailStop!Init
  <2> SUFFICES ASSUME Init PROVE LP!FailStop!Init
    OBVIOUS
  <2>1. LP!Init
    BY LogStarts
  <2> QED
    BY <2>1 DEF LP!Init, LP!FailStop!Init, LP!RefinedLog, LP!Readable, LP!DataOf, LP!Absent
<1>2. (Known /\ AuditInv) /\ [Next]_vars => [LP!FailStop!Next]_(LP!FailStop!vars)
  BY LogFailsStop
<1> QED
  BY <1>1, <1>2, AuditInvariant, PTL DEF Spec, LP!ImplementsFailStop, LP!FailStop!Spec
=============================================================================
