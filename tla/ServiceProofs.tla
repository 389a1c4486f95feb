---------------------------- MODULE ServiceProofs ----------------------------
(***************************************************************************)
(* Proofs about Service, for any number of processes, faults and modes.    *)
(***************************************************************************)
EXTENDS Service, TLAPS, SequenceTheorems

-----------------------------------------------------------------------------
(* The inductive invariant.                                                *)

\* Once past the key files, until it ends.
Opening == {"open", "fill"}
Open    == {"startup", "session", "scan", "wait", "shutdown", "seal", "close",
            "leave", "raised"}

Typed ==
  /\ TypeOK
  /\ stage # "down" => run # 0
  /\ stage \in Opening => at \in 1 .. Len(Opens(mode))
  /\ stage = "down" => at = 1

\* A key in memory is the key in the file; the one being made is nowhere yet.
KeysInv ==
  /\ \A f \in KeyFiles :
       /\ keys[f] = Absent \/ keys[f] = Torn \/ \E k \in Nat \ {0} : keys[f] = Whole(k)
       /\ held[f] # NoKey => keys[f] = Whole(held[f])
  /\ stage = "fill" => keys[Key] = Torn

\* Every key file a stage is past has been read or made.
HeldInv ==
  /\ stage \in Opening => \A i \in 1 .. at - 1 : held[Opens(mode)[i]] # NoKey
  /\ stage \in Open => \A i \in 1 .. Len(Opens(mode)) : held[Opens(mode)[i]] # NoKey

\* Where the audit log is when main() is at a stage.
LogInv ==
  /\ pc \in [{Main} -> {"idle", "built", "save", "write", "due", "saveCheckpoint",
                        "writeCheckpoint"}]
  /\ status \in {"down", "keying", "loading", "running", "failed"}
  /\ pc[Main] # "idle" => status = "running" /\ stage \in {"startup", "shutdown", "seal"}
  /\ status \in {"keying", "loading", "failed"} => stage = "startup"

\* A file is half written where a write is under way, or because of a cut.
CutInv ==
  /\ \A f \in KeyFiles : keys[f].state = "torn" => f \in cut \/ (stage = "fill" /\ f = Key)
  /\ key_file.state = "torn" => "log_key" \in cut \/ status = "keying"
  /\ disk.state = "torn" =>
       "log" \in cut \/ pc[Main] \in {"write", "writeCheckpoint"} \/ stage = "raised"
  /\ status = "failed" => cut \cap LogFiles # {}

IInv ==
  /\ Typed /\ KeysInv /\ HeldInv /\ LogInv /\ CutInv
  /\ KeysOutliveTheirUse /\ RefusedOnlyAfterCut

-----------------------------------------------------------------------------
LEMMA KeyLists ==
  ASSUME NEW m \in Modes
  PROVE  /\ Opens(m) \in Seq(KeyFiles) /\ Writes(m) \in Seq(KeyFiles)
         /\ Len(Opens(m)) \in Nat \ {0}
         /\ \A i \in 1 .. Len(Writes(m)) :
              \E j \in 1 .. Len(Opens(m)) : Writes(m)[i] = Opens(m)[j]
<1>1. ReplicaKey(m) \in KeyFiles
  BY DEF ReplicaKey, KeyFiles
<1>2. CASE m = "ghost"
  BY <1>2 DEF Opens, Writes, KeyFiles
<1>3. CASE m # "ghost"
  BY <1>1, <1>3 DEF Opens, Writes, KeyFiles
<1> QED
  BY <1>2, <1>3

LEMMA InitInv == Init => IInv
<1> SUFFICES ASSUME Init PROVE IInv
  OBVIOUS
<1>1. Typed
  <2>1. ended \in Seq({"refused", "killed", "failed", "clean"})
    BY DEF Init
  <2>2. keys \in [KeyFiles -> [state : {"absent", "torn", "ok"}, key : Nat]]
    BY DEF Init, Absent, NoKey
  <2>3. held \in [KeyFiles -> Nat] /\ used \in [KeyFiles -> SUBSET Nat]
    BY DEF Init, NoKey
  <2>4. /\ stage = "down" /\ mode = "ghost" /\ at = 1 /\ run = 0
    BY DEF Init
  <2>5. stop \in BOOLEAN /\ active \in BOOLEAN /\ cut \subseteq KeyFiles \cup LogFiles
    BY DEF Init
  <2> QED
    BY <2>1, <2>2, <2>3, <2>4, <2>5 DEF Typed, TypeOK, Modes, Opening
<1>2. KeysInv /\ HeldInv /\ KeysOutliveTheirUse /\ RefusedOnlyAfterCut
  BY DEF Init, KeysInv, HeldInv, Opening, Open, KeysOutliveTheirUse, RefusedOnlyAfterCut
<1>3. LogInv
  BY DEF Init, Log!Init, LogInv
<1>4. CutInv
  BY DEF Init, Log!Init, CutInv, Absent, Log!NoKey, Log!Absent
<1> QED
  BY <1>1, <1>2, <1>3, <1>4 DEF IInv

\* The key a start is about to open is one of the key files.
LEMMA KeyIsFile ==
  ASSUME Typed, stage \in Opening
  PROVE  Key \in KeyFiles
BY KeyLists DEF Typed, TypeOK, Key

\* The calls main() makes of the audit log come from three stages, and the
\* constructor from one.
LEMMA LogStages ==
  ASSUME LogInv
  PROVE  /\ LogCall \/ LogCallFails => stage \in {"startup", "shutdown", "seal"}
         /\ LogCall => stage' \in {stage, "session", "seal", "close"}
<1>1. ASSUME LogCall \/ LogCallFails
      PROVE  stage \in {"startup", "shutdown", "seal"}
  BY <1>1 DEF LogInv, LogCall, LogCallFails, Log!PublishEntry, Log!SaveOpen, Log!SaveWrite,
     Log!CheckpointDue, Log!CheckpointNotDue, Log!SaveFails
<1>2. ASSUME LogCall
      PROVE  stage' \in {stage, "session", "seal", "close"}
  <2>1. AfterCall \in {"session", "seal", "close"}
    BY <1>1, <1>2 DEF AfterCall
  <2> QED
    BY <1>2, <2>1 DEF LogCall
<1> QED
  BY <1>1, <1>2

-----------------------------------------------------------------------------
(* Types.                                                                  *)

LEMMA TypedStep ==
  ASSUME IInv, [Next]_vars
  PROVE  Typed'
<1> USE DEF Typed, TypeOK
<1>0. Typed
  BY DEF IInv
<1>1. ASSUME NEW how \in {"refused", "killed", "failed", "clean"}, End(how)
      PROVE  Typed'
  <2>1. ended' \in Seq({"refused", "killed", "failed", "clean"})
    BY <1>0, <1>1 DEF End
  <2>2. cut' \subseteq KeyFiles \cup LogFiles
    BY <1>0, <1>1 DEF End, HalfWritten
  <2>3. held' \in [KeyFiles -> Nat] /\ at' = 1 /\ stage' = "down"
        /\ UNCHANGED <<mode, keys, active, run, used>>
    BY <1>1 DEF End, NoKey
  <2>4. stop' \in BOOLEAN
    BY <1>1 DEF End
  <2> QED
    BY <1>0, <2>1, <2>2, <2>3, <2>4 DEF Opening
<1>2. ASSUME NEW env \in Environments, Start(env)
      PROVE  Typed'
  <2>1. ModeOf(env) \in Modes
    BY DEF ModeOf, Modes
  <2>2. run' \in Nat \ {0} /\ at' = at /\ stage' = "open"
    BY <1>0, <1>2 DEF Start
  <2> QED
    <3>1. mode' = ModeOf(env) /\ at' = 1 /\ UNCHANGED <<stop, keys, held, active, used, ended, cut>>
      BY <1>0, <1>2 DEF Start
    <3>2. Len(Opens(mode')) \in Nat \ {0}
      BY <2>1, <3>1, KeyLists
    <3> QED
      BY <1>0, <2>1, <2>2, <3>1, <3>2 DEF Opening
<1>3. ASSUME NEW key \in Nat, Opened(key), stage \in Opening,
             keys' \in [KeyFiles -> [state : {"absent", "torn", "ok"}, key : Nat]]
      PROVE  Typed'
  <2>1. Len(Opens(mode)) \in Nat \ {0}
    BY <1>0, KeyLists
  <2>2. held' \in [KeyFiles -> Nat]
    BY <1>0, <1>3, KeyIsFile DEF Opened
  <2>3. /\ at' \in Nat \ {0}
        /\ stage' \in Opening => at' \in 1 .. Len(Opens(mode))
        /\ stage' \in {"open", "startup"}
    BY <1>0, <1>3, <2>1 DEF Opened, Opening
  <2> QED
    BY <1>0, <1>3, <2>2, <2>3 DEF Opened, history, Opening
<1>4. CASE ReadKey
  <2>1. Key \in KeyFiles
    BY <1>0, <1>4, KeyIsFile DEF ReadKey, Opening
  <2> QED
    BY <1>0, <1>3, <1>4, <2>1 DEF ReadKey, Opening
<1>5. CASE CreateKey
  BY <1>0, <1>5 DEF CreateKey, Torn, NoKey, history, Opening
<1>6. CASE FillKey
  <2>1. Key \in KeyFiles /\ run \in Nat
    BY <1>0, <1>6, KeyIsFile DEF FillKey, Opening
  <2>2. keys' \in [KeyFiles -> [state : {"absent", "torn", "ok"}, key : Nat]]
    BY <1>0, <1>6, <2>1 DEF FillKey, Whole
  <2> QED
    BY <2>1, <2>2, <1>0, <1>3, <1>6 DEF FillKey, Opening
<1>7. CASE OpenLog \/ LogEvent \/ LogCall \/ NothingToSeal \/ LogCallFails
  <2>1. stage' \in {"startup", "shutdown", "session", "seal", "close", "raised"}
    BY <1>7, LogStages DEF IInv, OpenLog, LogEvent, NothingToSeal, LogCallFails
  <2>2. stage # "down" /\ UNCHANGED <<mode, at, stop, keys, held, active, run, used, ended, cut>>
    BY <1>7, LogStages DEF IInv, OpenLog, LogEvent, LogCall, NothingToSeal, LogCallFails, history
  <2> QED
    BY <1>0, <2>1, <2>2 DEF Opening
<1>8. CASE StartSession \/ CloseSession \/ AddTurn
  <2>1. active' \in BOOLEAN
    BY <1>8 DEF StartSession, CloseSession, AddTurn, SaveStore
  <2>2. /\ stage' \in Open /\ stage # "down" /\ at' \in {at, 1}
        /\ UNCHANGED <<mode, stop, keys, held, run, used, ended, cut>>
    BY <1>8 DEF StartSession, CloseSession, AddTurn, SaveStore, history, Open
  <2> QED
    BY <1>0, <2>1, <2>2 DEF Opening, Open
<1>9. CASE WriteUnderKey
  <2>1. used' \in [KeyFiles -> SUBSET Nat]
    <3>1. Writes(mode)[at] \in KeyFiles
      BY <1>0, <1>9, KeyLists DEF WriteUnderKey
    <3> QED
      BY <1>0, <1>9, <3>1 DEF WriteUnderKey
  <2> QED
    BY <1>0, <1>9, <2>1 DEF WriteUnderKey, Pass, Opening
<1>10. CASE SkipWrites
  <2>1. Len(Writes(mode)) \in Nat
    BY <1>0, KeyLists
  <2> QED
    BY <1>0, <1>10, <2>1 DEF SkipWrites, Pass, history, Opening
<1>11. CASE NextPass \/ Stopped \/ Signal \/ PassRaises
  <2>1. /\ stage' \in Open /\ stage # "down" /\ at' \in {at, 1} /\ stop' \in BOOLEAN
        /\ UNCHANGED <<mode, keys, held, active, run, used, ended, cut>>
    BY <1>0, <1>11 DEF NextPass, Stopped, Signal, PassRaises, history, Open
  <2> QED
    BY <1>0, <2>1 DEF Opening, Open
<1>12. CASE UNCHANGED vars
  BY <1>0, <1>12 DEF vars, history, Opening
<1>13. CASE KeyRefused \/ LogRefused \/ Raised \/ Leave \/ WriteFails \/ Kill
  BY <1>1, <1>13 DEF KeyRefused, LogRefused, Raised, Leave, WriteFails, Kill
<1> QED
  BY <1>2, <1>4, <1>5, <1>6, <1>7, <1>8, <1>9, <1>10, <1>11, <1>12, <1>13 DEF Next, Step

-----------------------------------------------------------------------------
(* Keys.                                                                   *)

KeyParts == KeysInv /\ HeldInv /\ KeysOutliveTheirUse

\* A step that opens no file and leaves the keys alone.
LEMMA KeysKept ==
  ASSUME KeyParts, UNCHANGED <<mode, keys, held, used>>,
         \/ stage \in Open /\ stage' \in Open
         \/ UNCHANGED <<stage, at>>
  PROVE  KeyParts'
<1>1. /\ stage' \notin Opening \/ UNCHANGED <<stage, at>>
      /\ stage' \in Open => stage \in Open
  BY DEF Open, Opening
<1> QED
  BY <1>1 DEF KeyParts, KeysInv, HeldInv, KeysOutliveTheirUse, Opening, Key

\* The process is gone.
LEMMA KeysAtEnd ==
  ASSUME KeyParts, Typed, NEW how, End(how)
  PROVE  KeyParts'
<1>1. stage' = "down" /\ UNCHANGED <<keys, used>> /\ held' = [f \in KeyFiles |-> NoKey]
  BY DEF End
<1> QED
  BY <1>1 DEF KeyParts, KeysInv, HeldInv, KeysOutliveTheirUse, Open, Opening

\* The file of Key holds what its owner has been constructed with.
LEMMA KeysOpened ==
  ASSUME KeyParts, Typed, stage \in Opening,
         NEW key \in Nat \ {0}, Opened(key),
         keys' = [keys EXCEPT ![Key] = Whole(key)],
         used[Key] = {} \/ keys[Key] = Whole(key)
  PROVE  KeyParts'
<1>1. Key \in KeyFiles /\ mode \in Modes /\ at \in 1 .. Len(Opens(mode))
  BY KeyIsFile DEF Typed, TypeOK
<1>2. /\ held' = [held EXCEPT ![Key] = key] /\ held \in [KeyFiles -> Nat]
      /\ keys \in [KeyFiles -> [state : {"absent", "torn", "ok"}, key : Nat]]
  BY DEF Opened, Typed, TypeOK
<1>3. stage' \in {"open", "startup"} /\ UNCHANGED <<mode, used>>
  BY DEF Opened, history
<1>4. KeysInv'
  <2>1. \A f \in KeyFiles :
          /\ keys'[f] = Absent \/ keys'[f] = Torn \/ \E k \in Nat \ {0} : keys'[f] = Whole(k)
          /\ held'[f] # NoKey => keys'[f] = Whole(held'[f])
    BY <1>1, <1>2 DEF KeyParts, KeysInv, Whole
  <2> QED
    BY <2>1, <1>3 DEF KeysInv
<1>5. HeldInv'
  <2>1. \A i \in 1 .. at : held'[Opens(mode)[i]] # NoKey
    <3> SUFFICES ASSUME NEW i \in 1 .. at PROVE held'[Opens(mode)[i]] # NoKey
      OBVIOUS
    <3>1. Opens(mode)[i] \in KeyFiles
      BY <1>1, KeyLists
    <3>2. CASE i = at
      BY <1>1, <1>2, <3>2 DEF Key, NoKey
    <3>3. CASE i # at
      <4>1. i \in 1 .. at - 1
        BY <1>1, <3>3
      <4>2. held[Opens(mode)[i]] # NoKey
        BY <4>1 DEF KeyParts, HeldInv
      <4> QED
        BY <1>2, <3>1, <4>2 DEF NoKey
    <3> QED
      BY <3>2, <3>3
  <2>2. CASE at < Len(Opens(mode))
    <3>1. stage' = "open" /\ at' = at + 1
      BY <2>2 DEF Opened
    <3>2. 1 .. at' - 1 = 1 .. at
      BY <1>1, <3>1
    <3> QED
      BY <1>3, <2>1, <3>1, <3>2 DEF HeldInv, Open
  <2>3. CASE ~ at < Len(Opens(mode))
    <3>1. stage' = "startup" /\ at = Len(Opens(mode))
      BY <1>1, <2>3, KeyLists DEF Opened
    <3> QED
      BY <1>3, <2>1, <3>1 DEF HeldInv, Opening
  <2> QED
    BY <2>2, <2>3
<1>6. KeysOutliveTheirUse'
  BY <1>1, <1>2, <1>3 DEF KeyParts, KeysOutliveTheirUse
<1> QED
  BY <1>4, <1>5, <1>6 DEF KeyParts

LEMMA KeysStep ==
  ASSUME IInv, [Next]_vars
  PROVE  KeyParts'
<1>0. KeyParts /\ Typed /\ LogInv
  BY DEF IInv, KeyParts
<1>1. ASSUME NEW env \in Environments, Start(env)
      PROVE  KeyParts'
  <2>1. stage' = "open" /\ at' = 1 /\ UNCHANGED <<keys, held, used>>
    BY <1>0, <1>1 DEF Start, Typed
  <2> QED
    BY <1>0, <2>1 DEF KeyParts, KeysInv, HeldInv, KeysOutliveTheirUse, Open
<1>2. CASE ReadKey
  <2>1. Key \in KeyFiles /\ stage \in Opening
    BY <1>0, <1>2, KeyIsFile DEF ReadKey, Opening
  <2>2. PICK k \in Nat \ {0} : keys[Key] = Whole(k)
    BY <1>0, <1>2, <2>1 DEF ReadKey, KeyParts, KeysInv, Absent, Torn
  <2>3. keys[Key].key = k /\ keys' = [keys EXCEPT ![Key] = Whole(k)]
    BY <1>0, <1>2, <2>1, <2>2 DEF ReadKey, Whole, Typed, TypeOK
  <2> QED
    BY <1>0, <1>2, <2>1, <2>2, <2>3, KeysOpened DEF ReadKey
<1>3. CASE CreateKey
  <2>1. Key \in KeyFiles
    BY <1>0, <1>3, KeyIsFile DEF CreateKey, Opening
  <2>2. /\ keys' = [keys EXCEPT ![Key] = Torn] /\ stage' = "fill"
        /\ UNCHANGED <<mode, at, held, used>>
    BY <1>3 DEF CreateKey, history
  <2>3. held[Key] = NoKey /\ used[Key] = {}
    <3>1. \A k : keys[Key] # Whole(k)
      BY <1>3 DEF CreateKey, Whole
    <3> QED
      BY <1>0, <2>1, <3>1 DEF KeyParts, KeysInv, KeysOutliveTheirUse
  <2>4. keys \in [KeyFiles -> [state : {"absent", "torn", "ok"}, key : Nat]]
    BY <1>0 DEF Typed, TypeOK
  <2>5. KeysInv'
    BY <1>0, <2>1, <2>2, <2>3, <2>4 DEF KeyParts, KeysInv, Key
  <2>6. HeldInv'
    BY <1>0, <1>3, <2>2 DEF KeyParts, HeldInv, CreateKey, Opening, Open
  <2>7. KeysOutliveTheirUse'
    BY <1>0, <2>1, <2>2, <2>3, <2>4 DEF KeyParts, KeysOutliveTheirUse
  <2> QED
    BY <2>5, <2>6, <2>7 DEF KeyParts
<1>4. CASE FillKey
  <2>1. Key \in KeyFiles /\ stage \in Opening /\ run \in Nat \ {0}
    BY <1>0, <1>4, KeyIsFile DEF FillKey, Opening, Typed, TypeOK
  <2>2. keys[Key] = Torn
    BY <1>0, <1>4 DEF FillKey, KeyParts, KeysInv
  <2>3. used[Key] = {}
    <3>1. \A k : Torn # Whole(k)
      BY DEF Torn, Whole
    <3>2. \A k \in used[Key] : keys[Key] = Whole(k)
      BY <1>0, <2>1 DEF KeyParts, KeysOutliveTheirUse
    <3> QED
      BY <2>2, <3>1, <3>2
  <2> QED
    BY <1>0, <1>4, <2>1, <2>3, KeysOpened DEF FillKey
<1>5. CASE OpenLog \/ LogEvent \/ LogCall \/ NothingToSeal \/ LogCallFails
  <2>1. /\ stage \in Open /\ stage' \in Open
        /\ UNCHANGED <<mode, keys, held, used>>
    BY <1>0, <1>5, LogStages DEF OpenLog, LogEvent, LogCall, NothingToSeal, LogCallFails,
       history, Open
  <2> QED
    BY <1>0, <2>1, KeysKept
<1>6. CASE StartSession \/ CloseSession \/ AddTurn
  <2>1. /\ stage \in Open /\ stage' \in Open
        /\ UNCHANGED <<mode, keys, held, used>>
    BY <1>6 DEF StartSession, CloseSession, AddTurn, SaveStore, history, Open
  <2> QED
    BY <1>0, <2>1, KeysKept
<1>7. CASE WriteUnderKey
  <2> DEFINE f == Writes(mode)[at]
  <2>1. /\ f \in KeyFiles
        /\ \E j \in 1 .. Len(Opens(mode)) : f = Opens(mode)[j]
    <3>1. mode \in Modes /\ at \in 1 .. Len(Writes(mode))
      BY <1>0, <1>7, KeyLists DEF WriteUnderKey, Typed, TypeOK
    <3>2. Writes(mode) \in Seq(KeyFiles)
      BY <3>1, KeyLists
    <3>3. \E j \in 1 .. Len(Opens(mode)) : Writes(mode)[at] = Opens(mode)[j]
      BY <3>1, KeyLists
    <3> QED
      BY <3>1, <3>2, <3>3
  <2>2. held[f] # NoKey
    BY <1>0, <1>7, <2>1 DEF KeyParts, HeldInv, WriteUnderKey, Open
  <2>3. keys[f] = Whole(held[f])
    BY <1>0, <2>1, <2>2 DEF KeyParts, KeysInv
  <2>4. /\ used' = [used EXCEPT ![f] = @ \cup {held[f]}]
        /\ UNCHANGED <<stage, mode, keys, held>> /\ stage = "scan"
    BY <1>7 DEF WriteUnderKey, Pass
  <2>5. KeysOutliveTheirUse'
    BY <1>0, <2>1, <2>3, <2>4 DEF KeyParts, KeysOutliveTheirUse, Typed, TypeOK
  <2>6. KeysInv' /\ HeldInv'
    BY <1>0, <2>4 DEF KeyParts, KeysInv, HeldInv, Opening
  <2> QED
    BY <2>5, <2>6 DEF KeyParts
<1>8. CASE SkipWrites
  <2>1. /\ stage \in Open /\ stage' \in Open
        /\ UNCHANGED <<mode, keys, held, used>>
    BY <1>8 DEF SkipWrites, Pass, history, Open
  <2> QED
    BY <1>0, <2>1, KeysKept
<1>9. CASE NextPass \/ Stopped \/ Signal \/ PassRaises
  <2>1. /\ stage \in Open /\ stage' \in Open
        /\ UNCHANGED <<mode, keys, held, used>>
    BY <1>9 DEF NextPass, Stopped, Signal, PassRaises, history, Open
  <2> QED
    BY <1>0, <2>1, KeysKept
<1>10. CASE UNCHANGED vars
  BY <1>0, <1>10, KeysKept DEF vars, history
<1>11. CASE KeyRefused \/ LogRefused \/ Raised \/ Leave \/ WriteFails \/ Kill
  BY <1>0, <1>11, KeysAtEnd DEF KeyRefused, LogRefused, Raised, Leave, WriteFails, Kill
<1> QED
  BY <1>1, <1>2, <1>3, <1>4, <1>5, <1>6, <1>7, <1>8, <1>9, <1>10, <1>11 DEF Next, Step

-----------------------------------------------------------------------------
(* The audit log.                                                          *)

LEMMA LogAtEnd ==
  ASSUME NEW how, End(how)
  PROVE  /\ LogInv' /\ stage' = "down" /\ status' = "down" /\ pc'[Main] = "idle"
         /\ UNCHANGED <<key_file, disk>>
BY DEF LogInv, End, Log!Exit, Log!fileVars

LEMMA LogKept ==
  ASSUME LogInv, UNCHANGED logVars,
         UNCHANGED stage \/ (pc[Main] = "idle" /\ stage # "startup")
  PROVE  LogInv'
BY DEF LogInv, logVars

LEMMA LogStep ==
  ASSUME IInv, [Next]_vars
  PROVE  LogInv'
<1>0. LogInv
  BY DEF IInv
<1>1. ASSUME NEW env \in Environments, Start(env)
      PROVE  LogInv'
  BY <1>0, <1>1, LogKept DEF Start, LogInv
<1>2. CASE ReadKey \/ CreateKey \/ FillKey
  BY <1>0, <1>2, LogKept DEF ReadKey, CreateKey, FillKey, Opened, LogInv
<1>3. CASE OpenLog
  <2>1. stage = "startup" /\ stage' = stage
    BY <1>3 DEF OpenLog
  <2>2. UNCHANGED pc /\ pc[Main] = "idle" /\ status' \in {"keying", "loading", "running", "failed"}
    BY <1>0, <1>3 DEF OpenLog, LogInv, Log!LoadKey, Log!GenerateKey, Log!WriteKey, Log!Load
  <2> QED
    BY <1>0, <2>1, <2>2 DEF LogInv
<1>4. CASE LogEvent
  <2>1. status = "running" /\ status' = status /\ pc' = [pc EXCEPT ![Main] = "built"]
        /\ stage \in {"startup", "shutdown"} /\ stage' = stage
    BY <1>4 DEF LogEvent, Log!BuildEntry, Log!Acquire
  <2> QED
    BY <1>0, <2>1 DEF LogInv
<1>5. CASE LogCall
  <2>1. status = "running" /\ status' = status
    BY <1>0, <1>5 DEF LogCall, LogInv, Log!PublishEntry, Log!SaveOpen, Log!SaveWrite,
       Log!CheckpointDue, Log!CheckpointNotDue, Log!ForceCheckpoint, Log!Acquire
  <2>2. pc' \in [{Main} -> {"idle", "built", "save", "write", "due", "saveCheckpoint",
                            "writeCheckpoint"}]
    BY <1>0, <1>5 DEF LogCall, LogInv, Log!PublishEntry, Log!SaveOpen, Log!SaveWrite,
       Log!CheckpointDue, Log!CheckpointNotDue, Log!ForceCheckpoint, Log!Return, Log!Release
  <2>3. pc'[Main] # "idle" => stage' = stage
    BY <1>5 DEF LogCall
  <2>4. stage \in {"startup", "shutdown", "seal"}
    BY <1>0, <1>5, LogStages
  <2> QED
    BY <2>1, <2>2, <2>3, <2>4 DEF LogInv
<1>6. CASE LogCallFails
  BY <1>0, <1>6 DEF LogCallFails, Log!SaveFails, Log!Release, LogInv
<1>7. CASE NothingToSeal
  BY <1>0, <1>7, LogKept DEF NothingToSeal
<1>8. CASE StartSession \/ CloseSession \/ AddTurn
  BY <1>0, <1>8, LogKept DEF StartSession, CloseSession, AddTurn, SaveStore, LogInv
<1>9. CASE WriteUnderKey \/ SkipWrites
  BY <1>0, <1>9, LogKept DEF WriteUnderKey, SkipWrites, Pass
<1>10. CASE NextPass \/ Stopped \/ Signal \/ PassRaises
  <2>1. UNCHANGED logVars /\ (UNCHANGED stage \/ stage \in {"wait", "scan"})
    BY <1>10 DEF NextPass, Stopped, Signal, PassRaises
  <2> QED
    BY <1>0, <2>1, LogKept DEF LogInv
<1>11. CASE UNCHANGED vars
  BY <1>0, <1>11, LogKept DEF vars
<1>12. CASE KeyRefused \/ LogRefused \/ Raised \/ Leave \/ WriteFails \/ Kill
  BY <1>12, LogAtEnd DEF KeyRefused, LogRefused, Raised, Leave, WriteFails, Kill
<1> QED
  BY <1>1, <1>2, <1>3, <1>4, <1>5, <1>6, <1>7, <1>8, <1>9, <1>10, <1>11, <1>12 DEF Next, Step

-----------------------------------------------------------------------------
(* Half-written files.                                                     *)

CutParts == CutInv /\ RefusedOnlyAfterCut

\* No start is refused by a step that ends none.
LEMMA RefusedKept ==
  ASSUME RefusedOnlyAfterCut, UNCHANGED <<stage, mode, ended, cut>> \/ stage' # "down"
  PROVE  RefusedOnlyAfterCut'
BY DEF RefusedOnlyAfterCut, Needs, Opens

\* A step that neither opens nor writes a file.
LEMMA CutKept ==
  ASSUME CutParts, UNCHANGED <<keys, key_file, disk, status, cut>>,
         \/ stage # "fill" /\ pc'[Main] = "idle" /\ stage # "raised" /\ stage' # "down"
            /\ pc[Main] \notin {"write", "writeCheckpoint"}
         \/ UNCHANGED <<stage, mode, at, pc, ended>>
  PROVE  CutParts'
<1>1. CutInv'
  BY DEF CutParts, CutInv, Key
<1> QED
  BY <1>1, RefusedKept DEF CutParts

\* The end is refused, or in order, only where no write was under way.
LEMMA CutAtEnd ==
  ASSUME CutParts, Typed, NEW how \in {"refused", "killed", "failed", "clean"}, End(how),
         how \in {"refused", "clean"} =>
           /\ stage \notin {"fill", "raised"} /\ pc[Main] = "idle" /\ status # "keying",
         how = "refused" => cut \cap Needs(mode) # {}
  PROVE  CutParts'
<1>1. /\ stage' = "down" /\ UNCHANGED <<keys, key_file, disk, mode>> /\ status' = "down"
      /\ cut' = IF how \in {"killed", "failed"} THEN cut \cup HalfWritten ELSE cut
      /\ ended' = Append(ended, how)
  BY LogAtEnd DEF End
<1>2. CutInv'
  <2>1. CASE how \in {"killed", "failed"}
    <3>1. cut' = cut \cup HalfWritten
      BY <1>1, <2>1
    <3>2. \A f \in KeyFiles : f \notin LogFiles /\ (keys[f].state = "torn" => f \in HalfWritten)
      BY DEF HalfWritten, KeyFiles, LogFiles
    <3>3. /\ key_file.state = "torn" => "log_key" \in HalfWritten
          /\ disk.state = "torn" => "log" \in HalfWritten
      BY DEF HalfWritten, LogFiles
    <3> QED
      BY <1>1, <3>1, <3>2, <3>3 DEF CutInv
  <2>2. CASE how \in {"refused", "clean"}
    BY <1>1, <2>2 DEF CutParts, CutInv
  <2> QED
    BY <2>1, <2>2
<1>3. RefusedOnlyAfterCut'
  <2>1. ended' # <<>> /\ ended'[Len(ended')] = how
    BY <1>1 DEF Typed, TypeOK
  <2>2. how = "refused" => cut' = cut
    BY <1>1
  <2> QED
    BY <1>1, <2>1, <2>2 DEF RefusedOnlyAfterCut, Needs
<1> QED
  BY <1>2, <1>3 DEF CutParts

LEMMA CutStep ==
  ASSUME IInv, [Next]_vars
  PROVE  CutParts'
<1>0. CutParts /\ Typed /\ LogInv
  BY DEF IInv, CutParts
<1>1. ASSUME NEW env \in Environments, Start(env)
      PROVE  CutParts'
  <2>1. stage' = "open" /\ UNCHANGED <<keys, logVars, ended, cut>> /\ stage = "down"
    BY <1>1 DEF Start
  <2> QED
    BY <1>0, <2>1, CutKept DEF LogInv, logVars
<1>2. CASE ReadKey
  <2>1. stage = "open" /\ stage' # "down" /\ UNCHANGED <<keys, logVars, ended, cut>>
    BY <1>2 DEF ReadKey, Opened, history
  <2> QED
    BY <1>0, <2>1, CutKept DEF LogInv, logVars
<1>3. CASE CreateKey \/ FillKey
  <2>1. /\ Key \in KeyFiles
        /\ keys' = [keys EXCEPT ![Key] = Torn] \/ keys' = [keys EXCEPT ![Key] = Whole(run)]
        /\ keys' = [keys EXCEPT ![Key] = Torn] => stage' = "fill" /\ Key' = Key
    <3>1. CASE CreateKey
      BY <1>0, <3>1, KeyIsFile DEF CreateKey, Opening, Key
    <3>2. CASE FillKey
      <4>1. Key \in KeyFiles /\ keys' = [keys EXCEPT ![Key] = Whole(run)]
        BY <1>0, <3>2, KeyIsFile DEF FillKey, Opening
      <4>2. keys'[Key] # Torn
        BY <1>0, <4>1 DEF Typed, TypeOK, Whole, Torn
      <4> QED
        BY <1>0, <4>1, <4>2 DEF Typed, TypeOK
    <3> QED
      BY <1>3, <3>1, <3>2
  <2>2. UNCHANGED <<logVars, ended, cut>> /\ stage \in Opening /\ stage' # "down"
    BY <1>3 DEF CreateKey, FillKey, Opened, history, Opening
  <2>3. \A f \in KeyFiles : keys'[f].state = "torn" => f \in cut' \/ (stage' = "fill" /\ f = Key')
    <3> SUFFICES ASSUME NEW f \in KeyFiles, keys'[f].state = "torn", f \notin cut
                 PROVE  stage' = "fill" /\ f = Key'
      BY <2>2
    <3>1. CASE f = Key
      <4>1. keys' = [keys EXCEPT ![Key] = Torn]
        BY <1>0, <2>1, <3>1 DEF Whole, Typed, TypeOK
      <4> QED
        BY <2>1, <3>1, <4>1
    <3>2. CASE f # Key
      BY <1>0, <2>1, <3>2 DEF CutParts, CutInv, Typed, TypeOK
    <3> QED
      BY <3>1, <3>2
  <2>4. CutInv'
    BY <1>0, <2>2, <2>3 DEF CutParts, CutInv, logVars, Opening
  <2> QED
    BY <1>0, <2>2, <2>4, RefusedKept DEF CutParts
<1>4. CASE OpenLog
  <2>1. stage = "startup" /\ UNCHANGED <<stage, mode, at, keys, ended, cut, pc>>
        /\ pc[Main] = "idle"
    BY <1>0, <1>4 DEF OpenLog, history, LogInv, Log!LoadKey, Log!GenerateKey, Log!WriteKey,
       Log!Load
  <2>2. /\ key_file'.state = "torn" => "log_key" \in cut \/ status' = "keying"
        /\ disk' = disk
        /\ status' = "failed" => cut \cap LogFiles # {}
    BY <1>0, <1>4, <2>1 DEF OpenLog, CutParts, CutInv, Log!LoadKey, Log!GenerateKey,
       Log!WriteKey, Log!Load, Log!fileVars, LogFiles
  <2>3. CutInv'
    BY <1>0, <2>1, <2>2 DEF CutParts, CutInv, Key
  <2> QED
    BY <1>0, <2>1, <2>3, RefusedKept DEF CutParts
<1>5. CASE LogEvent
  <2>1. /\ UNCHANGED <<stage, mode, at, keys, key_file, disk, status, ended, cut>>
        /\ pc[Main] = "idle" /\ stage \notin {"fill", "raised"}
    BY <1>5 DEF LogEvent, history, Log!BuildEntry, Log!Acquire, Log!fileVars
  <2> QED
    BY <1>0, <2>1, RefusedKept DEF CutParts, CutInv
<1>6. CASE LogCall
  <2>1. /\ UNCHANGED <<mode, at, keys, ended, cut, status, key_file>>
        /\ stage \notin {"fill", "raised"} /\ stage' # "down"
    BY <1>0, <1>6, LogStages DEF LogCall, history, Log!PublishEntry, Log!SaveOpen,
       Log!SaveWrite, Log!CheckpointDue, Log!CheckpointNotDue, Log!ForceCheckpoint, Log!fileVars
  <2>2. disk'.state = "torn" => "log" \in cut \/ pc'[Main] \in {"write", "writeCheckpoint"}
    <3>1. CASE Log!SaveOpen(Main)
      BY <1>0, <3>1 DEF Log!SaveOpen, LogInv
    <3>2. CASE Log!SaveWrite(Main)
      BY <3>2 DEF Log!SaveWrite, Log!Saved
    <3>3. CASE \/ Log!PublishEntry(Main) \/ Log!CheckpointDue(Main)
               \/ Log!CheckpointNotDue(Main) \/ Log!ForceCheckpoint(Main)
      BY <1>0, <2>1, <3>3 DEF Log!PublishEntry, Log!CheckpointDue, Log!CheckpointNotDue,
         Log!ForceCheckpoint, Log!Acquire, Log!fileVars, CutParts, CutInv
    <3> QED
      BY <1>6, <3>1, <3>2, <3>3 DEF LogCall
  <2> QED
    BY <1>0, <2>1, <2>2, RefusedKept DEF CutParts, CutInv
<1>7. CASE LogCallFails
  <2>1. /\ UNCHANGED <<mode, at, keys, ended, cut, status, key_file>>
        /\ stage # "fill" /\ stage' = "raised"
    BY <1>0, <1>7, LogStages DEF LogCallFails, history, Log!SaveFails, Log!fileVars
  <2> QED
    BY <1>0, <2>1, RefusedKept DEF CutParts, CutInv
<1>8. CASE NothingToSeal \/ StartSession \/ CloseSession \/ AddTurn \/ WriteUnderKey
           \/ SkipWrites \/ NextPass \/ Stopped \/ PassRaises
  <2>1. UNCHANGED <<keys, logVars, ended, cut>> /\ stage' # "down"
    BY <1>8 DEF NothingToSeal, StartSession, CloseSession, AddTurn, SaveStore, WriteUnderKey,
       SkipWrites, Pass, NextPass, Stopped, PassRaises, history
  <2>2. stage \in {"session", "scan", "wait", "close", "seal"} /\ pc[Main] = "idle"
    BY <1>0, <1>8 DEF NothingToSeal, StartSession, CloseSession, AddTurn, SaveStore,
       WriteUnderKey, SkipWrites, NextPass, Stopped, PassRaises, LogInv
  <2> QED
    BY <1>0, <2>1, <2>2, CutKept DEF logVars
<1>9. CASE Signal \/ UNCHANGED vars
  BY <1>0, <1>9, CutKept DEF Signal, vars, history, logVars
<1>10. CASE WriteFails \/ Kill
  BY <1>0, <1>10, CutAtEnd DEF WriteFails, Kill
<1>11. CASE Raised
  BY <1>0, <1>11, CutAtEnd DEF Raised
<1>12. CASE LogRefused
  <2>1. cut \cap Needs(mode) # {}
    BY <1>0, <1>12 DEF LogRefused, CutParts, CutInv, Needs
  <2> QED
    BY <1>0, <1>12, <2>1, CutAtEnd DEF LogRefused, LogInv
<1>13. CASE Leave
  BY <1>0, <1>13, CutAtEnd DEF Leave, LogInv
<1>14. CASE KeyRefused
  <2>1. Key \in cut
    BY <1>0, <1>14, KeyIsFile DEF KeyRefused, CutParts, CutInv, Opening
  <2>2. Key \in Needs(mode)
    BY <1>0, <1>14 DEF KeyRefused, Typed, Opening, Key, Needs
  <2> QED
    BY <1>0, <1>14, <2>1, <2>2, CutAtEnd DEF KeyRefused, LogInv
<1> QED
  BY <1>1, <1>2, <1>3, <1>4, <1>5, <1>6, <1>7, <1>8, <1>9, <1>10, <1>11, <1>12, <1>13, <1>14
     DEF Next, Step

-----------------------------------------------------------------------------
LEMMA Invariant == Spec => []IInv
<1>1. Init => IInv
  BY InitInv
<1>2. IInv /\ [Next]_vars => IInv'
  BY TypedStep, KeysStep, LogStep, CutStep DEF IInv, KeyParts, CutParts
<1> QED
  BY <1>1, <1>2, PTL DEF Spec

\* The locals of main() and the files of the base directory keep their shapes,
\* for any number of processes, modes, kills and failed writes
\* (main.py:32-79).
THEOREM Types == Spec => []TypeOK
<1>1. IInv => TypeOK
  BY DEF IInv, Typed
<1> QED
  BY <1>1, Invariant, PTL

\* No process loses, or replaces, a key something was written under: what an
\* earlier process backed up or sealed stays readable through any kills, failed
\* writes and changes of mode (encryption.py:64-73, tamper_lock.py:44-58,
\* backup_manager.py:163-165).
THEOREM KeysKeep == Spec => []KeysOutliveTheirUse
<1>1. IInv => KeysOutliveTheirUse
  BY DEF IInv
<1> QED
  BY <1>1, Invariant, PTL

\* A base directory that cannot be opened in a mode is one in which a process was
\* killed, or failed, while it wrote in place a file that this mode opens
\* (encryption.py:64-73, immutable_log.py:112-138, policy.py:101-105).
THEOREM OpensUnlessCut == Spec => []RefusedOnlyAfterCut
<1>1. IInv => RefusedOnlyAfterCut
  BY DEF IInv
<1> QED
  BY <1>1, Invariant, PTL
=============================================================================
