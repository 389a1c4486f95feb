---------------------------- MODULE RepmhlProofs ----------------------------
(***************************************************************************)
(* Proofs about Repmhl, for any threads, budget, number of turns kept and  *)
(* model chains.                                                           *)
(***************************************************************************)
EXTENDS Repmhl, TLAPS

-----------------------------------------------------------------------------
(* Types.                                                                  *)

Calls == [does : {"nothing", "process_turn", "add_turn"}, tokens : Nat,
          read : Nat, turn : Nat, payload : Store]

Steps == {"idle", "add", "build", "append", "check", "rotate", "writeIndex", "reset",
          "resetBudget", "extend", "writeBudget", "save", "saveTurns", "replace"}

ObjectTypes ==
  /\ memory \in Seq(Nat) /\ Len(memory) <= max_turns
  /\ active \in BOOLEAN /\ current_model_index \in Nat
  /\ token_count \in Nat /\ max_tokens \in Nat

StoreTypes ==
  /\ store \in Store /\ Len(store.memory) <= max_turns
  /\ quarantined \subseteq {"saved", "garbled", "misfit"}

CallsTypes ==
  /\ lock \in Threads \cup {Free}
  /\ pc \in [Threads -> Steps]
  /\ call \in [Threads -> Calls]
  /\ \A t \in Threads : Len(call[t].payload.memory) <= max_turns

HistoryTypes ==
  /\ built \in Nat /\ acked \subseteq Nat /\ later \subseteq Nat \X Nat
  /\ overtaken \in [Threads -> BOOLEAN] /\ alone \in [Threads -> BOOLEAN]
  /\ stale \in BOOLEAN /\ behind \in BOOLEAN
  /\ overlapped \in BOOLEAN /\ checked \in BOOLEAN
  /\ faults \in Nat

\* Without a process there are no calls.
RunTypes ==
  /\ chain \in Chains \cup {0}
  /\ chain = 0 => lock = Free /\ ~ checked /\ \A t \in Threads : pc[t] = "idle"

Types == ObjectTypes /\ StoreTypes /\ CallsTypes /\ HistoryTypes /\ RunTypes

LEMMA RecentTypes ==
  ASSUME NEW turns \in Seq(Nat)
  PROVE  Recent(turns) \in Seq(Nat) /\ Len(Recent(turns)) <= max_turns
BY RepmhlAssumption DEF Recent

LEMMA DefaultsTypes ==
  ASSUME NEW state \in {"absent", "saved", "garbled", "misfit"}
  PROVE  Defaults(state) \in Store /\ Len(Defaults(state).memory) <= max_turns
BY RepmhlAssumption DEF Defaults, Store

LEMMA CallTypes ==
  ASSUME NEW does \in {"nothing", "process_turn", "add_turn"}, NEW tokens \in Nat, NEW read \in Nat
  PROVE  /\ Call(does, tokens, read) \in Calls
         /\ Len(Call(does, tokens, read).payload.memory) <= max_turns
BY DefaultsTypes DEF Call, Calls

LEMMA SnapshotTypes ==
  ASSUME Types
  PROVE  Snapshot \in Store /\ Len(Snapshot.memory) <= max_turns
BY DEF Types, ObjectTypes, Snapshot, Store

LEMMA OrderTypes == HistoryTypes => \A turns : InOrder(turns) \subseteq Nat \X Nat
BY DEF HistoryTypes, InOrder

LEMMA TypesInit == Init => Types
<1> SUFFICES ASSUME Init PROVE Types
  OBVIOUS
<1>1. NoCall \in Calls /\ Len(NoCall.payload.memory) <= max_turns
  BY CallTypes DEF NoCall
<1>2. CallsTypes
  BY <1>1 DEF Init, CallsTypes, Steps
<1>3. StoreTypes
  BY DefaultsTypes DEF Init, StoreTypes
<1>4. ObjectTypes
  <2>1. memory = <<>> /\ <<>> \in Seq(Nat) /\ Len(<<>>) = 0
    BY DEF Init
  <2>2. Len(memory) <= max_turns
    BY <2>1, RepmhlAssumption
  <2>3. current_model_index \in Nat /\ token_count \in Nat /\ max_tokens \in Nat
    BY RepmhlAssumption DEF Init
  <2> QED
    BY <2>1, <2>2, <2>3 DEF Init, ObjectTypes
<1>5. HistoryTypes
  BY DEF Init, HistoryTypes
<1> QED
  BY <1>2, <1>3, <1>4, <1>5 DEF Init, Types, RunTypes

LEMMA TypesAreTypes == Types => TypeOK
BY DEF Types, ObjectTypes, StoreTypes, CallsTypes, HistoryTypes, RunTypes, TypeOK, Calls, Steps

\* What a payload may be.
LEMMA Payloads ==
  ASSUME Types, NEW t \in Threads
  PROVE  /\ call[t] \in Calls /\ call[t].payload \in Store
         /\ Len(call[t].payload.memory) <= max_turns
BY DEF Types, CallsTypes, Calls

\* One thread's call is replaced by another of its type.
LEMMA CallsPut ==
  ASSUME Types, NEW t \in Threads, NEW c \in Calls, Len(c.payload.memory) <= max_turns,
         call' = [call EXCEPT ![t] = c]
  PROVE  /\ call' \in [Threads -> Calls]
         /\ \A q \in Threads : Len(call'[q].payload.memory) <= max_turns
<1>1. call' \in [Threads -> Calls]
  BY DEF Types, CallsTypes
<1>2. \A q \in Threads : call'[q] = IF q = t THEN c ELSE call[q]
  BY DEF Types, CallsTypes
<1> QED
  BY <1>1, <1>2 DEF Types, CallsTypes

LEMMA StepsPut ==
  ASSUME Types, NEW t \in Threads, NEW step \in Steps, At(t, step)
  PROVE  pc' \in [Threads -> Steps]
BY DEF Types, CallsTypes, At

\* The locals of a call, one at a time.
LEMMA Locals ==
  ASSUME NEW c \in Calls
  PROVE  /\ \A n \in Nat : [c EXCEPT !.read = n] \in Calls /\ [c EXCEPT !.turn = n] \in Calls
         /\ \A n : /\ [c EXCEPT !.read = n].payload = c.payload
                   /\ [c EXCEPT !.turn = n].payload = c.payload
         /\ \A s \in Store : /\ [c EXCEPT !.payload = s] \in Calls
                             /\ [c EXCEPT !.payload = s].payload = s
BY DEF Calls

\* A thread goes on to a step, with a call of the type.
LEMMA CallGoes ==
  ASSUME Types, NEW t \in Threads, NEW step \in Steps, At(t, step),
         lock' \in Threads \cup {Free},
         \/ call' = call
         \/ \E c \in Calls : Len(c.payload.memory) <= max_turns /\ call' = [call EXCEPT ![t] = c]
  PROVE  CallsTypes'
<1>1. pc' \in [Threads -> Steps]
  BY StepsPut
<1>2. CASE call' = call
  BY <1>1, <1>2 DEF Types, CallsTypes
<1>3. ASSUME NEW c \in Calls, Len(c.payload.memory) <= max_turns, call' = [call EXCEPT ![t] = c]
      PROVE  CallsTypes'
  BY <1>1, <1>3, CallsPut DEF CallsTypes
<1> QED
  BY <1>2, <1>3

LEMMA EndsTypes ==
  ASSUME Types, NEW t \in Threads, Raise(t) \/ Return(t), lock' \in Threads \cup {Free}
  PROVE  CallsTypes'
<1>1. NoCall \in Calls /\ Len(NoCall.payload.memory) <= max_turns
  BY CallTypes DEF NoCall
<1>2. At(t, "idle") /\ call' = [call EXCEPT ![t] = NoCall]
  BY DEF Raise, Return
<1> QED
  BY <1>1, <1>2, CallGoes DEF Steps

LEMMA LockedTypes ==
  ASSUME Types, NEW t \in Threads, Locked(t), ObjectTypes'
  PROVE  CallsTypes'
<1>1. Snapshot' \in Store /\ Len(Snapshot'.memory) <= max_turns
  BY DEF ObjectTypes, Snapshot, Store
<1> DEFINE c == [call[t] EXCEPT !.payload = Snapshot']
<1>2. c \in Calls /\ c.payload = Snapshot'
  BY <1>1, Payloads, Locals
<1>3. call' = [call EXCEPT ![t] = c]
  BY DEF Locked
<1> HIDE DEF c
<1> QED
  BY <1>1, <1>2, <1>3, CallGoes DEF Locked, Steps

\* The attributes, which most steps leave alone.
LEMMA ObjectStep ==
  ASSUME Types, [Next]_vars
  PROVE  ObjectTypes'
<1>1. ASSUME NEW c \in Chains, Load(c) PROVE ObjectTypes'
  <2>1. /\ active' = store.active /\ current_model_index' = store.current_model_index
        /\ token_count' = store.token_count /\ max_tokens' = store.max_tokens
        /\ memory' \in {store.memory, <<>>}
    BY <1>1 DEF Load
  <2>2. /\ store.active \in BOOLEAN /\ store.current_model_index \in Nat
        /\ store.token_count \in Nat /\ store.max_tokens \in Nat
        /\ store.memory \in Seq(Nat) /\ Len(store.memory) <= max_turns
    BY DEF Types, StoreTypes, Store
  <2>3. <<>> \in Seq(Nat) /\ Len(<<>>) <= max_turns
    BY RepmhlAssumption
  <2>4. memory' \in Seq(Nat) /\ Len(memory') <= max_turns
    BY <2>1, <2>2, <2>3
  <2> QED
    BY <2>1, <2>2, <2>4 DEF ObjectTypes
<1>2. ASSUME NEW t \in Threads, Turn(t) PROVE ObjectTypes'
  <2>0. call[t].tokens \in Nat /\ call[t].read \in Nat /\ call[t].turn \in Nat
    BY Payloads DEF Calls
  <2>1. CASE AddTokens(t)
    BY <2>0, <2>1 DEF AddTokens, Types, ObjectTypes
  <2>2. CASE AppendTurn(t)
    <3>1. Append(memory, call[t].turn) \in Seq(Nat)
      BY <2>0 DEF Types, ObjectTypes
    <3> QED
      BY <2>2, <3>1, RecentTypes DEF AppendTurn, Types, ObjectTypes
  <2>3. CASE WriteIndex(t)
    <3>1. chain \in Nat \ {0}
      BY <2>3, RepmhlAssumption DEF WriteIndex, Types, RunTypes
    <3>2. (call[t].read + 1) % chain \in Nat
      BY <2>0, <3>1
    <3> QED
      BY <2>3, <3>2 DEF WriteIndex, Types, ObjectTypes
  <2>4. CASE ResetTokens(t)
    BY <2>4 DEF ResetTokens, Types, ObjectTypes
  <2>5. CASE SetBudget(t)
    BY <2>0, <2>5, RepmhlAssumption DEF SetBudget, Types, ObjectTypes
  <2>6. CASE UNCHANGED stateVars
    BY <2>6 DEF stateVars, Types, ObjectTypes
  <2> QED
    BY <1>2, <2>1, <2>2, <2>3, <2>4, <2>5, <2>6
       DEF Turn, Begin, AddTurn, BuildTurn, BuildRaises, CheckTurn, ReadIndex, ReadBudget, Read,
           SaveCounters, SaveTurns, Replace, SaveFails
<1>3. ASSUME NEW t \in Threads, PruneMemory(t) PROVE ObjectTypes'
  <2>0. PICK n \in 1 .. max_turns :
          \E size \in 1 .. n : \E kept \in [1 .. size -> ToSet(memory)] : memory' = kept
    BY <1>3 DEF PruneMemory
  <2>1. PICK size \in 1 .. n : \E kept \in [1 .. size -> ToSet(memory)] : memory' = kept
    BY <2>0
  <2>2. PICK kept \in [1 .. size -> ToSet(memory)] : memory' = kept
    BY <2>1
  <2>3. ToSet(memory) \subseteq Nat /\ size \in Nat /\ size <= max_turns
    BY RepmhlAssumption DEF ToSet, Types, ObjectTypes
  <2>4. kept \in Seq(Nat) /\ Len(kept) = size
    BY <2>3
  <2> QED
    BY <1>3, <2>2, <2>3, <2>4 DEF PruneMemory, Types, ObjectTypes
<1>4. ASSUME NEW t \in Threads, Session(t) PROVE ObjectTypes'
  BY <1>4 DEF Session, Types, ObjectTypes
<1>5. CASE Crash
  <2>1. memory' = <<>> /\ <<>> \in Seq(Nat) /\ Len(<<>>) <= max_turns
    BY <1>5, RepmhlAssumption DEF Crash
  <2> QED
    BY <1>5, <2>1, RepmhlAssumption DEF Crash, ObjectTypes
<1>6. CASE Damage \/ UNCHANGED vars
  BY <1>6 DEF Damage, vars, stateVars, Types, ObjectTypes
<1> QED
  BY <1>1, <1>2, <1>3, <1>4, <1>5, <1>6 DEF Next

LEMMA CallsStep ==
  ASSUME Types, [Next]_vars
  PROVE  CallsTypes'
<1>0. ObjectTypes'
  BY ObjectStep
<1>1. ASSUME NEW t \in Threads, Turn(t) PROVE CallsTypes'
  <2>0. /\ call[t] \in Calls /\ call[t].payload \in Store /\ Len(call[t].payload.memory) <= max_turns
        /\ lock \in Threads \cup {Free} /\ token_count \in Nat /\ max_tokens \in Nat
        /\ current_model_index \in Nat /\ built \in Nat
    BY Payloads DEF Types, CallsTypes, ObjectTypes, HistoryTypes
  <2>1. CASE Begin(t)
    <3>1. PICK n \in Tokens : call' = [call EXCEPT ![t] = Call("process_turn", n, token_count)]
      BY <2>1 DEF Begin
    <3>2. /\ Call("process_turn", n, token_count) \in Calls
          /\ Len(Call("process_turn", n, token_count).payload.memory) <= max_turns
      BY <2>0, CallTypes, RepmhlAssumption
    <3> QED
      BY <2>0, <2>1, <3>1, <3>2, CallGoes DEF Begin, Steps
  <2>2. CASE AddTokens(t)
    <3>1. /\ Call("process_turn", 0, 0) \in Calls
          /\ Len(Call("process_turn", 0, 0).payload.memory) <= max_turns
      BY CallTypes
    <3> QED
      BY <2>0, <2>2, <3>1, CallGoes DEF AddTokens, Steps
  <2>3. CASE AddTurn(t)
    <3>1. /\ Call("add_turn", 0, 0) \in Calls
          /\ Len(Call("add_turn", 0, 0).payload.memory) <= max_turns
      BY CallTypes
    <3> QED
      BY <2>0, <2>3, <3>1, CallGoes DEF AddTurn, Steps
  <2>4. CASE BuildTurn(t)
    <3> DEFINE c == [call[t] EXCEPT !.turn = built + 1]
    <3>0. built + 1 \in Nat
      BY <2>0
    <3>1. c \in Calls /\ c.payload = call[t].payload
      BY <2>0, <3>0, Locals
    <3>2. call' = [call EXCEPT ![t] = c]
      BY <2>4 DEF BuildTurn
    <3> HIDE DEF c
    <3>3. Len(c.payload.memory) <= max_turns
      BY <2>0, <3>1
    <3> QED
      BY <2>0, <2>4, <3>1, <3>2, <3>3, CallGoes DEF BuildTurn, Steps
  <2>5. CASE AppendTurn(t)
    BY <1>0, <2>5, LockedTypes DEF AppendTurn
  <2>6. CASE ReadIndex(t) \/ ReadBudget(t)
    <3>1. PICK value \in Nat : call' = [call EXCEPT ![t] = [call[t] EXCEPT !.read = value]]
      BY <2>0, <2>6 DEF ReadIndex, ReadBudget, Read
    <3> DEFINE c == [call[t] EXCEPT !.read = value]
    <3>2. c \in Calls /\ Len(c.payload.memory) <= max_turns
      BY <2>0, Locals
    <3> HIDE DEF c
    <3>3. call' = [call EXCEPT ![t] = c]
      BY <3>1 DEF c
    <3> QED
      BY <2>0, <2>6, <3>2, <3>3, CallGoes DEF ReadIndex, ReadBudget, Read, Steps
  <2>7. CASE WriteIndex(t) \/ ResetTokens(t) \/ SetBudget(t)
    BY <2>0, <2>7, CallGoes DEF WriteIndex, ResetTokens, SetBudget, Steps
  <2>8. CASE SaveCounters(t)
    <3> DEFINE c == [call[t] EXCEPT !.payload = Snapshot]
    <3>1. c \in Calls /\ Len(c.payload.memory) <= max_turns
      BY <2>0, SnapshotTypes, Locals
    <3>2. call' = [call EXCEPT ![t] = c]
      BY <2>8 DEF SaveCounters
    <3> HIDE DEF c
    <3> QED
      BY <2>0, <2>8, <3>1, <3>2, CallGoes DEF SaveCounters, Steps
  <2>9. CASE SaveTurns(t)
    <3> DEFINE p == [call[t].payload EXCEPT !.memory = memory]
               c == [call[t] EXCEPT !.payload = p]
    <3>1. p \in Store /\ Len(p.memory) <= max_turns
      BY <2>0 DEF Types, ObjectTypes, Store
    <3> HIDE DEF p
    <3>2. c \in Calls /\ Len(c.payload.memory) <= max_turns
      BY <2>0, <3>1, Locals
    <3>3. call' = [call EXCEPT ![t] = c]
      BY <2>9 DEF SaveTurns, p
    <3> HIDE DEF c
    <3> QED
      BY <2>0, <2>9, <3>2, <3>3, CallGoes DEF SaveTurns, Steps
  <2>10. CASE CheckTurn(t)
    <3>1. CASE RotationDue \/ ExtensionDue
      BY <2>0, <2>10, <3>1, CallGoes DEF CheckTurn, Steps
    <3>2. CASE ~ (RotationDue \/ ExtensionDue)
      BY <2>0, <2>10, <3>2, EndsTypes DEF CheckTurn
    <3> QED
      BY <3>1, <3>2
  <2>11. CASE Replace(t)
    <3>1. lock' \in Threads \cup {Free}
      BY <2>0, <2>11 DEF Replace, Release
    <3>2. CASE lock = t /\ InTurn(t)
      BY <2>11, <3>1, <3>2, CallGoes DEF Replace, Continue, Steps
    <3>3. CASE ~ (lock = t /\ InTurn(t))
      BY <2>11, <3>1, <3>3, EndsTypes DEF Replace, Continue
    <3> QED
      BY <3>2, <3>3
  <2>12. CASE BuildRaises(t) \/ SaveFails(t)
    <3>1. lock' \in Threads \cup {Free}
      BY <2>0, <2>12 DEF BuildRaises, SaveFails, Release
    <3> QED
      BY <2>12, <3>1, EndsTypes DEF BuildRaises, SaveFails
  <2> QED
    BY <1>1, <2>1, <2>2, <2>3, <2>4, <2>5, <2>6, <2>7, <2>8, <2>9, <2>10, <2>11, <2>12 DEF Turn
<1>2. ASSUME NEW t \in Threads, PruneMemory(t) \/ Session(t) PROVE CallsTypes'
  BY <1>0, <1>2, LockedTypes DEF PruneMemory, Session
<1>3. CASE Crash
  <2>1. NoCall \in Calls /\ Len(NoCall.payload.memory) <= max_turns
    BY CallTypes DEF NoCall
  <2> QED
    BY <1>3, <2>1 DEF Crash, CallsTypes, Steps
<1>4. CASE Damage \/ UNCHANGED vars \/ \E c \in Chains : Load(c)
  BY <1>4 DEF Damage, vars, Load, threadVars, Types, CallsTypes
<1> QED
  BY <1>1, <1>2, <1>3, <1>4 DEF Next

LEMMA HistoryStep ==
  ASSUME Types, [Next]_vars
  PROVE  HistoryTypes'
<1> USE DEF HistoryTypes
<1>0. HistoryTypes /\ (\A turns : InOrder(turns) \subseteq Nat \X Nat)
  BY OrderTypes DEF Types
<1>1. ASSUME NEW t \in Threads, Turn(t) PROVE HistoryTypes'
  <2>0. Overtake(t) => overtaken' \in [Threads -> BOOLEAN]
    BY <1>0 DEF Overtake
  <2>1. Locked(t) => overtaken' \in [Threads -> BOOLEAN]
    BY <1>0 DEF Locked
  <2>2. CASE Begin(t)
    <3>1. alone' \in [Threads -> BOOLEAN]
      BY <2>2 DEF Begin
    <3>2. overlapped' \in BOOLEAN
      BY <2>2 DEF Begin
    <3> QED
      BY <1>0, <2>2, <3>1, <3>2 DEF Begin
  <2>3. CASE BuildTurn(t)
    BY <1>0, <2>3 DEF BuildTurn
  <2>4. CASE BuildRaises(t)
    <3>1. behind' \in BOOLEAN
      BY <2>4 DEF BuildRaises
    <3> QED
      BY <1>0, <2>0, <2>4, <3>1 DEF BuildRaises
  <2>5. CASE AppendTurn(t)
    BY <1>0, <2>1, <2>5 DEF AppendTurn
  <2>6. CASE CheckTurn(t)
    <3>1. checked' \in BOOLEAN
      BY <1>0, <2>6 DEF CheckTurn, Return
    <3> QED
      BY <1>0, <2>6, <3>1 DEF CheckTurn
  <2>7. CASE SaveCounters(t)
    <3>1. overtaken' \in [Threads -> BOOLEAN]
      BY <1>0, <2>7 DEF SaveCounters
    <3> QED
      BY <1>0, <2>7, <3>1 DEF SaveCounters
  <2>8. CASE Replace(t)
    <3>1. checked' \in BOOLEAN
      BY <1>0, <2>8 DEF Replace, Continue, Return
    <3>2. stale' \in BOOLEAN
      BY <2>8 DEF Replace
    <3>3. behind' \in BOOLEAN
      BY <1>0, <2>8 DEF Replace
    <3>4. acked' \subseteq Nat
      BY <1>0, <2>8, Payloads DEF Replace, Calls
    <3> QED
      BY <1>0, <2>0, <2>8, <3>1, <3>2, <3>3, <3>4 DEF Replace
  <2>9. CASE SaveFails(t)
    BY <1>0, <2>0, <2>9 DEF SaveFails, Fault
  <2>10. CASE UNCHANGED history
    BY <1>0, <2>10 DEF history
  <2> QED
    BY <1>1, <2>2, <2>3, <2>4, <2>5, <2>6, <2>7, <2>8, <2>9, <2>10
       DEF Turn, AddTokens, AddTurn, ReadIndex, ReadBudget, Read, WriteIndex, ResetTokens,
           SetBudget, SaveTurns
<1>2. ASSUME NEW t \in Threads, PruneMemory(t) PROVE HistoryTypes'
  <2>1. acked' \subseteq Nat
    BY <1>0, <1>2 DEF PruneMemory
  <2> QED
    BY <1>0, <1>2, <2>1 DEF PruneMemory, Locked
<1>3. ASSUME NEW t \in Threads, Session(t) PROVE HistoryTypes'
  BY <1>0, <1>3 DEF Session, Locked
<1>4. ASSUME NEW c \in Chains, Load(c) PROVE HistoryTypes'
  <2>1. behind' \in BOOLEAN
    BY <1>4 DEF Load
  <2>2. acked' \subseteq acked /\ stale' = FALSE
    BY <1>4 DEF Load
  <2> QED
    BY <1>0, <1>4, <2>1, <2>2 DEF Load
<1>5. CASE Crash
  <2>1. overtaken' \in [Threads -> BOOLEAN] /\ alone' \in [Threads -> BOOLEAN]
    BY <1>5 DEF Crash
  <2>2. faults' = faults + 1 /\ faults \in Nat
    BY <1>0, <1>5 DEF Crash, Fault
  <2>3. checked' \in BOOLEAN
    BY <1>5 DEF Crash
  <2>4. UNCHANGED <<built, acked, later, stale, behind, overlapped>>
    BY <1>5 DEF Crash
  <2>5. built' \in Nat /\ acked' \subseteq Nat /\ later' \subseteq Nat \X Nat
    BY <1>0, <2>4
  <2>6. stale' \in BOOLEAN /\ behind' \in BOOLEAN /\ overlapped' \in BOOLEAN
    BY <1>0, <2>4
  <2>7. faults' \in Nat
    BY <2>2
  <2> QED
    BY <2>1, <2>3, <2>5, <2>6, <2>7
<1>6. CASE Damage \/ UNCHANGED vars
  BY <1>0, <1>6 DEF Damage, vars, history
<1> QED
  BY <1>1, <1>2, <1>3, <1>4, <1>5, <1>6 DEF Next

LEMMA StoreStep ==
  ASSUME Types, [Next]_vars
  PROVE  StoreTypes'
<1>0. StoreTypes
  BY DEF Types
<1>1. ASSUME NEW t \in Threads, Replace(t) PROVE StoreTypes'
  BY <1>0, <1>1, Payloads DEF Replace, StoreTypes
<1>2. ASSUME NEW c \in Chains, Load(c) PROVE StoreTypes'
  <2>1. CASE Loads(c) \/ store.state = "absent"
    BY <1>0, <1>2, <2>1 DEF Load, StoreTypes
  <2>2. CASE ~ (Loads(c) \/ store.state = "absent")
    <3>1. store.state \in {"saved", "garbled", "misfit"}
      BY <1>0, <2>2 DEF StoreTypes, Store
    <3>2. store' = Defaults("absent") /\ quarantined' = quarantined \cup {store.state}
      BY <1>2, <2>2 DEF Load
    <3>3. store' \in Store /\ Len(store'.memory) <= max_turns
      BY <3>2, DefaultsTypes
    <3> QED
      BY <1>0, <3>1, <3>2, <3>3 DEF StoreTypes
  <2> QED
    BY <2>1, <2>2
<1>3. CASE Damage
  <2>1. Defaults("garbled") \in Store /\ Len(Defaults("garbled").memory) <= max_turns
    BY DefaultsTypes
  <2>2. /\ [store EXCEPT !.state = "misfit"] \in Store
        /\ [store EXCEPT !.state = "misfit"].memory = store.memory
    BY <1>0 DEF StoreTypes, Store
  <2> QED
    BY <1>0, <1>3, <2>1, <2>2 DEF Damage, StoreTypes
<1>4. CASE UNCHANGED <<store, quarantined>>
  BY <1>0, <1>4 DEF StoreTypes
<1> QED
  BY <1>1, <1>2, <1>3, <1>4
     DEF Next, vars, Turn, Crash, Begin, AddTokens, AddTurn, BuildTurn, BuildRaises, AppendTurn,
         CheckTurn, ReadIndex, ReadBudget, Read, WriteIndex, ResetTokens, SetBudget, SaveCounters,
         SaveTurns, SaveFails, PruneMemory, Session

LEMMA RunStep ==
  ASSUME Types, [Next]_vars
  PROVE  RunTypes'
<1>0. RunTypes
  BY DEF Types
<1>1. ASSUME NEW t \in Threads, Turn(t) \/ PruneMemory(t) \/ Session(t)
      PROVE  chain # 0 /\ chain' = chain
  <2>1. chain # 0
    BY <1>0, <1>1
       DEF RunTypes, Turn, Begin, MayBuild, AddTokens, AddTurn, BuildTurn, BuildRaises, AppendTurn,
           CheckTurn, ReadIndex, ReadBudget, Read, WriteIndex, ResetTokens, SetBudget,
           SaveCounters, SaveTurns, Replace, SaveFails, PruneMemory, Session
  <2>2. chain' = chain
    BY <1>1
       DEF Turn, Begin, AddTokens, AddTurn, BuildTurn, BuildRaises, AppendTurn,
           CheckTurn, ReadIndex, ReadBudget, Read, WriteIndex, ResetTokens, SetBudget,
           SaveCounters, SaveTurns, Replace, SaveFails, PruneMemory, Session
  <2> QED
    BY <2>1, <2>2
<1>2. ASSUME NEW c \in Chains, Load(c) PROVE RunTypes'
  BY <1>2, RepmhlAssumption DEF Load, RunTypes
<1>3. CASE Crash
  BY <1>3 DEF Crash, RunTypes
<1>4. CASE Damage \/ UNCHANGED vars
  BY <1>0, <1>4 DEF Damage, vars, threadVars, history, RunTypes
<1> QED
  BY <1>0, <1>1, <1>2, <1>3, <1>4 DEF Next, RunTypes

LEMMA TypesInvariant == Spec => []Types
<1>1. Types /\ [Next]_vars => Types'
  BY ObjectStep, CallsStep, HistoryStep, StoreStep, RunStep DEF Types
<1> QED
  BY <1>1, TypesInit, PTL DEF Spec

\* Types: the attributes, the store and the locals of the calls have the
\* shapes repmhl.py:97-107 and 354-363 give them, and no more turns are in
\* memory than are to be kept, whatever the threads do and however often the
\* process ends.
THEOREM Typed == Spec => []TypeOK
BY TypesInvariant, TypesAreTypes, PTL

-----------------------------------------------------------------------------
(* The budget in force: BudgetKept, when the budget and the forced          *)
(* rotation allow a turn at all.                                            *)

\* Where only a process_turn goes.
TurnSteps == {"add", "check", "rotate", "writeIndex", "reset", "resetBudget", "extend",
              "writeBudget", "save", "saveTurns"}

\* Only process_turn goes beyond the append, and the lock is held to a save.
TurnsOnly ==
  /\ \A t \in Threads :
       pc[t] \in TurnSteps \/ (pc[t] = "replace" /\ lock # t) => InTurn(t)
  /\ lock \in Threads => pc[lock] = "replace"

\* alone is what it says.
AloneInv ==
  \A t, q \in Threads : InTurn(t) /\ alone[t] /\ InTurn(q) => q = t

\* What process_turn has established when no other interferes.
Phase(t) ==
  /\ pc[t] = "extend" => ExtensionDue
  /\ pc[t] = "writeBudget" => ExtensionDue /\ call[t].read = max_tokens
  /\ pc[t] = "resetBudget" => token_count = 0
  /\ pc[t] \in {"save", "saveTurns"} \/ (pc[t] = "replace" /\ lock # t) => ~ RotationDue

PhaseInv == \A t \in Threads : InTurn(t) /\ alone[t] => Phase(t)

CheckedInv == checked => ~ RotationDue /\ \A t \in Threads : ~ InTurn(t)

\* A budget above the base was reached from one a count had justified raising.
Justified(tokens) ==
  tokens > base_max_tokens =>
    (tokens - auto_extend_amount) * warning_threshold_percent < 100 * force_rotation_every

JustifiedInv ==
  ~ overlapped =>
    /\ Justified(max_tokens) /\ Justified(store.max_tokens)
    /\ \A t \in Threads : Justified(call[t].payload.max_tokens) /\ (InTurn(t) => alone[t])

BudgetInv == Types /\ TurnsOnly /\ AloneInv /\ PhaseInv /\ CheckedInv /\ JustifiedInv

Limits == base_max_tokens > 0 /\ force_rotation_every > 0

LEMMA BudgetIsKept == BudgetInv => BudgetKept
<1> SUFFICES ASSUME BudgetInv, checked PROVE BudgetKept
  BY DEF BudgetKept
<1>1. ~ RotationDue
  BY DEF BudgetInv, CheckedInv
<1>2. token_count < max_tokens /\ token_count < force_rotation_every
  BY <1>1, RepmhlAssumption DEF RotationDue, BudgetInv, Types, ObjectTypes
<1>3. ~ overlapped => Justified(max_tokens)
  BY DEF BudgetInv, JustifiedInv
<1> QED
  BY <1>2, <1>3, Zenon DEF BudgetKept, Justified

LEMMA BaseJustified == Justified(base_max_tokens)
BY RepmhlAssumption DEF Justified

\* An extension is justified by the count that caused it.
LEMMA ExtensionJustified ==
  ASSUME Types, ExtensionDue
  PROVE  Justified(max_tokens + auto_extend_amount)
<1>1. /\ max_tokens \in Nat /\ token_count \in Nat /\ auto_extend_amount \in Nat
      /\ warning_threshold_percent \in Nat /\ force_rotation_every \in Nat
      /\ base_max_tokens \in Nat
  BY RepmhlAssumption DEF Types, ObjectTypes
<1>2. token_count < force_rotation_every /\ token_count * 100 >= Fraction * warning_threshold_percent
  BY <1>1 DEF ExtensionDue, RotationDue
<1>3. max_tokens * warning_threshold_percent <= Fraction * warning_threshold_percent
  <2>1. CASE max_tokens > 1
    BY <1>1, <2>1 DEF Fraction
  <2>2. CASE max_tokens = 1
    BY <1>1, <2>2 DEF Fraction
  <2>3. CASE max_tokens = 0
    BY <1>1, <2>3 DEF Fraction
  <2> QED
    BY <1>1, <2>1, <2>2, <2>3
<1>4. Fraction * warning_threshold_percent \in Nat /\ max_tokens * warning_threshold_percent \in Nat
  BY <1>1 DEF Fraction
<1>5. max_tokens * warning_threshold_percent < 100 * force_rotation_every
  <2> DEFINE f == Fraction * warning_threshold_percent
             m == max_tokens * warning_threshold_percent
  <2>1. f \in Nat /\ m \in Nat /\ m <= f /\ token_count * 100 >= f
    BY <1>2, <1>3, <1>4
  <2> HIDE DEF f, m
  <2>2. m < 100 * force_rotation_every
    BY <1>1, <1>2, <2>1
  <2> QED
    BY <2>2 DEF m
<1>6. (max_tokens + auto_extend_amount) - auto_extend_amount = max_tokens
  BY <1>1
<1> QED
  BY <1>5, <1>6 DEF Justified

LEMMA BudgetInit == Init /\ Limits => BudgetInv
<1> SUFFICES ASSUME Init, Limits PROVE BudgetInv
  OBVIOUS
<1>1. \A t \in Threads : ~ InTurn(t) /\ pc[t] = "idle" /\ call[t].payload.max_tokens = base_max_tokens
  BY DEF Init, InTurn, NoCall, Call, Defaults
<1>2. Types
  BY TypesInit
<1>3. TurnsOnly
  BY <1>1, RepmhlAssumption DEF Init, TurnsOnly, TurnSteps
<1>4. JustifiedInv
  BY <1>1, BaseJustified DEF Init, JustifiedInv, Defaults
<1> QED
  BY <1>1, <1>2, <1>3, <1>4 DEF BudgetInv, AloneInv, PhaseInv, CheckedInv, Init

\* What a step of one thread leaves alone.
LEMMA OneThread ==
  ASSUME Types, NEW t \in Threads, Turn(t) \/ PruneMemory(t) \/ Session(t)
  PROVE  /\ \A q \in Threads : q # t => pc'[q] = pc[q] /\ call'[q] = call[q]
         /\ \A q \in Threads : q # t => (lock' = q <=> lock = q)
         /\ chain # 0 /\ chain' = chain
<1>0. pc \in [Threads -> Steps] /\ call \in [Threads -> Calls] /\ Free \notin Threads
  BY RepmhlAssumption DEF Types, CallsTypes
<1>1. \A q \in Threads : q # t => pc'[q] = pc[q]
  BY <1>0
     DEF Turn, Begin, AddTokens, AddTurn, BuildTurn, BuildRaises, AppendTurn, CheckTurn, ReadIndex,
         ReadBudget, Read, WriteIndex, ResetTokens, SetBudget, SaveCounters, SaveTurns, Replace,
         SaveFails, PruneMemory, Session, At, Raise, Return, Continue, Locked
<1>2. \A q \in Threads : q # t => call'[q] = call[q]
  BY <1>0
     DEF Turn, Begin, AddTokens, AddTurn, BuildTurn, BuildRaises, AppendTurn, CheckTurn, ReadIndex,
         ReadBudget, Read, WriteIndex, ResetTokens, SetBudget, SaveCounters, SaveTurns, Replace,
         SaveFails, PruneMemory, Session, Raise, Return, Continue, Locked
<1>3. \A q \in Threads : q # t => (lock' = q <=> lock = q)
  BY <1>0
     DEF Turn, Begin, AddTokens, AddTurn, BuildTurn, BuildRaises, AppendTurn, CheckTurn, ReadIndex,
         ReadBudget, Read, WriteIndex, ResetTokens, SetBudget, SaveCounters, SaveTurns, Replace,
         SaveFails, PruneMemory, Session, Locked, Release
<1>4. chain # 0
  BY DEF Types, RunTypes, Turn, Begin, MayBuild, AddTokens, AddTurn, BuildTurn, BuildRaises,
         AppendTurn, CheckTurn, ReadIndex, ReadBudget, Read, WriteIndex, ResetTokens, SetBudget,
         SaveCounters, SaveTurns, Replace, SaveFails, PruneMemory, Session
<1>5. chain' = chain
  BY DEF Turn, Begin, AddTokens, AddTurn, BuildTurn, BuildRaises, AppendTurn, CheckTurn, ReadIndex,
         ReadBudget, Read, WriteIndex, ResetTokens, SetBudget, SaveCounters, SaveTurns, Replace,
         SaveFails, PruneMemory, Session
<1> QED
  BY <1>1, <1>2, <1>3, <1>4, <1>5

\* Which calls are of process_turn after a step.
LEMMA InTurns ==
  ASSUME Types, NEW t \in Threads
  PROVE  /\ Begin(t) \/ AddTokens(t) => InTurn(t)'
         /\ AddTurn(t) \/ Raise(t) \/ Return(t) => ~ InTurn(t)'
         /\ \/ Locked(t) \/ BuildTurn(t) \/ ReadIndex(t) \/ ReadBudget(t)
            \/ SaveCounters(t) \/ SaveTurns(t) \/ call' = call
            => (InTurn(t)' <=> InTurn(t))
<1>0. call \in [Threads -> Calls]
  BY DEF Types, CallsTypes
<1>1. ASSUME Begin(t) \/ AddTokens(t) PROVE InTurn(t)'
  <2>1. \E n, m : call'[t] = Call("process_turn", n, m)
    BY <1>0, <1>1 DEF Begin, AddTokens
  <2> QED
    BY <2>1 DEF InTurn, Call
<1>2. ASSUME AddTurn(t) PROVE ~ InTurn(t)'
  <2>1. call'[t] = Call("add_turn", 0, 0)
    BY <1>0, <1>2 DEF AddTurn
  <2> QED
    BY <2>1 DEF InTurn, Call
<1>3. ASSUME Raise(t) \/ Return(t) PROVE ~ InTurn(t)'
  <2>1. call'[t] = NoCall
    BY <1>0, <1>3 DEF Raise, Return
  <2> QED
    BY <2>1 DEF InTurn, NoCall, Call
<1>4. ASSUME Locked(t) \/ SaveCounters(t) \/ SaveTurns(t) PROVE InTurn(t)' <=> InTurn(t)
  <2>1. \E p : call'[t] = [call[t] EXCEPT !.payload = p]
    BY <1>0, <1>4 DEF Locked, SaveCounters, SaveTurns
  <2> QED
    BY <1>0, <2>1 DEF InTurn, Calls
<1>5. ASSUME BuildTurn(t) PROVE InTurn(t)' <=> InTurn(t)
  <2>1. call'[t] = [call[t] EXCEPT !.turn = built + 1]
    BY <1>0, <1>5 DEF BuildTurn
  <2> QED
    BY <1>0, <2>1 DEF InTurn, Calls
<1>6. ASSUME ReadIndex(t) \/ ReadBudget(t) PROVE InTurn(t)' <=> InTurn(t)
  <2>1. \E n : call'[t] = [call[t] EXCEPT !.read = n]
    BY <1>0, <1>6 DEF ReadIndex, ReadBudget, Read
  <2> QED
    BY <1>0, <2>1 DEF InTurn, Calls
<1>7. call' = call => (InTurn(t)' <=> InTurn(t))
  BY DEF InTurn
<1> QED
  BY <1>1, <1>2, <1>3, <1>4, <1>5, <1>6, <1>7

\* Only a process_turn changes the count or the budget, and only one that
\* begins makes a process_turn or changes alone.
LEMMA Budgets ==
  ASSUME Types, TurnsOnly, NEW t \in Threads, Turn(t) \/ PruneMemory(t) \/ Session(t)
  PROVE  /\ pc[t] \notin TurnSteps => token_count' = token_count /\ max_tokens' = max_tokens
         /\ Begin(t) \/ (alone' = alone /\ overlapped' = overlapped /\ (InTurn(t)' => InTurn(t)))
<1>1. pc[t] \notin TurnSteps => token_count' = token_count /\ max_tokens' = max_tokens
  BY DEF Turn, Begin, AddTokens, AddTurn, BuildTurn, BuildRaises, AppendTurn, CheckTurn, ReadIndex,
         ReadBudget, Read, WriteIndex, ResetTokens, SetBudget, SaveCounters, SaveTurns, Replace,
         SaveFails, PruneMemory, Session, TurnSteps, stateVars
<1>2. Begin(t) \/ (alone' = alone /\ overlapped' = overlapped)
  BY DEF Turn, AddTokens, AddTurn, BuildTurn, BuildRaises, AppendTurn, CheckTurn, ReadIndex,
         ReadBudget, Read, WriteIndex, ResetTokens, SetBudget, SaveCounters, SaveTurns, Replace,
         SaveFails, PruneMemory, Session, history
<1>3. Begin(t) \/ (InTurn(t)' => InTurn(t))
  BY InTurns
     DEF Turn, AddTokens, TurnsOnly, TurnSteps, BuildRaises, AppendTurn, CheckTurn, WriteIndex,
         ResetTokens, SetBudget, Replace, Continue, SaveFails, PruneMemory, Session
<1> QED
  BY <1>1, <1>2, <1>3

LEMMA Goes ==
  ASSUME Types, NEW t \in Threads, NEW step, At(t, step)
  PROVE  pc'[t] = step
BY DEF Types, CallsTypes, At

LEMMA TurnsStep ==
  ASSUME Types, TurnsOnly, NEW t \in Threads, Turn(t) \/ PruneMemory(t) \/ Session(t)
  PROVE  TurnsOnly'
<1>0. Free \notin Threads
  BY RepmhlAssumption
<1>1. /\ pc'[t] \in TurnSteps \/ (pc'[t] = "replace" /\ lock' # t) => InTurn(t)'
      /\ lock' = t => pc'[t] = "replace"
  <2>0. /\ pc[t] \in TurnSteps => InTurn(t) /\ lock # t
        /\ pc[t] = "replace" /\ lock # t => InTurn(t)
        /\ lock = t => pc[t] = "replace"
    BY DEF TurnsOnly, TurnSteps
  <2>1. CASE Begin(t) \/ AddTokens(t)
    <3>1. lock' = lock /\ pc'[t] \in {"add", "build"} /\ lock # t
      BY <2>0, <2>1, Goes DEF Begin, MayBuild, AddTokens, TurnSteps
    <3> QED
      BY <2>1, <3>1, InTurns
  <2>2. CASE AddTurn(t) \/ BuildTurn(t)
    <3>1. lock' = lock /\ pc'[t] \in {"build", "append"} /\ lock # t
      BY <2>0, <2>2, Goes DEF AddTurn, MayBuild, BuildTurn
    <3> QED
      BY <3>1 DEF TurnSteps
  <2>3. CASE Locked(t)
    <3>1. lock' = t /\ pc'[t] = "replace"
      BY <2>3, Goes DEF Locked
    <3> QED
      BY <3>1 DEF TurnSteps
  <2>4. CASE BuildRaises(t) \/ SaveFails(t)
    <3>1. pc'[t] = "idle"
      BY <2>4, Goes DEF BuildRaises, SaveFails, Raise
    <3>2. lock' # t
      BY <1>0, <2>0, <2>4 DEF BuildRaises, SaveFails, Release
    <3> QED
      BY <3>1, <3>2 DEF TurnSteps
  <2>5. CASE CheckTurn(t)
    <3>1. lock' # t
      BY <2>0, <2>5 DEF CheckTurn
    <3>2. CASE RotationDue \/ ExtensionDue
      <4>1. call' = call /\ InTurn(t)
        BY <2>0, <2>5, <3>2 DEF CheckTurn, TurnSteps
      <4> QED
        BY <3>1, <4>1, InTurns
    <3>3. CASE ~ (RotationDue \/ ExtensionDue)
      <4>1. pc'[t] = "idle"
        BY <2>5, <3>3, Goes DEF CheckTurn, Return
      <4> QED
        BY <3>1, <4>1 DEF TurnSteps
    <3> QED
      BY <3>2, <3>3
  <2>6. CASE ReadIndex(t) \/ ReadBudget(t) \/ SaveCounters(t) \/ SaveTurns(t)
    <3>1. lock' = lock /\ pc[t] \in TurnSteps
      BY <2>6 DEF ReadIndex, ReadBudget, Read, SaveCounters, SaveTurns, TurnSteps
    <3> QED
      BY <2>0, <2>6, <3>1, InTurns
  <2>7. CASE WriteIndex(t) \/ ResetTokens(t) \/ SetBudget(t)
    <3>1. lock' = lock /\ pc[t] \in TurnSteps /\ call' = call
      BY <2>7 DEF WriteIndex, ResetTokens, SetBudget, TurnSteps
    <3> QED
      BY <2>0, <3>1, InTurns
  <2>8. CASE Replace(t)
    <3>1. lock' # t
      BY <1>0, <2>8 DEF Replace, Release
    <3>2. CASE lock = t /\ InTurn(t)
      <4>1. call' = call
        BY <2>8, <3>2 DEF Replace, Continue
      <4> QED
        BY <3>1, <3>2, <4>1, InTurns
    <3>3. CASE ~ (lock = t /\ InTurn(t))
      <4>1. pc'[t] = "idle"
        BY <2>8, <3>3, Goes DEF Replace, Continue, Return
      <4> QED
        BY <3>1, <4>1 DEF TurnSteps
    <3> QED
      BY <3>2, <3>3
  <2> QED
    BY <2>1, <2>2, <2>3, <2>4, <2>5, <2>6, <2>7, <2>8
       DEF Turn, AppendTurn, PruneMemory, Session
<1>2. ASSUME NEW q \in Threads, q # t
      PROVE  /\ pc'[q] \in TurnSteps \/ (pc'[q] = "replace" /\ lock' # q) => InTurn(q)'
             /\ lock' = q => pc'[q] = "replace"
  BY <1>2, OneThread DEF TurnsOnly, InTurn
<1> QED
  BY <1>1, <1>2, Zenon DEF TurnsOnly

LEMMA AloneStep ==
  ASSUME Types, TurnsOnly, AloneInv, NEW t \in Threads, Turn(t) \/ PruneMemory(t) \/ Session(t)
  PROVE  AloneInv'
<1>1. \A q \in Threads : q # t => (InTurn(q)' <=> InTurn(q))
  BY OneThread DEF InTurn
<1>2. CASE Begin(t)
  <2>1. \A q \in Threads : alone'[q] => q = t /\ \A r \in Threads : ~ InTurn(r)
    BY <1>2 DEF Begin
  <2> QED
    BY <1>1, <2>1 DEF AloneInv
<1>3. CASE alone' = alone /\ (InTurn(t)' => InTurn(t))
  BY <1>1, <1>3 DEF AloneInv
<1> QED
  BY <1>2, <1>3, Budgets

LEMMA PhaseStep ==
  ASSUME Types, TurnsOnly, AloneInv, PhaseInv, Limits,
         NEW t \in Threads, Turn(t) \/ PruneMemory(t) \/ Session(t)
  PROVE  PhaseInv'
<1>1. ASSUME NEW q \in Threads, q # t, InTurn(q)', alone'[q] PROVE Phase(q)'
  <2>1. alone[q] /\ InTurn(q)
    <3>1. ~ Begin(t)
      BY <1>1 DEF Begin
    <3> QED
      BY <1>1, <3>1, Budgets, OneThread DEF InTurn
  <2>2. pc[t] \notin TurnSteps
    BY <1>1, <2>1 DEF AloneInv, TurnsOnly
  <2>3. token_count' = token_count /\ max_tokens' = max_tokens
    BY <2>2, Budgets
  <2>4. pc'[q] = pc[q] /\ call'[q] = call[q] /\ (lock' = q <=> lock = q)
    BY <1>1, OneThread
  <2>5. (RotationDue' <=> RotationDue) /\ (ExtensionDue' <=> ExtensionDue)
    BY <2>3 DEF RotationDue, ExtensionDue, Fraction
  <2> QED
    BY <2>1, <2>3, <2>4, <2>5 DEF PhaseInv, Phase
<1>2. ASSUME InTurn(t)', alone'[t] PROVE Phase(t)'
  <2>0. \A step : At(t, step) => pc'[t] = step
    BY Goes
  <2>1. CASE pc'[t] \notin {"extend", "writeBudget", "resetBudget", "save", "saveTurns", "replace"}
    BY <2>1 DEF Phase
  <2>2. CASE Locked(t)
    BY <2>0, <2>2 DEF Locked, Phase
  <2>3. CASE CheckTurn(t)
    <3>1. CASE RotationDue \/ ExtensionDue
      <4>1. pc'[t] = IF RotationDue THEN "rotate" ELSE "extend"
        BY <2>0, <2>3, <3>1 DEF CheckTurn
      <4>2. (RotationDue' <=> RotationDue) /\ (ExtensionDue' <=> ExtensionDue)
        BY <2>3 DEF CheckTurn, stateVars, RotationDue, ExtensionDue, Fraction
      <4> QED
        BY <3>1, <4>1, <4>2 DEF Phase
    <3>2. CASE ~ (RotationDue \/ ExtensionDue)
      <4>1. pc'[t] = "idle"
        BY <2>0, <2>3, <3>2 DEF CheckTurn, Return
      <4> QED
        BY <2>1, <4>1
    <3> QED
      BY <3>1, <3>2
  <2>4. CASE pc[t] \in TurnSteps /\ alone' = alone
    <3>0. Phase(t)
      BY <1>2, <2>4 DEF PhaseInv, TurnsOnly
    <3>1. CASE ResetTokens(t)
      BY <2>0, <3>1 DEF ResetTokens, Phase
    <3>2. CASE ReadBudget(t)
      <4>1. pc'[t] = "writeBudget"
        BY <2>0, <3>2 DEF ReadBudget, Read
      <4>2. call'[t].read = max_tokens
        BY <3>2 DEF ReadBudget, Read, Types, CallsTypes, Calls
      <4>3. max_tokens' = max_tokens /\ ExtensionDue /\ (ExtensionDue' <=> ExtensionDue)
        BY <3>0, <3>2
           DEF ReadBudget, Read, stateVars, Phase, RotationDue, ExtensionDue, Fraction
      <4> QED
        BY <4>1, <4>2, <4>3 DEF Phase
    <3>3. CASE SetBudget(t)
      <4>1. pc'[t] = "save" /\ token_count' = token_count
        BY <2>0, <3>3 DEF SetBudget
      <4>2. ~ RotationDue'
        <5>1. CASE pc[t] = "resetBudget"
          BY <3>0, <3>3, <5>1, RepmhlAssumption DEF SetBudget, Phase, RotationDue, Limits
        <5>2. CASE pc[t] = "writeBudget"
          BY <3>0, <3>3, <5>2, RepmhlAssumption
             DEF SetBudget, Phase, ExtensionDue, RotationDue, Types, ObjectTypes
        <5> QED
          BY <3>3, <5>1, <5>2 DEF SetBudget
      <4> QED
        BY <4>1, <4>2 DEF Phase
    <3>4. CASE SaveCounters(t) \/ SaveTurns(t)
      <4>1. pc'[t] \in {"saveTurns", "replace"} /\ pc[t] \in {"save", "saveTurns"}
        BY <2>0, <3>4 DEF SaveCounters, SaveTurns
      <4>2. RotationDue' <=> RotationDue
        BY <3>4 DEF SaveCounters, SaveTurns, stateVars, RotationDue
      <4> QED
        BY <3>0, <4>1, <4>2 DEF Phase
    <3>5. CASE ~ (ResetTokens(t) \/ ReadBudget(t) \/ SetBudget(t) \/ SaveCounters(t) \/ SaveTurns(t))
      BY <2>0, <2>1, <2>2, <2>3, <2>4, <3>5
         DEF TurnSteps, Turn, Begin, MayBuild, AddTokens, AddTurn, BuildTurn, BuildRaises, Raise,
             AppendTurn, ReadIndex, Read, WriteIndex, Replace, SaveFails, PruneMemory, Session
    <3> QED
      BY <3>1, <3>2, <3>3, <3>4, <3>5
  <2>5. CASE Begin(t) \/ AddTurn(t) \/ BuildTurn(t) \/ BuildRaises(t) \/ Replace(t) \/ SaveFails(t)
    <3>1. pc'[t] \in {"add", "build", "append", "idle", "check"}
      BY <2>0, <2>5
         DEF Begin, AddTurn, BuildTurn, BuildRaises, Raise, Replace, Continue, Return, SaveFails
    <3> QED
      BY <2>1, <3>1
  <2>6. CASE AddTokens(t) \/ ReadIndex(t) \/ ReadBudget(t) \/ WriteIndex(t) \/ ResetTokens(t)
             \/ SetBudget(t) \/ SaveCounters(t) \/ SaveTurns(t)
    <3>1. pc[t] \in TurnSteps /\ alone' = alone
      BY <2>6
         DEF AddTokens, ReadIndex, ReadBudget, Read, WriteIndex, ResetTokens, SetBudget,
             SaveCounters, SaveTurns, history, TurnSteps
    <3> QED
      BY <2>4, <3>1
  <2> QED
    BY <2>2, <2>3, <2>5, <2>6 DEF Turn, AppendTurn, PruneMemory, Session
<1> QED
  BY <1>1, <1>2 DEF PhaseInv

LEMMA CheckedStep ==
  ASSUME Types, TurnsOnly, AloneInv, PhaseInv, CheckedInv,
         NEW t \in Threads, Turn(t) \/ PruneMemory(t) \/ Session(t)
  PROVE  CheckedInv'
<1>0. SUFFICES ASSUME checked' PROVE ~ RotationDue' /\ \A q \in Threads : ~ InTurn(q)'
  BY DEF CheckedInv
<1>1. ~ Begin(t)
  BY <1>0 DEF Begin
<1>2. \A q \in Threads : InTurn(q)' => InTurn(q)
  BY <1>1, Budgets, OneThread DEF InTurn
<1>3. CASE checked
  <2>1. pc[t] \notin TurnSteps
    BY <1>3 DEF CheckedInv, TurnsOnly
  <2>2. token_count' = token_count /\ max_tokens' = max_tokens
    BY <2>1, Budgets
  <2> QED
    BY <1>2, <1>3, <2>2 DEF CheckedInv, RotationDue
<1>4. CASE ~ checked
  <2>1. Return(t) /\ InTurn(t) /\ alone[t] /\ (CheckTurn(t) \/ Replace(t))
    BY <1>0, <1>1, <1>4
       DEF Turn, AddTokens, AddTurn, BuildTurn, BuildRaises, AppendTurn, CheckTurn, ReadIndex,
           ReadBudget, Read, WriteIndex, ResetTokens, SetBudget, SaveCounters, SaveTurns, Replace,
           Continue, Return, SaveFails, PruneMemory, Session, history
  <2>2. ~ RotationDue
    <3>1. CASE CheckTurn(t)
      <4>1. call'[t] # call[t]
        BY <2>1, InTurns DEF InTurn
      <4> QED
        BY <3>1, <4>1 DEF CheckTurn
    <3>2. CASE Replace(t)
      <4>1. call'[t] # call[t]
        BY <2>1, InTurns DEF InTurn
      <4>2. lock # t /\ pc[t] = "replace"
        BY <2>1, <3>2, <4>1 DEF Replace, Continue
      <4> QED
        BY <2>1, <4>2 DEF PhaseInv, Phase
    <3> QED
      BY <2>1, <3>1, <3>2
  <2>3. RotationDue' <=> RotationDue
    BY <2>1 DEF CheckTurn, Replace, stateVars, RotationDue
  <2>4. ~ InTurn(t)'
    BY <2>1, InTurns
  <2> QED
    BY <1>2, <2>1, <2>2, <2>3, <2>4 DEF AloneInv
<1> QED
  BY <1>3, <1>4

\* What a step of one thread saves or is about to save.
LEMMA Payload ==
  ASSUME Types, NEW t \in Threads, Turn(t) \/ PruneMemory(t) \/ Session(t)
  PROVE  /\ call'[t].payload.max_tokens \in {call[t].payload.max_tokens, max_tokens, base_max_tokens}
         /\ store'.max_tokens \in {store.max_tokens, call[t].payload.max_tokens}
<1>0. call \in [Threads -> Calls] /\ call[t] \in Calls /\ call[t].payload \in Store
  BY Payloads DEF Types, CallsTypes
<1>1. CASE Begin(t) \/ AddTokens(t) \/ AddTurn(t)
  <2>1. \E does, n, m : call'[t] = Call(does, n, m)
    BY <1>0, <1>1 DEF Begin, AddTokens, AddTurn
  <2>2. call'[t].payload.max_tokens = base_max_tokens
    BY <2>1 DEF Call, Defaults
  <2> QED
    BY <1>1, <2>2 DEF Begin, AddTokens, AddTurn
<1>2. CASE Raise(t) \/ Return(t)
  <2>1. call'[t].payload.max_tokens = base_max_tokens
    BY <1>0, <1>2 DEF Raise, Return, NoCall, Call, Defaults
  <2> QED
    BY <2>1
       DEF Turn, Begin, AddTokens, AddTurn, BuildTurn, BuildRaises, AppendTurn, CheckTurn, ReadIndex,
           ReadBudget, Read, WriteIndex, ResetTokens, SetBudget, SaveCounters, SaveTurns, Replace,
           SaveFails, PruneMemory, Session
<1>3. CASE AppendTurn(t) \/ PruneMemory(t) \/ Session(t)
  <2>1. call'[t].payload = Snapshot'
    BY <1>0, <1>3 DEF AppendTurn, PruneMemory, Session, Locked, Calls
  <2> QED
    BY <1>3, <2>1 DEF AppendTurn, PruneMemory, Session, Snapshot
<1>4. CASE BuildTurn(t)
  <2>1. call'[t].payload = call[t].payload
    BY <1>0, <1>4 DEF BuildTurn, Calls
  <2> QED
    BY <1>4, <2>1 DEF BuildTurn
<1>5. CASE ReadIndex(t) \/ ReadBudget(t)
  <2>1. call'[t].payload = call[t].payload
    BY <1>0, <1>5 DEF ReadIndex, ReadBudget, Read, Calls
  <2> QED
    BY <1>5, <2>1 DEF ReadIndex, ReadBudget, Read
<1>6. CASE SaveCounters(t)
  <2>1. call'[t].payload = Snapshot
    BY <1>0, <1>6 DEF SaveCounters, Calls
  <2> QED
    BY <1>6, <2>1 DEF SaveCounters, Snapshot
<1>7. CASE SaveTurns(t)
  <2>1. call'[t].payload = [call[t].payload EXCEPT !.memory = memory]
    BY <1>0, <1>7 DEF SaveTurns, Calls
  <2>2. call'[t].payload.max_tokens = call[t].payload.max_tokens
    BY <1>0, <2>1 DEF Store
  <2> QED
    BY <1>7, <2>2 DEF SaveTurns
<1>8. CASE call' = call
  BY <1>8
     DEF Turn, Begin, AddTokens, AddTurn, BuildTurn, BuildRaises, AppendTurn, CheckTurn, ReadIndex,
         ReadBudget, Read, WriteIndex, ResetTokens, SetBudget, SaveCounters, SaveTurns, Replace,
         SaveFails, PruneMemory, Session
<1> QED
  BY <1>1, <1>2, <1>3, <1>4, <1>5, <1>6, <1>7, <1>8
     DEF Turn, BuildRaises, CheckTurn, WriteIndex, ResetTokens, SetBudget, Replace, Continue, SaveFails

LEMMA JustifiedStep ==
  ASSUME Types, TurnsOnly, PhaseInv, JustifiedInv, Limits,
         NEW t \in Threads, Turn(t) \/ PruneMemory(t) \/ Session(t)
  PROVE  JustifiedInv'
<1>0. SUFFICES ASSUME ~ overlapped'
      PROVE /\ Justified(max_tokens') /\ Justified(store'.max_tokens)
            /\ \A q \in Threads : Justified(call'[q].payload.max_tokens) /\ (InTurn(q)' => alone'[q])
  BY DEF JustifiedInv, Justified
<1>1. ~ overlapped
  BY <1>0, Budgets DEF Begin
<1>2. /\ Justified(max_tokens) /\ Justified(store.max_tokens) /\ Justified(base_max_tokens)
      /\ \A q \in Threads : Justified(call[q].payload.max_tokens) /\ (InTurn(q) => alone[q])
  BY <1>1, BaseJustified DEF JustifiedInv
<1>3. Justified(max_tokens')
  <2>1. CASE SetBudget(t)
    <3>1. Phase(t)
      BY <1>2, <2>1 DEF SetBudget, TurnsOnly, TurnSteps, PhaseInv
    <3>2. CASE pc[t] = "resetBudget"
      BY <1>2, <2>1, <3>2 DEF SetBudget
    <3>3. CASE pc[t] = "writeBudget"
      <4>1. max_tokens' = max_tokens + auto_extend_amount /\ ExtensionDue
        BY <2>1, <3>1, <3>3 DEF SetBudget, Phase
      <4> QED
        BY <4>1, ExtensionJustified
    <3> QED
      BY <2>1, <3>2, <3>3 DEF SetBudget
  <2>2. CASE max_tokens' = max_tokens
    BY <1>2, <2>2
  <2> QED
    BY <2>1, <2>2
       DEF Turn, Begin, AddTokens, AddTurn, BuildTurn, BuildRaises, AppendTurn, CheckTurn, ReadIndex,
           ReadBudget, Read, WriteIndex, ResetTokens, SaveCounters, SaveTurns, Replace,
           SaveFails, PruneMemory, Session, stateVars
<1>4. Justified(store'.max_tokens)
  BY <1>2, Payload
<1>5. ASSUME NEW q \in Threads PROVE Justified(call'[q].payload.max_tokens)
  BY <1>2, Payload, OneThread
<1>6. ASSUME NEW q \in Threads, InTurn(q)' PROVE alone'[q]
  <2>1. CASE Begin(t)
    <3>1. \A r \in Threads : ~ InTurn(r)
      BY <1>0, <2>1 DEF Begin
    <3>2. q = t
      BY <1>6, <3>1, OneThread DEF InTurn
    <3> QED
      BY <2>1, <3>1, <3>2 DEF Begin
  <2>2. CASE ~ Begin(t)
    BY <1>2, <1>6, <2>2, Budgets, OneThread DEF InTurn
  <2> QED
    BY <2>1, <2>2
<1> QED
  BY <1>3, <1>4, <1>5, <1>6

LEMMA BudgetStep == BudgetInv /\ Limits /\ [Next]_vars => BudgetInv'
<1> SUFFICES ASSUME BudgetInv, Limits, [Next]_vars PROVE BudgetInv'
  OBVIOUS
<1>0. Types /\ TurnsOnly /\ AloneInv /\ PhaseInv /\ CheckedInv /\ JustifiedInv /\ Types'
  BY ObjectStep, CallsStep, HistoryStep, StoreStep, RunStep DEF BudgetInv, Types
<1>1. ASSUME NEW t \in Threads, Turn(t) \/ PruneMemory(t) \/ Session(t) PROVE BudgetInv'
  BY <1>0, <1>1, TurnsStep, AloneStep, PhaseStep, CheckedStep, JustifiedStep DEF BudgetInv
<1>2. ASSUME NEW c \in Chains, Load(c) PROVE BudgetInv'
  <2>1. /\ UNCHANGED <<lock, pc, call, alone, overlapped, checked>>
        /\ max_tokens' = store.max_tokens /\ store' \in {store, Defaults("absent")}
    BY <1>2 DEF Load, threadVars
  <2>2. ~ checked /\ lock = Free /\ \A t \in Threads : pc[t] = "idle"
    BY <1>0, <1>2 DEF Load, Types, RunTypes
  <2>3. TurnsOnly' /\ AloneInv'
    BY <1>0, <2>1 DEF TurnsOnly, AloneInv, InTurn
  <2>4. PhaseInv' /\ CheckedInv'
    BY <2>1, <2>2 DEF PhaseInv, Phase, CheckedInv
  <2>5. JustifiedInv'
    BY <1>0, <2>1, BaseJustified DEF JustifiedInv, Justified, InTurn, Defaults
  <2> QED
    BY <1>0, <2>3, <2>4, <2>5 DEF BudgetInv
<1>3. CASE Crash
  <2>1. \A t \in Threads : ~ InTurn(t)' /\ pc'[t] = "idle" /\ call'[t].payload.max_tokens = base_max_tokens
    BY <1>3 DEF Crash, InTurn, NoCall, Call, Defaults
  <2>2. /\ lock' = Free /\ ~ checked' /\ max_tokens' = base_max_tokens
        /\ UNCHANGED <<store, overlapped>>
    BY <1>3 DEF Crash
  <2>3. TurnsOnly'
    BY <2>1, <2>2, RepmhlAssumption DEF TurnsOnly, TurnSteps
  <2>4. JustifiedInv'
    BY <1>0, <2>1, <2>2, BaseJustified DEF JustifiedInv, Justified
  <2> QED
    BY <1>0, <2>1, <2>2, <2>3, <2>4 DEF BudgetInv, AloneInv, PhaseInv, CheckedInv
<1>4. CASE Damage \/ UNCHANGED vars
  <2>1. UNCHANGED <<lock, pc, call, alone, overlapped, checked, max_tokens, token_count>>
    BY <1>4 DEF Damage, vars, threadVars, stateVars, history
  <2>2. store'.max_tokens \in {store.max_tokens, base_max_tokens}
    BY <1>0, <1>4 DEF Damage, vars, Defaults, Types, StoreTypes, Store
  <2>3. TurnsOnly' /\ AloneInv' /\ CheckedInv'
    BY <1>0, <2>1 DEF TurnsOnly, AloneInv, CheckedInv, RotationDue, InTurn
  <2>4. PhaseInv'
    BY <1>0, <2>1 DEF PhaseInv, Phase, ExtensionDue, RotationDue, Fraction, InTurn
  <2>5. JustifiedInv'
    BY <1>0, <2>1, <2>2, BaseJustified DEF JustifiedInv, Justified, InTurn
  <2> QED
    BY <1>0, <2>3, <2>4, <2>5 DEF BudgetInv
<1> QED
  BY <1>1, <1>2, <1>3, <1>4 DEF Next

\* A process_turn that no other overlapped leaves the budget in force: the
\* count is below both limits, and as long as none ever overlapped, the limit
\* was only raised while the count justified it (repmhl.py:143-148).  A base or
\* a forced rotation of zero turns allows no turn: no count is below it.
THEOREM BudgetIsInForce ==
  ASSUME base_max_tokens > 0, force_rotation_every > 0
  PROVE  Spec => []BudgetKept
<1>1. Limits
  BY DEF Limits
<1>2. Init => BudgetInv
  BY <1>1, BudgetInit
<1>3. BudgetInv /\ [Next]_vars => BudgetInv'
  BY <1>1, BudgetStep
<1> QED
  BY <1>2, <1>3, BudgetIsKept, PTL DEF Spec

-----------------------------------------------------------------------------
(* The store follows the object: StoreCurrent.                              *)

\* The call of t has changed what is saved, or may have, and is yet to save.
Pending(t) ==
  \/ pc[t] \in {"reset", "resetBudget", "save", "saveTurns", "replace"}
  \/ InTurn(t) /\ pc[t] \in {"build", "append"}

\* Between its payload and its save, a call that none overtook has the object
\* as it is, or another is yet to save.
PayloadInv ==
  \A t \in Threads :
    /\ pc[t] = "replace" /\ ~ overtaken[t] =>
         call[t].payload = Snapshot \/ \E q \in Threads : q # t /\ Pending(q)
    /\ pc[t] = "saveTurns" /\ ~ overtaken[t] =>
         \/ [call[t].payload EXCEPT !.memory = memory] = Snapshot
         \/ \E q \in Threads : q # t /\ Pending(q)

\* The store has the object as it is, or a call is yet to save.
SavedInv ==
  chain # 0 /\ ~ behind => store = Snapshot \/ \E t \in Threads : Pending(t)

CurrentInv == Types /\ TurnsOnly /\ PayloadInv /\ SavedInv

LEMMA CurrentIsCurrent == CurrentInv => StoreCurrent
<1> SUFFICES ASSUME CurrentInv, chain # 0, \A t \in Threads : pc[t] = "idle", ~ behind
             PROVE  store = Snapshot
  BY DEF StoreCurrent
<1>1. \A t \in Threads : ~ Pending(t)
  BY DEF Pending
<1> QED
  BY <1>1 DEF CurrentInv, SavedInv

\* A step of t that changes what is saved leaves it pending.
LEMMA Changes ==
  ASSUME Types, TurnsOnly, NEW t \in Threads, Turn(t) \/ PruneMemory(t) \/ Session(t)
  PROVE  Pending(t)' \/ Snapshot' = Snapshot
<1>0. \A step : At(t, step) => pc'[t] = step
  BY Goes
<1>1. CASE AddTokens(t)
  BY <1>0, <1>1, InTurns DEF AddTokens, Pending
<1>2. CASE Locked(t)
  BY <1>0, <1>2 DEF Locked, Pending
<1>3. CASE WriteIndex(t) \/ ResetTokens(t) \/ SetBudget(t)
  BY <1>0, <1>3 DEF WriteIndex, ResetTokens, SetBudget, Pending
<1>4. CASE UNCHANGED stateVars
  BY <1>4 DEF stateVars, Snapshot
<1> QED
  BY <1>1, <1>2, <1>3, <1>4
     DEF Turn, Begin, AddTurn, BuildTurn, BuildRaises, AppendTurn, CheckTurn, ReadIndex, ReadBudget,
         Read, SaveCounters, SaveTurns, Replace, SaveFails, PruneMemory, Session

\* A call that was pending stays so until it saves, or fails to.
LEMMA Ends ==
  ASSUME Types, TurnsOnly, NEW t \in Threads, Turn(t) \/ PruneMemory(t) \/ Session(t), Pending(t)
  PROVE  \/ Pending(t)'
         \/ Replace(t)
         \/ Overtake(t) /\ behind'
<1>0. \A step : At(t, step) => pc'[t] = step
  BY Goes
<1>1. CASE BuildTurn(t)
  BY <1>0, <1>1, InTurns DEF BuildTurn, Pending
<1>2. CASE Locked(t)
  BY <1>0, <1>2 DEF Locked, Pending
<1>3. CASE ResetTokens(t) \/ SetBudget(t) \/ SaveCounters(t) \/ SaveTurns(t)
  BY <1>0, <1>3 DEF ResetTokens, SetBudget, SaveCounters, SaveTurns, Pending
<1>4. CASE BuildRaises(t)
  BY <1>4 DEF BuildRaises, Pending
<1>5. CASE SaveFails(t)
  BY <1>5 DEF SaveFails
<1> QED
  BY <1>1, <1>2, <1>3, <1>4, <1>5
     DEF Turn, Begin, MayBuild, AddTokens, AddTurn, AppendTurn, CheckTurn, ReadIndex, ReadBudget, Read,
         WriteIndex, PruneMemory, Session, Pending

\* A step of t leaves the payloads of others alone.
LEMMA OthersPending ==
  ASSUME Types, NEW t \in Threads, Turn(t) \/ PruneMemory(t) \/ Session(t)
  PROVE  \A q \in Threads : q # t => (Pending(q)' <=> Pending(q))
BY OneThread DEF Pending, InTurn

LEMMA PayloadStep ==
  ASSUME Types, TurnsOnly, PayloadInv, NEW t \in Threads, Turn(t) \/ PruneMemory(t) \/ Session(t)
  PROVE  PayloadInv'
<1> DEFINE Current(q) ==
      /\ pc[q] = "replace" /\ ~ overtaken[q] =>
           call[q].payload = Snapshot \/ \E r \in Threads : r # q /\ Pending(r)
      /\ pc[q] = "saveTurns" /\ ~ overtaken[q] =>
           \/ [call[q].payload EXCEPT !.memory = memory] = Snapshot
           \/ \E r \in Threads : r # q /\ Pending(r)
<1>0. \A step : At(t, step) => pc'[t] = step
  BY Goes
<1>1. ASSUME NEW q \in Threads, q # t PROVE Current(q)'
  <2>0. SUFFICES ASSUME pc'[q] \in {"replace", "saveTurns"}, ~ overtaken'[q] PROVE Current(q)'
    OBVIOUS
  <2>1. pc'[q] = pc[q] /\ call'[q] = call[q]
    BY <1>1, OneThread
  <2>2. ~ Overtake(t)
    BY <1>1, <2>0, <2>1 DEF Overtake
  <2>3. ~ overtaken[q]
    BY <1>1, <2>0, <2>2
       DEF Types, HistoryTypes, Turn, Begin, AddTokens, AddTurn, BuildTurn, BuildRaises, AppendTurn,
           CheckTurn, ReadIndex, ReadBudget, Read, WriteIndex, ResetTokens, SetBudget, SaveCounters,
           SaveTurns, Replace, SaveFails, PruneMemory, Session, Locked, history
  <2>4. CASE \E r \in Threads : r # q /\ Pending(r)
    <3>1. PICK r \in Threads : r # q /\ Pending(r)
      BY <2>4
    <3>2. Pending(r)'
      <4>1. CASE r = t
        BY <2>2, <3>1, <4>1, Ends DEF Replace
      <4>2. CASE r # t
        BY <3>1, <4>2, OthersPending
      <4> QED
        BY <4>1, <4>2
    <3> QED
      BY <3>1, <3>2
  <2>5. CASE ~ \E r \in Threads : r # q /\ Pending(r)
    <3>1. CASE Pending(t)'
      BY <1>1, <3>1
    <3>2. CASE Snapshot' = Snapshot
      <4>1. memory' = memory
        BY <3>2 DEF Snapshot
      <4>2. /\ pc[q] = "replace" => call[q].payload = Snapshot
            /\ pc[q] = "saveTurns" => [call[q].payload EXCEPT !.memory = memory] = Snapshot
        BY <2>3, <2>5 DEF PayloadInv
      <4> QED
        BY <2>1, <3>2, <4>1, <4>2
    <3> QED
      BY <3>1, <3>2, Changes
  <2> QED
    BY <2>4, <2>5
<1>2. Current(t)'
  <2>0. call \in [Threads -> Calls] /\ call[t].payload \in Store
    BY Payloads DEF Types, CallsTypes
  <2>1. CASE Locked(t)
    <3>1. call'[t].payload = Snapshot' /\ pc'[t] = "replace"
      BY <1>0, <2>0, <2>1 DEF Locked, Calls
    <3> QED
      BY <3>1
  <2>2. CASE SaveCounters(t)
    <3>1. call'[t].payload = Snapshot /\ pc'[t] = "saveTurns"
      BY <1>0, <2>0, <2>2 DEF SaveCounters, Calls
    <3>2. [Snapshot EXCEPT !.memory = memory'] = Snapshot'
      BY <2>2 DEF SaveCounters, stateVars, Snapshot
    <3> QED
      BY <3>1, <3>2
  <2>3. CASE SaveTurns(t)
    <3>1. call'[t].payload = [call[t].payload EXCEPT !.memory = memory] /\ pc'[t] = "replace"
      BY <1>0, <2>0, <2>3 DEF SaveTurns, Calls
    <3>2. pc[t] = "saveTurns" /\ overtaken' = overtaken /\ Snapshot' = Snapshot
      BY <2>3 DEF SaveTurns, history, stateVars, Snapshot
    <3>3. CASE \E r \in Threads : r # t /\ Pending(r)
      BY <3>1, <3>3, OthersPending
    <3>4. CASE ~ \E r \in Threads : r # t /\ Pending(r)
      BY <3>1, <3>2, <3>4 DEF PayloadInv
    <3> QED
      BY <3>3, <3>4
  <2>4. CASE pc'[t] \notin {"replace", "saveTurns"}
    BY <2>4
  <2> QED
    BY <1>0, <2>1, <2>2, <2>3, <2>4
       DEF Turn, Begin, AddTokens, AddTurn, BuildTurn, BuildRaises, Raise, AppendTurn, CheckTurn,
           Return, ReadIndex, ReadBudget, Read, WriteIndex, ResetTokens, SetBudget, Replace,
           Continue, SaveFails, PruneMemory, Session
<1>3. \A q \in Threads : Current(q)'
  BY <1>1, <1>2
<1> QED
  BY <1>3 DEF PayloadInv

LEMMA SavedStep ==
  ASSUME Types, TurnsOnly, PayloadInv, SavedInv,
         NEW t \in Threads, Turn(t) \/ PruneMemory(t) \/ Session(t)
  PROVE  SavedInv'
<1>0. SUFFICES ASSUME ~ behind' PROVE store' = Snapshot' \/ \E r \in Threads : Pending(r)'
  BY DEF SavedInv
<1>1. CASE Replace(t)
  <2>1. ~ overtaken[t] /\ pc[t] = "replace" /\ store' = call[t].payload /\ Snapshot' = Snapshot
    BY <1>0, <1>1 DEF Replace, stateVars, Snapshot
  <2>2. store' = Snapshot' \/ \E q \in Threads : q # t /\ Pending(q)
    BY <2>1 DEF PayloadInv
  <2> QED
    BY <2>2, OthersPending
<1>2. CASE ~ Replace(t)
  <2>1. store' = store /\ ~ behind
    <3>1. store' = store
      BY <1>2
         DEF Turn, Begin, AddTokens, AddTurn, BuildTurn, BuildRaises, AppendTurn, CheckTurn,
             ReadIndex, ReadBudget, Read, WriteIndex, ResetTokens, SetBudget, SaveCounters,
             SaveTurns, SaveFails, PruneMemory, Session
    <3>2. CASE BuildRaises(t)
      BY <1>0, <3>1, <3>2, Zenon DEF BuildRaises
    <3>3. CASE SaveFails(t)
      BY <1>0, <3>3, Zenon DEF SaveFails
    <3>4. CASE behind' = behind
      BY <1>0, <3>1, <3>4, Zenon
    <3>5. BuildRaises(t) \/ SaveFails(t) \/ behind' = behind
      BY <1>2
         DEF Turn, Begin, AddTokens, AddTurn, BuildTurn, AppendTurn, CheckTurn, ReadIndex,
             ReadBudget, Read, WriteIndex, ResetTokens, SetBudget, SaveCounters, SaveTurns,
             PruneMemory, Session, history
    <3> QED
      BY <3>1, <3>2, <3>3, <3>4, <3>5, Zenon
  <2>2. store = Snapshot \/ \E r \in Threads : Pending(r)
    BY <2>1, OneThread DEF SavedInv
  <2>3. CASE store = Snapshot
    BY <2>1, <2>3, Changes
  <2>4. ASSUME NEW r \in Threads, Pending(r) PROVE Pending(r)'
    <3>1. CASE r = t
      BY <1>0, <1>2, <2>4, <3>1, Ends
    <3>2. CASE r # t
      BY <2>4, <3>2, OthersPending
    <3> QED
      BY <3>1, <3>2
  <2> QED
    BY <2>2, <2>3, <2>4
<1> QED
  BY <1>1, <1>2

LEMMA CurrentInit == Init => CurrentInv
<1> SUFFICES ASSUME Init PROVE CurrentInv
  OBVIOUS
<1>1. Types
  BY TypesInit
<1>2. TurnsOnly
  BY RepmhlAssumption DEF Init, TurnsOnly, TurnSteps
<1>3. PayloadInv /\ SavedInv
  BY DEF Init, PayloadInv, SavedInv
<1> QED
  BY <1>1, <1>2, <1>3 DEF CurrentInv

LEMMA CurrentStep == CurrentInv /\ [Next]_vars => CurrentInv'
<1> SUFFICES ASSUME CurrentInv, [Next]_vars PROVE CurrentInv'
  OBVIOUS
<1>0. Types /\ TurnsOnly /\ PayloadInv /\ SavedInv /\ Types'
  BY ObjectStep, CallsStep, HistoryStep, StoreStep, RunStep DEF CurrentInv, Types
<1>1. ASSUME NEW t \in Threads, Turn(t) \/ PruneMemory(t) \/ Session(t) PROVE CurrentInv'
  BY <1>0, <1>1, TurnsStep, PayloadStep, SavedStep DEF CurrentInv
<1>2. ASSUME NEW c \in Chains, Load(c) PROVE CurrentInv'
  <2>1. UNCHANGED <<lock, pc, call, overtaken>> /\ \A t \in Threads : pc[t] = "idle"
    BY <1>0, <1>2 DEF Load, threadVars, Types, RunTypes
  <2>2. TurnsOnly'
    BY <1>0, <2>1 DEF TurnsOnly, InTurn
  <2>3. PayloadInv'
    BY <2>1 DEF PayloadInv
  <2>4. ASSUME ~ behind' PROVE store' = Snapshot'
    <3>1. Loads(c)
      BY <1>2, <2>4 DEF Load
    <3>2. /\ store' = store /\ memory' = store.memory /\ active' = store.active
          /\ current_model_index' = store.current_model_index
          /\ token_count' = store.token_count /\ max_tokens' = store.max_tokens
      BY <1>2, <3>1 DEF Load
    <3>3. store \in Store /\ store.state = "saved"
      BY <1>0, <3>1 DEF Loads, Types, StoreTypes
    <3> QED
      BY <3>2, <3>3 DEF Store, Snapshot
  <2>5. SavedInv'
    BY <2>4 DEF SavedInv
  <2> QED
    BY <1>0, <2>2, <2>3, <2>5 DEF CurrentInv
<1>3. CASE Crash
  <2>1. lock' = Free /\ chain' = 0 /\ \A t \in Threads : pc'[t] = "idle"
    BY <1>3 DEF Crash
  <2> QED
    BY <1>0, <2>1, RepmhlAssumption DEF CurrentInv, TurnsOnly, TurnSteps, PayloadInv, SavedInv
<1>4. CASE Damage \/ UNCHANGED vars
  <2>1. UNCHANGED <<lock, pc, call, chain, overtaken, stateVars>>
    BY <1>4 DEF Damage, vars, threadVars, history
  <2>2. chain = 0 \/ UNCHANGED <<store, behind>>
    BY <1>4 DEF Damage, vars, history
  <2>3. TurnsOnly'
    BY <1>0, <2>1 DEF TurnsOnly, InTurn
  <2>4. Snapshot' = Snapshot /\ memory' = memory /\ \A t \in Threads : Pending(t)' <=> Pending(t)
    BY <2>1 DEF Pending, InTurn, Snapshot, stateVars
  <2>5. PayloadInv'
    BY <1>0, <2>1, <2>4 DEF PayloadInv
  <2>6. SavedInv'
    BY <1>0, <2>1, <2>2, <2>4 DEF SavedInv
  <2> QED
    BY <1>0, <2>3, <2>5, <2>6 DEF CurrentInv
<1> QED
  BY <1>1, <1>2, <1>3, <1>4 DEF Next

\* Between calls the store is the object: every path that changes what is
\* saved, in whatever order threads take them, ends in a save of it, unless
\* the last save was overtaken or failed (repmhl.py:143-148, 232-239, 440-444).
THEOREM StoreFollows == Spec => []StoreCurrent
BY CurrentInit, CurrentStep, CurrentIsCurrent, PTL DEF Spec

-----------------------------------------------------------------------------
(* What was acknowledged is recalled: RecallsRecent.                        *)

\* What was acknowledged is in the list m, or m is full.
Kept(m) == \A x \in acked : x \in ToSet(m) \/ Len(m) = max_turns

\* What the turns of m say of one that is not among them: each came later.
After(m, x) == \A y \in ToSet(m) : <<y, x>> \in later

\* A copy of the list that is, or may become, the store: a turn that has been
\* acknowledged is in it, or it is not in memory and the copy is of later ones.
Recalls(m) ==
  \A x \in acked :
    x \in ToSet(m) \/ (x \notin ToSet(memory) /\ Len(m) = max_turns /\ After(m, x))

\* Turns are numbered as they are built.
NumberInv ==
  LET Turns == 1 .. built IN
  /\ acked \subseteq Turns /\ later \subseteq Turns \X Turns
  /\ ToSet(memory) \subseteq Turns /\ ToSet(store.memory) \subseteq Turns
  /\ \A t \in Threads : /\ ToSet(call[t].payload.memory) \subseteq Turns
                        /\ call[t].turn \in Turns \cup {0}

\* A turn on its way into memory is nowhere else yet.
NewInv ==
  \A t \in Threads :
    /\ pc[t] = "idle" => call[t].turn = 0
    /\ pc[t] = "append" =>
         /\ call[t].turn \notin acked \cup ToSet(memory) \cup {0}
         /\ \A q \in Threads : q # t /\ pc[q] = "append" => call[q].turn # call[t].turn

\* The holder of the lock saves memory as it is, with the turn it appended.
HolderInv ==
  \A t \in Threads : lock = t =>
    /\ pc[t] = "replace" /\ call[t].payload.memory = memory
    /\ call[t].turn \in ToSet(memory) \cup {0}

\* The list is in the order of later, and what was dropped came before it.
OrderInv ==
  /\ \A i, j \in 1 .. Len(memory) : i > j => <<memory[i], memory[j]>> \in later
  /\ \A x \in acked \ ToSet(memory) : After(memory, x)

\* A save is of a list, and nothing is acknowledged before there is one.
StateInv ==
  /\ store.state = "absent" => acked = {}
  /\ \A t \in Threads : pc[t] \in {"saveTurns", "replace"} => call[t].payload.state = "saved"

CopiesInv ==
  /\ chain # 0 => Kept(memory)
  /\ ~ stale /\ store.state = "saved" => Recalls(store.memory)
  /\ \A t \in Threads : pc[t] = "replace" /\ ~ overtaken[t] => Recalls(call[t].payload.memory)

RecallInv == NumberInv /\ NewInv /\ HolderInv /\ OrderInv /\ StateInv /\ CopiesInv

\* What InOrder makes of the pairs of later.
LEMMA Orders ==
  ASSUME NumberInv, NEW m \in Seq(Nat), ToSet(m) \subseteq 1 .. built
  PROVE  /\ InOrder(m) \subseteq (1 .. built) \X (1 .. built)
         /\ \A i, j \in 1 .. Len(m) : i > j => <<m[i], m[j]>> \in InOrder(m)
         /\ \A y \in ToSet(m) : \A x \in (1 .. built) \ ToSet(m) : <<y, x>> \in InOrder(m)
         /\ \A x, y : <<y, x>> \in later /\ x \notin ToSet(m) => <<y, x>> \in InOrder(m)
<1>1. \A i \in 1 .. Len(m) : m[i] \in ToSet(m)
  BY DEF ToSet
<1>2. later \subseteq (1 .. built) \X (1 .. built)
  BY DEF NumberInv
<1> QED
  BY <1>1, <1>2 DEF InOrder

\* m is the turns but for the first d, and n.
Appended(m, turns, n, d) ==
  /\ Len(m) = Len(turns) + 1 - d
  /\ d = 0 \/ Len(m) = max_turns
  /\ \A i \in 1 .. Len(m) : m[i] = IF i + d <= Len(turns) THEN turns[i + d] ELSE n

\* What an append leaves of the list.
LEMMA Appends ==
  ASSUME NEW turns \in Seq(Nat), Len(turns) <= max_turns, NEW n \in Nat,
         NEW m, m = Recent(Append(turns, n))
  PROVE  m \in Seq(Nat) /\ \E d \in 0 .. Len(turns) : Appended(m, turns, n, d)
<1> DEFINE all == Append(turns, n)
<1>1. /\ all \in Seq(Nat) /\ Len(all) = Len(turns) + 1 /\ Len(turns) \in Nat
      /\ \A i \in 1 .. Len(all) : all[i] = IF i <= Len(turns) THEN turns[i] ELSE n
      /\ max_turns \in Nat \ {0}
  BY RepmhlAssumption
<1> HIDE DEF all
<1>2. m \in Seq(Nat)
  BY <1>1, RecentTypes DEF all
<1>3. CASE Len(all) <= max_turns
  <2>1. m = all
    BY <1>3 DEF Recent, all
  <2> QED
    BY <1>1, <1>2, <2>1 DEF Appended
<1>4. CASE ~ (Len(all) <= max_turns)
  <2> DEFINE d == Len(all) - max_turns
  <2>1. d \in 0 .. Len(turns)
    BY <1>1, <1>4
  <2>2. m = SubSeq(all, d + 1, Len(all))
    BY <1>4 DEF Recent, all
  <2>3. Len(m) = Len(all) - d /\ \A i \in 1 .. Len(m) : m[i] = all[i + d]
    BY <1>1, <2>1, <2>2
  <2>4. Len(m) = max_turns /\ Len(m) = Len(turns) + 1 - d
    BY <1>1, <2>1, <2>3
  <2> HIDE DEF d
  <2>5. \A i \in 1 .. Len(m) : m[i] = IF i + d <= Len(turns) THEN turns[i + d] ELSE n
    BY <1>1, <2>1, <2>3, <2>4
  <2> QED
    BY <1>2, <2>1, <2>4, <2>5 DEF Appended
<1> QED
  BY <1>3, <1>4

LEMMA AppendKeeps ==
  ASSUME NEW turns \in Seq(Nat), Len(turns) <= max_turns, NEW n \in Nat,
         NEW m, m = Recent(Append(turns, n))
  PROVE  /\ ToSet(m) \subseteq ToSet(turns) \cup {n} /\ n \in ToSet(m)
         /\ Len(m) = max_turns \/ ToSet(turns) \subseteq ToSet(m)
         /\ Len(turns) = max_turns => Len(m) = max_turns
<1>1. m \in Seq(Nat)
  BY Appends
<1>2. PICK d \in 0 .. Len(turns) : Appended(m, turns, n, d)
  BY Appends
<1>3. /\ ToSet(m) = {m[i] : i \in 1 .. Len(m)} /\ ToSet(turns) = {turns[i] : i \in 1 .. Len(turns)}
      /\ Len(turns) \in Nat /\ Len(m) \in Nat
  BY <1>1 DEF ToSet
<1>4. ToSet(m) \subseteq ToSet(turns) \cup {n}
  BY <1>2, <1>3 DEF Appended
<1>5. n \in ToSet(m)
  <2>1. Len(m) \in 1 .. Len(m) /\ m[Len(m)] = n
    BY <1>2, <1>3 DEF Appended
  <2> QED
    BY <1>3, <2>1
<1>6. ASSUME d = 0 PROVE ToSet(turns) \subseteq ToSet(m)
  <2>1. \A i \in 1 .. Len(turns) : i \in 1 .. Len(m) /\ m[i] = turns[i]
    BY <1>2, <1>3, <1>6 DEF Appended
  <2> QED
    BY <1>3, <2>1
<1>7. Len(turns) = max_turns => Len(m) = max_turns
  <2>1. Len(m) <= max_turns
    <3>1. Append(turns, n) \in Seq(Nat)
      OBVIOUS
    <3> QED
      BY <3>1, RecentTypes
  <2> QED
    BY <1>2, <1>3, <2>1 DEF Appended
<1> QED
  BY <1>2, <1>4, <1>5, <1>6, <1>7 DEF Appended

\* A step of t that touches no list, and takes no turn to one.
Quiet(t) ==
  /\ UNCHANGED <<store, memory, built, acked, later, stale>>
  /\ pc'[t] \notin {"append", "replace"}
  /\ pc'[t] = "idle" => call'[t].turn = 0
  /\ call'[t].turn \in {call[t].turn, 0}
  /\ call'[t].payload.memory \in {call[t].payload.memory, memory, <<>>}
  /\ pc'[t] = "saveTurns" => call'[t].payload.state = "saved"
  /\ IF pc[t] = "replace" THEN lock' # t ELSE lock' = lock

\* What the calls of this module leave in a thread's locals.
LEMMA NewLocals ==
  ASSUME Types, NEW t \in Threads
  PROVE  /\ Raise(t) \/ Return(t) => call'[t].turn = 0 /\ call'[t].payload.memory = <<>> /\ pc'[t] = "idle"
         /\ Locked(t) => /\ call'[t].turn = call[t].turn /\ call'[t].payload.memory = memory'
                         /\ call'[t].payload.state = "saved" /\ pc'[t] = "replace"
                         /\ lock = Free /\ lock' = t /\ ~ overtaken'[t]
<1>0. /\ call \in [Threads -> Calls] /\ call[t] \in Calls
      /\ overtaken \in [Threads -> BOOLEAN]
  BY DEF Types, CallsTypes, HistoryTypes
<1>1. ASSUME Raise(t) \/ Return(t)
      PROVE  call'[t].turn = 0 /\ call'[t].payload.memory = <<>> /\ pc'[t] = "idle"
  <2>1. call'[t] = NoCall /\ At(t, "idle")
    BY <1>0, <1>1 DEF Raise, Return
  <2> QED
    BY <2>1, Goes DEF NoCall, Call, Defaults
<1>2. ASSUME Locked(t)
      PROVE  /\ call'[t].turn = call[t].turn /\ call'[t].payload.memory = memory'
             /\ call'[t].payload.state = "saved" /\ pc'[t] = "replace"
             /\ lock = Free /\ lock' = t /\ ~ overtaken'[t]
  <2>1. call'[t] = [call[t] EXCEPT !.payload = Snapshot'] /\ At(t, "replace")
        /\ lock = Free /\ lock' = t /\ ~ overtaken'[t]
    BY <1>0, <1>2 DEF Locked
  <2>2. call'[t].turn = call[t].turn /\ call'[t].payload = Snapshot'
    BY <1>0, <2>1 DEF Calls
  <2> QED
    BY <2>1, <2>2, Goes DEF Snapshot
<1> QED
  BY <1>1, <1>2

LEMMA Quiets ==
  ASSUME Types, NEW t \in Threads,
         Turn(t), ~ BuildTurn(t), ~ AppendTurn(t), ~ SaveTurns(t), ~ Replace(t)
  PROVE  Quiet(t)
<1>0. /\ call \in [Threads -> Calls] /\ call[t] \in Calls /\ Free \notin Threads
      /\ \A step : At(t, step) => pc'[t] = step
  BY Goes, RepmhlAssumption DEF Types, CallsTypes
<1>1. CASE Begin(t) \/ AddTokens(t) \/ AddTurn(t)
  <2>1. \E does, n, m : call'[t] = Call(does, n, m)
    BY <1>0, <1>1 DEF Begin, AddTokens, AddTurn
  <2>2. call'[t].turn = 0 /\ call'[t].payload.memory = <<>>
    BY <2>1 DEF Call, Defaults
  <2>3. /\ UNCHANGED <<store, memory, built, acked, later, stale, lock>>
        /\ pc[t] # "replace" /\ pc'[t] \in {"add", "build"}
    BY <1>0, <1>1 DEF Begin, AddTokens, AddTurn, MayBuild, stateVars, history
  <2> QED
    BY <2>2, <2>3 DEF Quiet
<1>2. CASE BuildRaises(t) \/ SaveFails(t)
  <2>1. /\ UNCHANGED <<store, memory, built, acked, later, stale>>
        /\ IF pc[t] = "replace" THEN lock' # t ELSE lock' = lock
    BY <1>0, <1>2 DEF BuildRaises, SaveFails, Release, stateVars
  <2> QED
    BY <1>2, <2>1, NewLocals DEF Quiet, BuildRaises, SaveFails
<1>3. CASE CheckTurn(t)
  <2>1. UNCHANGED <<store, memory, built, acked, later, stale, lock>> /\ pc[t] = "check"
    BY <1>3 DEF CheckTurn, stateVars
  <2>2. CASE Return(t)
    BY <2>1, <2>2, NewLocals DEF Quiet
  <2>3. CASE call' = call /\ pc'[t] \in {"rotate", "extend"}
    BY <2>1, <2>3 DEF Quiet
  <2> QED
    BY <1>0, <1>3, <2>2, <2>3 DEF CheckTurn
<1>4. CASE ReadIndex(t) \/ ReadBudget(t)
  <2>1. \E n : call'[t] = [call[t] EXCEPT !.read = n]
    BY <1>0, <1>4 DEF ReadIndex, ReadBudget, Read
  <2>2. call'[t].turn = call[t].turn /\ call'[t].payload = call[t].payload
    BY <1>0, <2>1 DEF Calls
  <2>3. /\ UNCHANGED <<store, memory, built, acked, later, stale, lock>>
        /\ pc[t] # "replace" /\ pc'[t] \in {"writeIndex", "writeBudget"}
    BY <1>0, <1>4 DEF ReadIndex, ReadBudget, Read, stateVars, history
  <2> QED
    BY <2>2, <2>3 DEF Quiet
<1>5. CASE WriteIndex(t) \/ ResetTokens(t) \/ SetBudget(t)
  <2>1. /\ UNCHANGED <<store, memory, built, acked, later, stale, lock, call>>
        /\ pc[t] # "replace" /\ pc'[t] \in {"reset", "resetBudget", "save"}
    BY <1>0, <1>5 DEF WriteIndex, ResetTokens, SetBudget, history
  <2> QED
    BY <2>1 DEF Quiet
<1>6. CASE SaveCounters(t)
  <2>1. call'[t] = [call[t] EXCEPT !.payload = Snapshot]
    BY <1>0, <1>6 DEF SaveCounters
  <2>2. call'[t].turn = call[t].turn /\ call'[t].payload = Snapshot
    BY <1>0, <2>1 DEF Calls
  <2>3. /\ UNCHANGED <<store, memory, built, acked, later, stale, lock>>
        /\ pc[t] # "replace" /\ pc'[t] = "saveTurns"
    BY <1>0, <1>6 DEF SaveCounters, stateVars
  <2> QED
    BY <2>2, <2>3 DEF Quiet, Snapshot
<1> QED
  BY <1>1, <1>2, <1>3, <1>4, <1>5, <1>6 DEF Turn

\* A step of t may overtake others, and clears nothing of theirs.
LEMMA OthersOvertaken ==
  ASSUME Types, NEW t \in Threads, Turn(t) \/ PruneMemory(t) \/ Session(t),
         NEW q \in Threads, q # t, ~ overtaken'[q]
  PROVE  ~ overtaken[q]
BY DEF Types, HistoryTypes, Turn, Begin, AddTokens, AddTurn, BuildTurn, BuildRaises, AppendTurn,
   CheckTurn, ReadIndex, ReadBudget, Read, WriteIndex, ResetTokens, SetBudget, SaveCounters,
   SaveTurns, Replace, SaveFails, PruneMemory, Session, Locked, Overtake, history

\* What a step of t does not do to the calls of others.
OthersKept(t) ==
  \A q \in Threads : q # t =>
    /\ pc'[q] = pc[q] /\ call'[q] = call[q] /\ (lock' = q <=> lock = q)
    /\ ~ overtaken'[q] => ~ overtaken[q]

LEMMA OthersAreKept ==
  ASSUME Types, NEW t \in Threads, Turn(t) \/ PruneMemory(t) \/ Session(t)
  PROVE  OthersKept(t) /\ chain # 0 /\ chain' = chain
BY OneThread, OthersOvertaken DEF OthersKept

LEMMA RecallQuiet ==
  ASSUME RecallInv, Types, NEW t \in Threads, Turn(t), Quiet(t)
  PROVE  RecallInv'
<1>0. OthersKept(t) /\ chain' = chain
  BY OthersAreKept
<1>1. UNCHANGED <<store, memory, built, acked, later, stale>>
  BY DEF Quiet
<1>2. NumberInv'
  <2>1. ToSet(<<>>) = {}
    BY DEF ToSet
  <2> QED
    BY <1>0, <1>1, <2>1 DEF RecallInv, NumberInv, OthersKept, Quiet
<1>3. NewInv'
  BY <1>0, <1>1 DEF RecallInv, NewInv, OthersKept, Quiet
<1>4. HolderInv'
  <2>1. lock' # t
    BY DEF RecallInv, HolderInv, Quiet
  <2> QED
    BY <1>0, <1>1, <2>1 DEF RecallInv, HolderInv, OthersKept
<1>5. OrderInv'
  BY <1>1 DEF RecallInv, OrderInv, After
<1>6. StateInv'
  BY <1>0, <1>1 DEF RecallInv, StateInv, OthersKept, Quiet
<1>7. CopiesInv'
  BY <1>0, <1>1 DEF RecallInv, CopiesInv, OthersKept, Quiet, Recalls, Kept, After
<1> QED
  BY <1>2, <1>3, <1>4, <1>5, <1>6, <1>7 DEF RecallInv

LEMMA RecallBuild ==
  ASSUME RecallInv, Types, NEW t \in Threads, BuildTurn(t)
  PROVE  RecallInv'
<1>0. OthersKept(t) /\ chain' = chain
  BY OthersAreKept DEF Turn
<1>1. /\ UNCHANGED <<store, memory, acked, later, stale, lock>> /\ built' = built + 1
      /\ pc[t] = "build" /\ pc'[t] = "append"
  BY Goes DEF BuildTurn, stateVars
<1>2. call'[t].turn = built + 1 /\ call'[t].payload = call[t].payload
  <2>1. call'[t] = [call[t] EXCEPT !.turn = built + 1] /\ call[t] \in Calls
    BY DEF BuildTurn, Types, CallsTypes
  <2> QED
    BY <2>1 DEF Calls
<1>3. built \in Nat /\ 1 .. built \subseteq 1 .. built + 1 /\ built + 1 \notin 1 .. built
  BY DEF Types, HistoryTypes
<1>4. NumberInv'
  <2>1. \A q \in Threads :
          /\ ToSet(call'[q].payload.memory) \subseteq 1 .. built'
          /\ call'[q].turn \in (1 .. built') \cup {0}
    BY <1>0, <1>1, <1>2, <1>3 DEF RecallInv, NumberInv, OthersKept
  <2> QED
    BY <1>1, <1>3, <2>1 DEF RecallInv, NumberInv
<1>5. NewInv'
  <2>1. \A q \in Threads : call[q].turn # built + 1
    BY <1>3 DEF RecallInv, NumberInv
  <2>2. built + 1 \notin acked \cup ToSet(memory) \cup {0}
    BY <1>3 DEF RecallInv, NumberInv
  <2> QED
    BY <1>0, <1>1, <1>2, <2>1, <2>2 DEF RecallInv, NewInv, OthersKept
<1>6. HolderInv'
  BY <1>0, <1>1 DEF RecallInv, HolderInv, OthersKept
<1>7. OrderInv'
  BY <1>1 DEF RecallInv, OrderInv, After
<1>8. StateInv'
  BY <1>0, <1>1 DEF RecallInv, StateInv, OthersKept
<1>9. CopiesInv'
  BY <1>0, <1>1 DEF RecallInv, CopiesInv, OthersKept, Recalls, Kept, After
<1> QED
  BY <1>4, <1>5, <1>6, <1>7, <1>8, <1>9 DEF RecallInv

LEMMA RecallSaveTurns ==
  ASSUME RecallInv, Types, NEW t \in Threads, SaveTurns(t)
  PROVE  RecallInv'
<1>0. OthersKept(t) /\ chain' = chain /\ chain # 0
  BY OthersAreKept DEF Turn
<1>1. /\ UNCHANGED <<store, memory, built, acked, later, stale, lock>>
      /\ pc[t] = "saveTurns" /\ pc'[t] = "replace"
  BY Goes DEF SaveTurns, stateVars, history
<1>2. /\ call'[t].turn = call[t].turn /\ call'[t].payload.memory = memory
      /\ call'[t].payload.state = call[t].payload.state
  <2>1. /\ call'[t] = [call[t] EXCEPT !.payload = [call[t].payload EXCEPT !.memory = memory]]
        /\ call[t] \in Calls /\ call[t].payload \in Store
    BY Payloads DEF SaveTurns, Types, CallsTypes
  <2>2. /\ call'[t].turn = call[t].turn
        /\ call'[t].payload = [call[t].payload EXCEPT !.memory = memory]
    BY <2>1 DEF Calls
  <2> QED
    BY <2>1, <2>2 DEF Store
<1>3. NumberInv'
  BY <1>0, <1>1, <1>2 DEF RecallInv, NumberInv, OthersKept
<1>4. NewInv'
  BY <1>0, <1>1, <1>2 DEF RecallInv, NewInv, OthersKept
<1>5. HolderInv'
  BY <1>0, <1>1 DEF RecallInv, HolderInv, OthersKept
<1>6. OrderInv'
  BY <1>1 DEF RecallInv, OrderInv, After
<1>7. StateInv'
  BY <1>0, <1>1, <1>2 DEF RecallInv, StateInv, OthersKept
<1>8. CopiesInv'
  <2>1. Recalls(memory)
    BY <1>0 DEF RecallInv, CopiesInv, OrderInv, Kept, Recalls
  <2> QED
    BY <1>0, <1>1, <1>2, <2>1 DEF RecallInv, CopiesInv, OthersKept, Recalls, Kept, After
<1> QED
  BY <1>3, <1>4, <1>5, <1>6, <1>7, <1>8 DEF RecallInv

LEMMA RecallReplace ==
  ASSUME RecallInv, Types, NEW t \in Threads, Replace(t)
  PROVE  RecallInv'
<1>0. OthersKept(t) /\ chain' = chain /\ chain # 0
  BY OthersAreKept DEF Turn
<1>1. /\ UNCHANGED <<memory, built, later>> /\ store' = call[t].payload
      /\ stale' = (overtaken[t] /\ lock # t) /\ Overtake(t) /\ pc[t] = "replace" /\ lock' # t
      /\ \/ acked' = acked
         \/ lock = t /\ call[t].turn # 0 /\ acked' = acked \cup {call[t].turn}
  BY RepmhlAssumption DEF Replace, stateVars, Release
<1>2. /\ pc'[t] \in {"check", "idle"} /\ (pc'[t] = "idle" => call'[t].turn = 0)
      /\ call'[t].turn \in {call[t].turn, 0}
      /\ call'[t].payload.memory \in {call[t].payload.memory, <<>>}
  <2>1. CASE Return(t)
    BY <2>1, NewLocals
  <2>2. CASE At(t, "check") /\ call' = call
    BY <2>2, Goes
  <2> QED
    BY <2>1, <2>2 DEF Replace, Continue
<1>3. acked' \subseteq acked \cup ToSet(memory)
  BY <1>1 DEF RecallInv, HolderInv
<1>4. NumberInv'
  <2>1. ToSet(<<>>) = {}
    BY DEF ToSet
  <2> QED
    BY <1>0, <1>1, <1>2, <1>3, <2>1 DEF RecallInv, NumberInv, OthersKept
<1>5. NewInv'
  BY <1>0, <1>1, <1>2, <1>3 DEF RecallInv, NewInv, OthersKept
<1>6. HolderInv'
  BY <1>0, <1>1 DEF RecallInv, HolderInv, OthersKept
<1>7. OrderInv'
  BY <1>1, <1>3 DEF RecallInv, OrderInv, After
<1>8. StateInv'
  BY <1>0, <1>1, <1>2 DEF RecallInv, StateInv, OthersKept
<1>9. CopiesInv'
  <2>1. Kept(memory)
    BY <1>0 DEF RecallInv, CopiesInv
  <2>2. Kept(memory)'
    BY <1>1, <1>3, <2>1 DEF Kept
  <2>3. ASSUME ~ stale' PROVE Recalls(store.memory)'
    <3>1. Recalls(call[t].payload.memory)
      <4>1. CASE ~ overtaken[t]
        BY <1>1, <4>1 DEF RecallInv, CopiesInv
      <4>2. CASE lock = t
        <5>1. Recalls(memory)
          BY <2>1 DEF RecallInv, OrderInv, Kept, Recalls
        <5> QED
          BY <4>2, <5>1 DEF RecallInv, HolderInv
      <4> QED
        BY <1>1, <2>3, <4>1, <4>2
    <3>2. acked' = acked \/ acked' \subseteq acked \cup ToSet(call[t].payload.memory)
      BY <1>1 DEF RecallInv, HolderInv
    <3> QED
      BY <1>1, <3>1, <3>2 DEF Recalls, After
  <2>4. \A q \in Threads : ~ (pc'[q] = "replace" /\ ~ overtaken'[q])
    BY <1>0, <1>1, <1>2 DEF OthersKept, Overtake
  <2> QED
    BY <2>2, <2>3, <2>4 DEF CopiesInv
<1> QED
  BY <1>4, <1>5, <1>6, <1>7, <1>8, <1>9 DEF RecallInv

\* What a copy says of the turns acknowledged, it still says after an append.
LEMMA RecallsKept ==
  ASSUME NEW m, Recalls(m), NEW n, n \notin acked, acked' = acked,
         ToSet(memory') \subseteq ToSet(memory) \cup {n},
         \A y, x : <<y, x>> \in later /\ x # n => <<y, x>> \in later'
  PROVE  Recalls(m)'
BY DEF Recalls, After

LEMMA RecallAppend ==
  ASSUME RecallInv, Types, NEW t \in Threads, AppendTurn(t)
  PROVE  RecallInv'
<1> DEFINE n == call[t].turn
<1>0. OthersKept(t) /\ chain' = chain /\ chain # 0
  BY OthersAreKept DEF Turn
<1>1. /\ UNCHANGED <<store, built, acked, stale>> /\ pc[t] = "append" /\ Locked(t)
      /\ memory' = Recent(Append(memory, n)) /\ later' = InOrder(<<n>>)
  BY DEF AppendTurn
<1>2. /\ call'[t].turn = n /\ call'[t].payload.memory = memory' /\ call'[t].payload.state = "saved"
      /\ pc'[t] = "replace" /\ lock = Free /\ lock' = t
  BY <1>1, NewLocals
<1>3. n \in 1 .. built /\ n \notin acked /\ n \notin ToSet(memory) /\ n \in Nat
  BY <1>1, Payloads DEF RecallInv, NumberInv, NewInv, Calls
<1>4. memory \in Seq(Nat) /\ Len(memory) <= max_turns /\ Free \notin Threads
  BY RepmhlAssumption DEF Types, ObjectTypes
<1>5. /\ ToSet(memory') \subseteq ToSet(memory) \cup {n} /\ n \in ToSet(memory')
      /\ Len(memory') = max_turns \/ ToSet(memory) \subseteq ToSet(memory')
      /\ Len(memory) = max_turns => Len(memory') = max_turns
  BY <1>1, <1>3, <1>4, AppendKeeps
<1>6. /\ later' \subseteq (1 .. built) \X (1 .. built)
      /\ \A x \in 1 .. built : x # n => <<n, x>> \in later'
      /\ \A x, y : <<y, x>> \in later /\ x # n => <<y, x>> \in later'
  <2>1. ToSet(<<n>>) = {n} /\ <<n>> \in Seq(Nat)
    BY <1>3 DEF ToSet
  <2> QED
    BY <1>1, <1>3, <2>1, Orders DEF RecallInv
<1> HIDE DEF n
<1>7. NumberInv'
  BY <1>0, <1>1, <1>2, <1>3, <1>5, <1>6 DEF RecallInv, NumberInv, OthersKept
<1>8. NewInv'
  <2>1. \A q \in Threads : q # t /\ pc[q] = "append" => call[q].turn # n
    BY <1>1 DEF RecallInv, NewInv, n
  <2> QED
    BY <1>0, <1>1, <1>2, <1>5, <2>1 DEF RecallInv, NewInv, OthersKept
<1>9. HolderInv'
  BY <1>0, <1>2, <1>4, <1>5 DEF HolderInv
<1>10. OrderInv'
  <2>0. PICK d \in 0 .. Len(memory) : Appended(memory', memory, n, d)
    BY <1>1, <1>3, <1>4, Appends
  <2>1. ASSUME NEW i \in 1 .. Len(memory'), NEW j \in 1 .. Len(memory'), i > j
        PROVE  <<memory'[i], memory'[j]>> \in later'
    <3>2. Len(memory) \in Nat
      BY <1>4
    <3>3. j + d \in 1 .. Len(memory) /\ memory'[j] = memory[j + d]
      BY <2>0, <2>1, <3>2 DEF Appended
    <3>4. memory[j + d] \in ToSet(memory)
      BY <1>4, <3>3 DEF ToSet
    <3>5. memory[j + d] \in 1 .. built /\ memory[j + d] # n
      BY <1>3, <3>4 DEF RecallInv, NumberInv
    <3>6. CASE i + d <= Len(memory)
      <4>1. i + d \in 1 .. Len(memory) /\ i + d > j + d /\ memory'[i] = memory[i + d]
        BY <2>0, <2>1, <3>2, <3>6 DEF Appended
      <4>2. <<memory[i + d], memory[j + d]>> \in later
        BY <3>3, <4>1 DEF RecallInv, OrderInv
      <4> QED
        BY <1>6, <3>3, <3>5, <4>1, <4>2
    <3>7. CASE ~ (i + d <= Len(memory))
      <4>1. memory'[i] = n
        BY <2>0, <3>7 DEF Appended
      <4> QED
        BY <1>6, <3>3, <3>5, <4>1
    <3> QED
      BY <3>6, <3>7
  <2>2. ASSUME NEW x \in acked', x \notin ToSet(memory'), NEW y \in ToSet(memory')
        PROVE  <<y, x>> \in later'
    <3>1. x \in acked /\ x \in 1 .. built /\ x # n
      BY <1>1, <1>3, <2>2 DEF RecallInv, NumberInv
    <3>2. CASE y = n
      BY <1>6, <3>1, <3>2
    <3>3. CASE y # n /\ x \notin ToSet(memory)
      <4>1. <<y, x>> \in later
        BY <1>5, <3>1, <3>3 DEF RecallInv, OrderInv, After
      <4> QED
        BY <1>6, <3>1, <4>1
    <3>4. CASE y # n /\ x \in ToSet(memory)
      <4>1. memory' \in Seq(Nat)
        BY <1>1, <1>3, <1>4, Appends
      <4>2. memory' \in Seq(Nat) /\ Len(memory) \in Nat /\ Len(memory') \in Nat
        BY <1>4, <4>1
      <4>3. PICK k \in 1 .. Len(memory') : y = memory'[k]
        BY <4>2 DEF ToSet
      <4>4. k + d \in 1 .. Len(memory) /\ y = memory[k + d]
        BY <2>0, <3>4, <4>2, <4>3 DEF Appended
      <4>5. PICK j \in 1 .. Len(memory) : x = memory[j]
        BY <1>4, <3>4 DEF ToSet
      <4>6. ~ (j > d)
        <5> SUFFICES ASSUME j > d PROVE FALSE
          OBVIOUS
        <5>1. j - d \in 1 .. Len(memory') /\ memory'[j - d] = memory[j]
          BY <2>0, <4>2, <4>5 DEF Appended
        <5> QED
          BY <2>2, <4>2, <4>5, <5>1 DEF ToSet
      <4>7. k + d > j
        BY <2>0, <4>2, <4>3, <4>6 DEF Appended
      <4>8. <<y, x>> \in later
        BY <4>4, <4>5, <4>7 DEF RecallInv, OrderInv
      <4> QED
        BY <1>6, <3>1, <4>8
    <3> QED
      BY <3>2, <3>3, <3>4
  <2> QED
    BY <2>1, <2>2 DEF OrderInv, After
<1>11. StateInv'
  BY <1>0, <1>1, <1>2 DEF RecallInv, StateInv, OthersKept
<1>12. CopiesInv'
  <2>2. Kept(memory)'
    BY <1>0, <1>1, <1>5 DEF RecallInv, CopiesInv, Kept
  <2>3. Recalls(memory)'
    BY <1>10, <2>2 DEF OrderInv, Kept, Recalls
  <2>4. \A m : Recalls(m) => Recalls(m)'
    BY <1>1, <1>3, <1>5, <1>6, RecallsKept
  <2>5. ~ stale' /\ store'.state = "saved" => Recalls(store.memory)'
    BY <1>1, <2>4 DEF RecallInv, CopiesInv
  <2>6. ASSUME NEW q \in Threads, pc'[q] = "replace", ~ overtaken'[q]
        PROVE  Recalls(call[q].payload.memory)'
    <3>1. CASE q = t
      BY <1>2, <2>3, <3>1
    <3>2. CASE q # t
      <4>1. pc[q] = "replace" /\ ~ overtaken[q] /\ call'[q] = call[q]
        BY <1>0, <2>6, <3>2 DEF OthersKept
      <4>2. Recalls(call[q].payload.memory)
        BY <4>1 DEF RecallInv, CopiesInv
      <4> QED
        BY <2>4, <4>1, <4>2 DEF Recalls, After
    <3> QED
      BY <3>1, <3>2
  <2> QED
    BY <2>2, <2>5, <2>6 DEF CopiesInv
<1> QED
  BY <1>7, <1>8, <1>9, <1>10, <1>11, <1>12 DEF RecallInv

\* Another holder of the lock that appends nothing: prune_memory, or a session.
LEMMA RecallLocked ==
  ASSUME RecallInv, Types, NEW t \in Threads, pc[t] = "idle", Locked(t), OthersKept(t),
         chain # 0, chain' = chain, UNCHANGED <<store, built, stale>>,
         acked' \subseteq acked, ToSet(memory') \subseteq ToSet(memory), NumberInv', OrderInv',
         Kept(memory)',
         \/ acked' \subseteq ToSet(memory)
         \/ UNCHANGED <<memory, acked, later>>
  PROVE  RecallInv'
<1>1. /\ call'[t].turn = 0 /\ call'[t].payload.memory = memory' /\ call'[t].payload.state = "saved"
      /\ pc'[t] = "replace" /\ lock = Free /\ lock' = t
  BY NewLocals DEF RecallInv, NewInv
<1>2. NewInv'
  BY <1>1 DEF RecallInv, NewInv, OthersKept
<1>3. HolderInv'
  BY <1>1, RepmhlAssumption DEF HolderInv
<1>4. StateInv'
  BY <1>1 DEF RecallInv, StateInv, OthersKept
<1>5. CopiesInv'
  <2>1. \A m : Recalls(m) => Recalls(m)'
    BY DEF Recalls, After
  <2>2. Recalls(memory)'
    BY DEF OrderInv, Kept, Recalls
  <2>3. ~ stale' /\ store'.state = "saved" => Recalls(store.memory)'
    BY <2>1 DEF RecallInv, CopiesInv
  <2>4. ASSUME NEW q \in Threads, pc'[q] = "replace", ~ overtaken'[q]
        PROVE  Recalls(call[q].payload.memory)'
    <3>1. CASE q = t
      BY <1>1, <2>2, <3>1
    <3>2. CASE q # t
      <4>1. pc[q] = "replace" /\ ~ overtaken[q] /\ call'[q] = call[q]
        BY <2>4, <3>2 DEF OthersKept
      <4>2. Recalls(call[q].payload.memory)
        BY <4>1 DEF RecallInv, CopiesInv
      <4> QED
        BY <2>1, <4>1, <4>2 DEF Recalls, After
    <3> QED
      BY <3>1, <3>2
  <2> QED
    BY <2>2, <2>3, <2>4 DEF CopiesInv, OrderInv, Kept
<1> QED
  BY <1>2, <1>3, <1>4, <1>5 DEF RecallInv

LEMMA RecallPrune ==
  ASSUME RecallInv, Types, NEW t \in Threads, PruneMemory(t)
  PROVE  RecallInv'
<1>0. OthersKept(t) /\ chain' = chain /\ chain # 0
  BY OthersAreKept
<1>1. /\ UNCHANGED <<store, built, stale>> /\ pc[t] = "idle" /\ Locked(t)
      /\ later' = InOrder(memory')
  BY DEF PruneMemory
<1>2. ToSet(memory') \subseteq ToSet(memory) /\ acked' = acked \cap ToSet(memory')
  <2>1. PICK size \in Nat :
          \E kept \in [1 .. size -> ToSet(memory)] :
            memory' = kept /\ acked' = acked \cap ToSet(kept)
    BY RepmhlAssumption DEF PruneMemory
  <2>2. PICK kept \in [1 .. size -> ToSet(memory)] :
          memory' = kept /\ acked' = acked \cap ToSet(kept)
    BY <2>1
  <2> QED
    BY <2>2 DEF ToSet
<1>3. memory' \in Seq(Nat)
  BY ObjectStep DEF Next, ObjectTypes
<1>4. /\ later' \subseteq (1 .. built) \X (1 .. built)
      /\ \A i, j \in 1 .. Len(memory') : i > j => <<memory'[i], memory'[j]>> \in later'
  BY <1>1, <1>2, <1>3, Orders DEF RecallInv, NumberInv
<1>5. NumberInv'
  <2>1. call'[t].turn = call[t].turn /\ call'[t].payload.memory = memory'
    BY <1>1, NewLocals
  <2> QED
    BY <1>0, <1>1, <1>2, <1>4, <2>1 DEF RecallInv, NumberInv, OthersKept
<1>6. OrderInv' /\ Kept(memory)'
  BY <1>2, <1>4 DEF OrderInv, Kept
<1> QED
  BY <1>0, <1>1, <1>2, <1>5, <1>6, RecallLocked

LEMMA RecallSession ==
  ASSUME RecallInv, Types, NEW t \in Threads, Session(t)
  PROVE  RecallInv'
<1>0. OthersKept(t) /\ chain' = chain /\ chain # 0
  BY OthersAreKept
<1>1. UNCHANGED <<store, built, stale, memory, acked, later>> /\ pc[t] = "idle" /\ Locked(t)
  BY DEF Session
<1>2. NumberInv'
  <2>1. call'[t].turn = call[t].turn /\ call'[t].payload.memory = memory'
    BY <1>1, NewLocals
  <2> QED
    BY <1>0, <1>1, <2>1 DEF RecallInv, NumberInv, OthersKept
<1>3. OrderInv' /\ Kept(memory)'
  BY <1>0, <1>1 DEF RecallInv, OrderInv, CopiesInv, Kept, After
<1> QED
  BY <1>0, <1>1, <1>2, <1>3, RecallLocked

LEMMA RecallLoad ==
  ASSUME RecallInv, Types, NEW c \in Chains, Load(c)
  PROVE  RecallInv'
<1>0. /\ UNCHANGED <<lock, pc, call, built, overtaken>> /\ chain = 0
      /\ later' = InOrder(memory')
      /\ lock = Free /\ \A t \in Threads : pc[t] = "idle"
  BY DEF Load, threadVars, Types, RunTypes
<1>1. \/ /\ UNCHANGED store /\ memory' = store.memory
         /\ acked' = IF stale THEN acked \cap ToSet(store.memory) ELSE acked
         /\ store.state \in {"saved", "absent"}
      \/ memory' = <<>> /\ acked' = {} /\ store' = Defaults("absent")
  BY DEF Load, Loads
<1>2. ToSet(<<>>) = {} /\ Defaults("absent").memory = <<>>
  BY DEF ToSet, Defaults
<1>3. /\ memory' \in Seq(Nat) /\ ToSet(memory') \subseteq 1 .. built /\ acked' \subseteq 1 .. built
      /\ ToSet(store'.memory) \subseteq 1 .. built
  <2>1. memory' \in Seq(Nat)
    BY ObjectStep DEF Next, ObjectTypes
  <2> QED
    BY <1>1, <1>2, <2>1 DEF RecallInv, NumberInv
<1>4. /\ later' \subseteq (1 .. built) \X (1 .. built)
      /\ \A i, j \in 1 .. Len(memory') : i > j => <<memory'[i], memory'[j]>> \in later'
      /\ \A y \in ToSet(memory') : \A x \in (1 .. built) \ ToSet(memory') : <<y, x>> \in later'
  BY <1>0, <1>3, Orders DEF RecallInv
<1>5. NumberInv'
  BY <1>0, <1>3, <1>4 DEF RecallInv, NumberInv
<1>6. NewInv' /\ HolderInv'
  BY <1>0, RepmhlAssumption DEF RecallInv, NewInv, HolderInv
<1>7. OrderInv'
  BY <1>3, <1>4 DEF OrderInv, After
<1>8. StateInv'
  BY <1>0, <1>1 DEF RecallInv, StateInv
<1>9. CopiesInv'
  <2>1. Kept(memory)'
    <3>1. CASE stale /\ memory' = store.memory /\ acked' = acked \cap ToSet(store.memory)
      BY <3>1 DEF Kept
    <3>2. CASE ~ stale /\ memory' = store.memory /\ acked' = acked
               /\ store.state \in {"saved", "absent"}
      BY <3>2 DEF RecallInv, StateInv, CopiesInv, Recalls, Kept
    <3>3. CASE acked' = {}
      BY <3>3 DEF Kept
    <3> QED
      BY <1>1, <3>1, <3>2, <3>3
  <2>2. store'.state = "saved" => memory' = store'.memory
    BY <1>1 DEF Defaults
  <2>3. Recalls(memory)'
    BY <1>7, <2>1 DEF OrderInv, Kept, Recalls
  <2> QED
    BY <1>0, <2>1, <2>2, <2>3 DEF CopiesInv, Recalls, After
<1> QED
  BY <1>5, <1>6, <1>7, <1>8, <1>9 DEF RecallInv

LEMMA RecallCrash ==
  ASSUME RecallInv, Types, Crash
  PROVE  RecallInv'
<1>1. /\ UNCHANGED <<store, built, acked, later, stale>> /\ chain' = 0 /\ memory' = <<>>
      /\ lock' = Free /\ Free \notin Threads
      /\ \A t \in Threads : pc'[t] = "idle" /\ call'[t] = NoCall
  BY RepmhlAssumption DEF Crash
<1>2. ToSet(<<>>) = {} /\ NoCall.payload.memory = <<>> /\ NoCall.turn = 0
  BY DEF ToSet, NoCall, Call, Defaults
<1>3. NumberInv' /\ NewInv' /\ HolderInv'
  BY <1>1, <1>2 DEF RecallInv, NumberInv, NewInv, HolderInv
<1>4. OrderInv'
  BY <1>1, <1>2 DEF OrderInv, After
<1>5. StateInv'
  BY <1>1 DEF RecallInv, StateInv
<1>6. CopiesInv'
  BY <1>1, <1>2 DEF RecallInv, CopiesInv, Recalls, After
<1> QED
  BY <1>3, <1>4, <1>5, <1>6 DEF RecallInv

LEMMA RecallDamage ==
  ASSUME RecallInv, Types, Damage
  PROVE  RecallInv'
<1>1. /\ UNCHANGED <<chain, memory, lock, pc, call, built, acked, later, overtaken, stale>>
      /\ chain = 0 /\ \A t \in Threads : pc[t] = "idle"
  BY DEF Damage, stateVars, threadVars, Types, RunTypes
<1>2. store'.state \in {"garbled", "misfit"} /\ store'.memory \in {<<>>, store.memory}
  <2>1. store \in Store
    BY DEF Types, StoreTypes
  <2> QED
    BY <2>1 DEF Damage, Defaults, Store
<1>3. ToSet(<<>>) = {}
  BY DEF ToSet
<1>4. NumberInv' /\ NewInv' /\ HolderInv'
  BY <1>1, <1>2, <1>3 DEF RecallInv, NumberInv, NewInv, HolderInv
<1>5. OrderInv' /\ StateInv'
  BY <1>1, <1>2 DEF RecallInv, OrderInv, StateInv, After
<1>6. CopiesInv'
  BY <1>1, <1>2 DEF RecallInv, CopiesInv
<1> QED
  BY <1>4, <1>5, <1>6 DEF RecallInv

LEMMA RecallInit == Init => RecallInv
<1> SUFFICES ASSUME Init PROVE RecallInv
  OBVIOUS
<1>1. ToSet(<<>>) = {} /\ NoCall.payload.memory = <<>> /\ NoCall.turn = 0
      /\ Defaults("absent").memory = <<>> /\ Defaults("absent").state = "absent"
  BY DEF ToSet, NoCall, Call, Defaults
<1>2. NumberInv /\ NewInv /\ HolderInv
  BY <1>1, RepmhlAssumption DEF Init, NumberInv, NewInv, HolderInv
<1>3. OrderInv /\ StateInv /\ CopiesInv
  BY <1>1 DEF Init, OrderInv, After, StateInv, CopiesInv
<1> QED
  BY <1>2, <1>3 DEF RecallInv

LEMMA RecallStep == RecallInv /\ Types /\ [Next]_vars => RecallInv'
<1> SUFFICES ASSUME RecallInv, Types, [Next]_vars PROVE RecallInv'
  OBVIOUS
<1>1. ASSUME NEW t \in Threads, Turn(t) PROVE RecallInv'
  BY <1>1, Quiets, RecallQuiet, RecallBuild, RecallAppend, RecallSaveTurns, RecallReplace
<1>2. ASSUME NEW t \in Threads, PruneMemory(t) \/ Session(t) PROVE RecallInv'
  BY <1>2, RecallPrune, RecallSession
<1>3. ASSUME NEW c \in Chains, Load(c) PROVE RecallInv'
  BY <1>3, RecallLoad
<1>4. CASE Crash \/ Damage
  BY <1>4, RecallCrash, RecallDamage
<1>5. CASE UNCHANGED vars
  BY <1>5 DEF vars, stateVars, threadVars, history, RecallInv, NumberInv, NewInv, HolderInv,
     OrderInv, StateInv, CopiesInv, Recalls, Kept, After
<1> QED
  BY <1>1, <1>2, <1>3, <1>4, <1>5 DEF Next

\* A turn whose append has returned is in memory, or as many later ones as are
\* kept, whatever calls overlap, and in the store but for the time between a
\* save that another had overtaken and the next: for any threads, through
\* restarts, prunes, rotations and failed saves (repmhl.py:232-239, 353-364).
THEOREM RecentAreRecalled == Spec => []RecallsRecent
<1>1. RecallInv => RecallsRecent
  BY DEF RecallInv, OrderInv, CopiesInv, Kept, Recalls, After, RecallsRecent, Recalled
<1> QED
  BY <1>1, RecallInit, RecallStep, TypesInvariant, PTL DEF Spec
=============================================================================
