------------------------------- MODULE Repmhl -------------------------------
(***************************************************************************)
(* REPMHL of selffixerai/memory/repmhl.py: one object, the threads that    *)
(* call it, and its store, through crashes, restarts, failed saves and     *)
(* damage to the store from outside.                                       *)
(*                                                                         *)
(* A turn is its timestamp.  _append_turn, prune_memory and the session    *)
(* calls hold the lock while they change and save; what process_turn does  *)
(* before and after _append_turn, it does without.  There a statement that *)
(* reads an attribute, calls and then writes is two steps, and so is the   *)
(* payload of _save: counters, then turns.  os.replace is one step, and a  *)
(* save that fails or is killed leaves the store alone.                    *)
(*                                                                         *)
(* Left out: the learning profile, embeddings and searches.                *)
(***************************************************************************)
EXTENDS Integers, Sequences, FiniteSets, SequencesExt

CONSTANTS
  Threads,
  Free,                    \* no thread
  Tokens,                  \* what callers report for a turn
  base_max_tokens, force_rotation_every, warning_threshold_percent,
  auto_extend_amount, max_turns,
  Chains,                  \* lengths of model_chain a process may be given
  MaxBuilt,                \* bound: no turn begins after so many are built
  MaxCount,                \* bound: no process_turn begins on a higher token_count
  MaxFaults                \* bound: crashes and failed saves

ASSUME RepmhlAssumption ==
  /\ Free \notin Threads /\ IsFiniteSet(Threads)
  /\ Tokens \subseteq Nat /\ Chains \subseteq Nat \ {0}
  /\ base_max_tokens \in Nat /\ force_rotation_every \in Nat
  /\ warning_threshold_percent \in Nat /\ auto_extend_amount \in Nat
  /\ max_turns \in Nat \ {0}
  /\ MaxBuilt \in Nat /\ MaxCount \in Nat /\ MaxFaults \in Nat

VARIABLES
  store,       \* the file: what a save left, "absent", or damaged
  quarantined, \* which stores _load has moved away
  chain,       \* the length of this process's model_chain; 0: no process
  memory, active, current_model_index, token_count, max_tokens,
  lock,        \* who holds it
  pc, call,    \* where each thread's call is, and its locals
  built,       \* history: turns built, and so their latest timestamp
  acked,       \* history: turns whose append returned and that are still promised
  later,       \* history: pairs of turns, of which the first came later in memory
  overtaken,   \* history: another call saved, or failed to, since this one's payload
  stale,       \* history: the store is what an overtaken payload left of it
  behind,      \* history: a save is missing that the next one makes up for
  alone,       \* history: no other process_turn during this thread's
  overlapped,  \* history: two process_turns did overlap
  checked,     \* history: the last process_turn to begin was alone and returned
  faults       \* history: how many of the MaxFaults have happened

stateVars == <<memory, active, current_model_index, token_count, max_tokens>>
threadVars == <<lock, pc, call>>
history == <<built, acked, later, overtaken, stale, behind, alone, overlapped,
             checked, faults>>
vars == <<store, quarantined, chain, stateVars, threadVars, history>>

-----------------------------------------------------------------------------
\* _save's payload: what it saves of the object as it is now.
Snapshot ==
  [state |-> "saved", active |-> active, current_model_index |-> current_model_index,
   token_count |-> token_count, max_tokens |-> max_tokens, memory |-> memory]

\* A store of which nothing is read: the attributes as the constructor set them.
Defaults(state) ==
  [state |-> state, active |-> FALSE, current_model_index |-> 0,
   token_count |-> 0, max_tokens |-> base_max_tokens, memory |-> <<>>]

\* A call at its beginning.
Call(does, tokens, read) ==
  [does |-> does, tokens |-> tokens, read |-> read, turn |-> 0, payload |-> Defaults("absent")]

NoCall == Call("nothing", 0, 0)

Init ==
  /\ store = Defaults("absent") /\ quarantined = {}
  /\ chain = 0
  /\ memory = <<>> /\ active = FALSE
  /\ current_model_index = 0 /\ token_count = 0 /\ max_tokens = base_max_tokens
  /\ lock = Free
  /\ pc = [t \in Threads |-> "idle"] /\ call = [t \in Threads |-> NoCall]
  /\ built = 0 /\ acked = {} /\ later = {}
  /\ overtaken = [t \in Threads |-> FALSE] /\ stale = FALSE /\ behind = TRUE
  /\ alone = [t \in Threads |-> FALSE] /\ overlapped = FALSE /\ checked = FALSE
  /\ faults = 0

At(t, step) == pc' = [pc EXCEPT ![t] = step]

Fault == faults < MaxFaults /\ faults' = faults + 1

\* Mutant of Recent: memory[:max_turns].
RecentFirst(turns) == IF Len(turns) <= max_turns THEN turns ELSE SubSeq(turns, 1, max_turns)

\* memory[-max_turns:]
Recent(turns) ==
  IF Len(turns) <= max_turns THEN turns ELSE SubSeq(turns, Len(turns) - max_turns + 1, Len(turns))

InTurn(t) == call[t].does = "process_turn"

\* The pairs of later, when these turns, in theirs, come after all others.
InOrder(turns) ==
  {p \in (1 .. built) \X (1 .. built) :
     \/ p[2] \notin ToSet(turns) /\ (p[1] \in ToSet(turns) \/ p \in later)
     \/ \E i, j \in 1 .. Len(turns) : i > j /\ p = <<turns[i], turns[j]>>}

\* A payload that another thread has begun may lack what t changed, and is the
\* last to know.
Overtake(t) ==
  overtaken' = [q \in Threads |-> overtaken[q] \/ (q # t /\ pc[q] \in {"saveTurns", "replace"})]

\* The call of t ends by an exception.
Raise(t) ==
  /\ At(t, "idle")
  /\ call' = [call EXCEPT ![t] = NoCall]

-----------------------------------------------------------------------------
(* The constructor: _load, under a configuration of c models.              *)

\* Building a turn from the store looks up the model in use, whether or not
\* the turn names one: an index the chain does not have raises as well.
Loads(c) ==
  /\ store.state = "saved"
  /\ store.memory # <<>> => store.current_model_index < c

\* A store that raises is moved away; what was assigned before it did stays.
\* What an overtaken save has lost for good is promised no longer.
Load(c) ==
  /\ chain = 0 /\ c \in Chains /\ chain' = c
  /\ active' = store.active /\ current_model_index' = store.current_model_index
  /\ token_count' = store.token_count /\ max_tokens' = store.max_tokens
  /\ behind' = ~ Loads(c)
  /\ IF Loads(c) \/ store.state = "absent"
       THEN /\ memory' = store.memory
            /\ acked' = IF stale THEN acked \cap ToSet(store.memory) ELSE acked
            /\ UNCHANGED <<store, quarantined>>
       ELSE /\ memory' = <<>>
            /\ quarantined' = quarantined \cup {store.state}
            /\ store' = Defaults("absent")
            /\ acked' = {}
  /\ stale' = FALSE
  /\ later' = InOrder(memory')
  /\ UNCHANGED <<threadVars, built, overtaken, alone, overlapped, checked, faults>>

-----------------------------------------------------------------------------
(* process_turn up to _append_turn, and add_turn, which begins there.      *)

MayBuild(t) == chain # 0 /\ pc[t] = "idle" /\ built < MaxBuilt

\* A session is active; the first operand of += is read.
Begin(t) ==
  /\ MayBuild(t) /\ active /\ token_count <= MaxCount
  /\ \E n \in Tokens :
       call' = [call EXCEPT ![t] = Call("process_turn", n, token_count)]
  /\ At(t, "add")
  /\ alone' = [q \in Threads |-> IF q = t THEN \A r \in Threads : ~ InTurn(r)
                                          ELSE FALSE]
  /\ overlapped' = (overlapped \/ \E r \in Threads : InTurn(r))
  /\ checked' = FALSE
  /\ UNCHANGED <<store, quarantined, chain, stateVars, lock, built, acked, later,
                 overtaken, stale, behind, faults>>

AddTokens(t) ==
  /\ pc[t] = "add"
  /\ token_count' = call[t].read + call[t].tokens
  /\ call' = [call EXCEPT ![t] = Call("process_turn", 0, 0)]
  /\ At(t, "build")
  /\ UNCHANGED <<store, quarantined, chain, memory, active, current_model_index,
                 max_tokens, lock, history>>

AddTurn(t) ==
  /\ MayBuild(t)
  /\ call' = [call EXCEPT ![t] = Call("add_turn", 0, 0)]
  /\ At(t, "build")
  /\ UNCHANGED <<store, quarantined, chain, stateVars, lock, history>>

\* The turn, stamped before the lock is taken.
BuildTurn(t) ==
  /\ pc[t] = "build" /\ current_model_index < chain
  /\ built' = built + 1
  /\ call' = [call EXCEPT ![t].turn = built + 1]
  /\ At(t, "append")
  /\ UNCHANGED <<store, quarantined, chain, stateVars, lock, acked, later, overtaken,
                 stale, behind, alone, overlapped, checked, faults>>

\* _current_model raises: the chain has no such index.
BuildRaises(t) ==
  /\ pc[t] = "build" /\ current_model_index >= chain
  /\ Raise(t)
  /\ behind' = (behind \/ InTurn(t))
  /\ Overtake(t)
  /\ UNCHANGED <<store, quarantined, chain, stateVars, lock, built, acked, later, stale,
                 alone, overlapped, checked, faults>>

-----------------------------------------------------------------------------
(* Calls that change and save under the lock.                              *)

\* t takes the lock, and the payload of its save is what the step made.
Locked(t) ==
  /\ lock = Free /\ lock' = t
  /\ call' = [call EXCEPT ![t].payload = Snapshot']
  /\ overtaken' = [overtaken EXCEPT ![t] = FALSE]
  /\ At(t, "replace")

\* Mutant of AppendTurn: the list is not cut.
AppendUncut(t) ==
  /\ pc[t] = "append"
  /\ memory' = Append(memory, call[t].turn)
  /\ later' = InOrder(<<call[t].turn>>)
  /\ UNCHANGED <<active, current_model_index, token_count, max_tokens>>
  /\ Locked(t)
  /\ UNCHANGED <<store, quarantined, chain, built, acked, stale, behind, alone, overlapped,
                 checked, faults>>

AppendTurn(t) ==
  /\ pc[t] = "append"
  /\ memory' = Recent(Append(memory, call[t].turn))
  /\ later' = InOrder(<<call[t].turn>>)
  /\ UNCHANGED <<active, current_model_index, token_count, max_tokens>>
  /\ Locked(t)
  /\ UNCHANGED <<store, quarantined, chain, built, acked, stale, behind, alone, overlapped,
                 checked, faults>>

\* The best n turns, whatever the scores make them, without those that
\* _dedupe_semantic takes for another's duplicates, in the order of their
\* timestamps.
PruneMemory(t) ==
  /\ chain # 0 /\ pc[t] = "idle"
  /\ \E n \in 1 .. max_turns :
       /\ Len(memory) > n
       /\ \E size \in 1 .. n : \E kept \in [1 .. size -> ToSet(memory)] :
            /\ \A i, j \in 1 .. size : i < j => kept[i] < kept[j]
            /\ memory' = kept
            /\ acked' = acked \cap ToSet(kept)
  /\ later' = InOrder(memory')
  /\ UNCHANGED <<active, current_model_index, token_count, max_tokens>>
  /\ Locked(t)
  /\ UNCHANGED <<store, quarantined, chain, built, stale, behind, alone, overlapped,
                 checked, faults>>

\* start_session, end_session and shutdown.
Session(t) ==
  /\ chain # 0 /\ pc[t] = "idle"
  /\ active' \in BOOLEAN
  /\ UNCHANGED <<memory, current_model_index, token_count, max_tokens>>
  /\ Locked(t)
  /\ UNCHANGED <<store, quarantined, chain, built, acked, later, stale, behind, alone,
                 overlapped, checked, faults>>

-----------------------------------------------------------------------------
(* process_turn after _append_turn.                                        *)

\* Mutant of RotationDue: a count at the limit is let through.
RotationAbove == token_count > max_tokens \/ token_count > force_rotation_every

RotationDue == token_count >= max_tokens \/ token_count >= force_rotation_every
Fraction == IF max_tokens > 1 THEN max_tokens ELSE 1
ExtensionDue == ~ RotationDue /\ token_count * 100 >= Fraction * warning_threshold_percent

\* process_turn returns.
Return(t) ==
  /\ At(t, "idle")
  /\ call' = [call EXCEPT ![t] = NoCall]
  /\ checked' = (checked \/ (InTurn(t) /\ alone[t]))

CheckTurn(t) ==
  /\ pc[t] = "check"
  /\ IF RotationDue \/ ExtensionDue
       THEN /\ At(t, IF RotationDue THEN "rotate" ELSE "extend")
            /\ UNCHANGED <<call, checked>>
       ELSE Return(t)
  /\ UNCHANGED <<store, quarantined, chain, stateVars, lock, built, acked, later,
                 overtaken, stale, behind, alone, overlapped, faults>>

\* The operand is read that the next step adds to.
Read(t, step, value, next) ==
  /\ pc[t] = step
  /\ call' = [call EXCEPT ![t].read = value]
  /\ At(t, next)
  /\ UNCHANGED <<store, quarantined, chain, stateVars, lock, history>>

ReadIndex(t)  == Read(t, "rotate", current_model_index, "writeIndex")
ReadBudget(t) == Read(t, "extend", max_tokens, "writeBudget")

WriteIndex(t) ==
  /\ pc[t] = "writeIndex"
  /\ current_model_index' = (call[t].read + 1) % chain
  /\ At(t, "reset")
  /\ UNCHANGED <<store, quarantined, chain, memory, active, token_count, max_tokens,
                 lock, call, history>>

ResetTokens(t) ==
  /\ pc[t] = "reset"
  /\ token_count' = 0
  /\ At(t, "resetBudget")
  /\ UNCHANGED <<store, quarantined, chain, memory, active, current_model_index,
                 max_tokens, lock, call, history>>

\* Mutant of SetBudget: the new budget is not saved.
SetBudgetUnsaved(t) ==
  /\ pc[t] \in {"resetBudget", "writeBudget"}
  /\ max_tokens' = IF pc[t] = "resetBudget" THEN base_max_tokens
                                            ELSE call[t].read + auto_extend_amount
  /\ Return(t)
  /\ UNCHANGED <<store, quarantined, chain, memory, active, current_model_index,
                 token_count, lock, built, acked, later, overtaken, stale, behind,
                 alone, overlapped, faults>>

\* The base again after a rotation, or an extension; then the save.
SetBudget(t) ==
  /\ pc[t] \in {"resetBudget", "writeBudget"}
  /\ max_tokens' = IF pc[t] = "resetBudget" THEN base_max_tokens
                                            ELSE call[t].read + auto_extend_amount
  /\ At(t, "save")
  /\ UNCHANGED <<store, quarantined, chain, memory, active, current_model_index,
                 token_count, lock, call, history>>

\* The counters of an unlocked payload ...
SaveCounters(t) ==
  /\ pc[t] = "save"
  /\ call' = [call EXCEPT ![t].payload = Snapshot]
  /\ overtaken' = [overtaken EXCEPT ![t] = FALSE]
  /\ At(t, "saveTurns")
  /\ UNCHANGED <<store, quarantined, chain, stateVars, lock, built, acked, later,
                 stale, behind, alone, overlapped, checked, faults>>

\* ... and its turns.
SaveTurns(t) ==
  /\ pc[t] = "saveTurns"
  /\ call' = [call EXCEPT ![t].payload = [call[t].payload EXCEPT !.memory = memory]]
  /\ At(t, "replace")
  /\ UNCHANGED <<store, quarantined, chain, stateVars, lock, history>>

-----------------------------------------------------------------------------
(* _atomic_write_json.                                                     *)

Release(t) == lock' = IF lock = t THEN Free ELSE lock

\* After the save: on with process_turn, or back to the caller.
Continue(t) ==
  IF lock = t /\ InTurn(t)
    THEN At(t, "check") /\ UNCHANGED <<call, checked>>
    ELSE Return(t)

\* An overtaken payload may lack turns the store had, unless its thread has
\* kept the lock, and with it memory as it is.
Replace(t) ==
  /\ pc[t] = "replace"
  /\ store' = call[t].payload
  /\ Overtake(t)
  /\ stale' = (overtaken[t] /\ lock # t)
  /\ behind' = overtaken[t]
  /\ acked' = acked \cup (IF lock = t /\ call[t].turn # 0 THEN {call[t].turn} ELSE {})
  /\ Release(t)
  /\ Continue(t)
  /\ UNCHANGED <<quarantined, chain, stateVars, built, later, alone, overlapped, faults>>

SaveFails(t) ==
  /\ pc[t] = "replace"
  /\ Fault
  /\ behind' = TRUE
  /\ Overtake(t)
  /\ Release(t)
  /\ Raise(t)
  /\ UNCHANGED <<store, quarantined, chain, stateVars, built, acked, later, stale, alone,
                 overlapped, checked>>

-----------------------------------------------------------------------------
\* The process ends, anywhere.
Crash ==
  /\ chain # 0 /\ Fault
  /\ chain' = 0
  /\ memory' = <<>> /\ active' = FALSE
  /\ current_model_index' = 0 /\ token_count' = 0 /\ max_tokens' = base_max_tokens
  /\ lock' = Free
  /\ pc' = [t \in Threads |-> "idle"] /\ call' = [t \in Threads |-> NoCall]
  /\ overtaken' = [t \in Threads |-> FALSE]
  /\ alone' = [t \in Threads |-> FALSE] /\ checked' = FALSE
  /\ UNCHANGED <<store, quarantined, built, acked, later, stale, behind, overlapped>>

\* Something else spoils the file between two processes (the next save would
\* mend it under a running one): it is not JSON, or one of its turns is not a
\* turn.
Damage ==
  /\ chain = 0 /\ store.state = "saved"
  /\ store' \in {Defaults("garbled"), [store EXCEPT !.state = "misfit"]}
  /\ behind' = TRUE
  /\ UNCHANGED <<quarantined, chain, stateVars, threadVars, built, acked, later,
                 overtaken, stale, alone, overlapped, checked, faults>>

Turn(t) ==
  \/ Begin(t) \/ AddTokens(t) \/ AddTurn(t) \/ BuildTurn(t) \/ BuildRaises(t)
  \/ AppendTurn(t) \/ CheckTurn(t)
  \/ ReadIndex(t) \/ WriteIndex(t) \/ ResetTokens(t)
  \/ ReadBudget(t) \/ SetBudget(t)
  \/ SaveCounters(t) \/ SaveTurns(t) \/ Replace(t) \/ SaveFails(t)

Next ==
  \/ \E c \in Chains : Load(c)
  \/ \E t \in Threads : Turn(t) \/ PruneMemory(t) \/ Session(t)
  \/ Crash \/ Damage

Spec == Init /\ [][Next]_vars

-----------------------------------------------------------------------------
(* Properties.                                                             *)

Store == [state : {"absent", "saved", "garbled", "misfit"}, active : BOOLEAN,
          current_model_index : Nat, token_count : Nat, max_tokens : Nat,
          memory : Seq(Nat)]

\* Types: the attributes, the store and the locals of the calls have the
\* shapes repmhl.py:97-107 and 354-363 give them, and no more turns are in
\* memory than are to be kept.
TypeOK ==
  /\ store \in Store /\ quarantined \subseteq {"saved", "garbled", "misfit"}
  /\ chain \in Chains \cup {0}
  /\ memory \in Seq(Nat) /\ Len(memory) <= max_turns
  /\ active \in BOOLEAN /\ current_model_index \in Nat
  /\ token_count \in Nat /\ max_tokens \in Nat
  /\ lock \in Threads \cup {Free}
  /\ pc \in [Threads -> {"idle", "add", "build", "append", "check", "rotate", "writeIndex",
                         "reset", "resetBudget", "extend", "writeBudget", "save",
                         "saveTurns", "replace"}]
  /\ call \in [Threads -> [does : {"nothing", "process_turn", "add_turn"}, tokens : Nat,
                           read : Nat, turn : Nat, payload : Store]]
  /\ built \in Nat /\ acked \subseteq Nat /\ later \subseteq Nat \X Nat
  /\ overtaken \in [Threads -> BOOLEAN] /\ stale \in BOOLEAN /\ behind \in BOOLEAN
  /\ alone \in [Threads -> BOOLEAN] /\ overlapped \in BOOLEAN /\ checked \in BOOLEAN
  /\ faults \in Nat

\* Between calls the store is the object: every path that changes what is
\* saved, in whatever order threads take them, ends in a save of it, unless
\* the last save was overtaken or failed (repmhl.py:143-148, 232-239, 440-444).
StoreCurrent ==
  chain # 0 /\ (\A t \in Threads : pc[t] = "idle") /\ ~ behind => store = Snapshot

\* The turns promised are among these, or max_turns later ones are.
Recalled(turns) ==
  \A x \in acked : \/ x \in ToSet(turns)
                   \/ /\ Len(turns) = max_turns
                      /\ \A y \in ToSet(turns) : <<y, x>> \in later

\* A turn whose append has returned is in memory, or max_turns turns after it
\* are, whatever calls overlap; and so it is in the store, but for the time
\* between a save that another had overtaken and the next: through restarts,
\* prunes and failed saves (repmhl.py:232-239, 353-364).  What a process that
\* ends in that time leaves is all that its successor has to recall.
RecallsRecent ==
  /\ chain # 0 => Recalled(memory)
  /\ ~ stale /\ store.state = "saved" => Recalled(store.memory)

\* A process_turn that no other overlapped leaves the budget in force: the
\* count is below both limits, and as long as none ever overlapped, the limit
\* was only raised while the count justified it (repmhl.py:143-148).
BudgetKept ==
  checked =>
    /\ token_count < max_tokens /\ token_count < force_rotation_every
    /\ ~ overlapped /\ max_tokens > base_max_tokens =>
         (max_tokens - auto_extend_amount) * warning_threshold_percent < 100 * force_rotation_every

\* "memory store was corrupt and has been quarantined" (repmhl.py:380): what
\* _load moves away did not come from a save.
OnlyCorruptQuarantined ==
  "saved" \notin quarantined
=============================================================================
