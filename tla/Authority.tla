------------------------------ MODULE Authority ------------------------------
(***************************************************************************)
(* SelfFixerAuthority of selffixerai/authority.py: objects, in one process *)
(* or several, that share a base directory with one identity file, backups *)
(* of the identities before it, and one ledger.  No lock is taken.         *)
(*                                                                         *)
(* A call is a sequence of file operations.  _atomic_write replaces a file *)
(* in one step, after which it may still fail to set the mode; the write   *)
(* to the ledger may be cut short.  Authorizations and expiry times, which only ever     *)
(* refuse a call before it changes anything, are left out.                 *)
(***************************************************************************)
EXTENDS ScarLedger, FiniteSets

CONSTANTS
  Objects,    \* SelfFixerAuthority instances on one base directory
  Identities, \* key ids that generate_identity may return
  None,       \* no identity
  MaxLines,   \* bound: no call begins on a ledger of this length
  MaxFaults   \* bound: crashes and failed writes

ASSUME AuthorityAssumption ==
  /\ None \notin Identities
  /\ IsFiniteSet(Objects)
  /\ MaxLines \in Nat /\ MaxFaults \in Nat

VARIABLES
  identity_file, \* keys/identity.json
  backups,       \* the identities in backups/
  identity,      \* self.identity of each object
  pc,            \* where each object's call is; "down": not constructed
  call,          \* its locals: [body, old, lines, outcome]
  generated,     \* history: identities generated
  returned,      \* history: leases that issue_capability returned
  overtaken,     \* history: the ledger changed under the call of this object
  raced,         \* history: a call so overtaken has written to the ledger
  forked,        \* history: an identity was replaced that its replacer did not hold
  faults         \* history: how many of the MaxFaults have happened

fileVars   == <<scar, identity_file, backups>>
objectVars == <<identity, pc, call>>
history    == <<generated, returned, overtaken, raced, forked, faults>>
vars == <<fileVars, objectVars, history>>

-----------------------------------------------------------------------------
Body(event_type, key_id, lease) ==
  [event_type |-> event_type, key_id |-> key_id, lease |-> lease]

Genesis(new)  == Body("IDENTITY_GENESIS", new, 0)
Rotation(new) == Body("KEY_ROTATION", new, 0)

\* The lease of issue_capability: who signs it, and the sequence it names.
Lease(key_id, sequence) == Body("CAPABILITY_ALLOW", key_id, sequence)

Call(body, old, lines, outcome) ==
  [body |-> body, old |-> old, lines |-> lines, outcome |-> outcome]

NoCall == Call(NoBody, None, <<>>, "none")

Init ==
  /\ scar = EmptyLedger
  /\ identity_file = None /\ backups = {}
  /\ identity = [o \in Objects |-> None]
  /\ pc = [o \in Objects |-> "down"]
  /\ call = [o \in Objects |-> NoCall]
  /\ generated = {} /\ returned = {}
  /\ overtaken = [o \in Objects |-> FALSE]
  /\ raced = FALSE /\ forked = FALSE
  /\ faults = 0

Idle(o) == pc[o] \in {"down", "ready"}

At(o, step) == pc' = [pc EXCEPT ![o] = step]

\* A call that may get as far as the ledger begins.
Begin(o, body) ==
  /\ Len(scar.lines) < MaxLines
  /\ call' = [call EXCEPT ![o] = Call(body, identity[o], <<>>, "none")]
  /\ overtaken' = [overtaken EXCEPT ![o] = FALSE]

\* A call has ended: what it was, and how.
Done(o, outcome) ==
  call' = [call EXCEPT ![o] = Call(call[o].body, call[o].old, <<>>, outcome)]

\* The call ends by an exception; a constructor that raises leaves no object.
Raise(o) ==
  /\ At(o, IF call[o].body.event_type = "IDENTITY_GENESIS" THEN "down" ELSE "ready")
  /\ Done(o, "raised")

\* os.replace puts the new identity in the place of the one the call read.
ReplaceFile(o) ==
  /\ identity_file' = call[o].body.key_id
  /\ forked' = (forked \/ identity_file # IF pc[o] = "create" THEN None ELSE call[o].old)

Generate(new) == new \in Identities \ generated /\ generated' = generated \cup {new}

-----------------------------------------------------------------------------
(* The constructor: _load_or_create_identity.                              *)

\* Mutant of LoadIdentity: what was read is not kept in self.identity.
LoadIdentityUnset(o) ==
  /\ pc[o] = "down" /\ identity_file # None
  /\ call' = [call EXCEPT ![o] = NoCall]
  /\ At(o, "ready")
  /\ UNCHANGED <<fileVars, identity, history>>

LoadIdentity(o) ==
  /\ pc[o] = "down" /\ identity_file # None
  /\ identity' = [identity EXCEPT ![o] = identity_file]
  /\ call' = [call EXCEPT ![o] = NoCall]
  /\ At(o, "ready")
  /\ UNCHANGED <<fileVars, history>>

\* identity_path does not exist: an identity is generated for it.
CreateIdentity(o) ==
  /\ pc[o] = "down" /\ identity_file = None
  /\ \E new \in Identities : Generate(new) /\ Begin(o, Genesis(new))
  /\ At(o, "create")
  /\ UNCHANGED <<fileVars, identity, returned, raced, forked, faults>>

\* Mutant of StoreIdentity: the genesis is not recorded.
StoreIdentityOnly(o) ==
  /\ pc[o] = "create"
  /\ ReplaceFile(o)
  /\ identity' = [identity EXCEPT ![o] = call[o].body.key_id]
  /\ At(o, "ready")
  /\ UNCHANGED <<scar, backups, call, generated, returned, overtaken, raced, faults>>

StoreIdentity(o) ==
  /\ pc[o] = "create"
  /\ ReplaceFile(o)
  /\ At(o, "verify")
  /\ UNCHANGED <<scar, backups, identity, call, generated, returned, overtaken, raced, faults>>

-----------------------------------------------------------------------------
(* rotate.                                                                 *)

\* Mutant of BeginRotate: the identity in use is not backed up.
BeginRotateUnsaved(o) ==
  /\ pc[o] = "ready"
  /\ \E new \in Identities : Generate(new) /\ Begin(o, Rotation(new))
  /\ At(o, "replace")
  /\ UNCHANGED <<fileVars, identity, returned, raced, forked, faults>>

\* The identity in memory is backed up, and a new one generated.
BeginRotate(o) ==
  /\ pc[o] = "ready"
  /\ backups' = backups \cup {identity[o]}
  /\ \E new \in Identities : Generate(new) /\ Begin(o, Rotation(new))
  /\ At(o, "replace")
  /\ UNCHANGED <<scar, identity_file, identity, returned, raced, forked, faults>>

\* The file, then self.identity, then the ledger.
ReplaceIdentity(o) ==
  /\ pc[o] = "replace"
  /\ ReplaceFile(o)
  /\ identity' = [identity EXCEPT ![o] = call[o].body.key_id]
  /\ At(o, "verify")
  /\ UNCHANGED <<scar, backups, call, generated, returned, overtaken, raced, faults>>

-----------------------------------------------------------------------------
(* issue_capability.                                                       *)

\* The lease names the sequence its event will have if nobody comes between.
\* A ledger that does not parse ends the call here, and nothing has changed.
BeginIssue(o) ==
  /\ pc[o] = "ready"
  /\ Parses(scar.lines)
  /\ Begin(o, Lease(identity[o], Len(scar.lines) + 1))
  /\ At(o, "verify")
  /\ UNCHANGED <<fileVars, identity, generated, returned, raced, forked, faults>>

-----------------------------------------------------------------------------
(* SCARLedger.append, the tail of all three calls.                         *)

Verify(o) ==
  /\ pc[o] = "verify"
  /\ IF Verifies(scar.lines) THEN At(o, "events") /\ UNCHANGED call ELSE Raise(o)
  /\ UNCHANGED <<fileVars, identity, history>>

ReadEvents(o) ==
  /\ pc[o] = "events"
  /\ IF Parses(scar.lines)
       THEN call' = [call EXCEPT ![o].lines = scar.lines] /\ At(o, "write")
       ELSE Raise(o)
  /\ UNCHANGED <<fileVars, identity, history>>

\* Mutant of Event: the sequence is the number of events.
EventUncounted(o) ==
  [NextEvent(call[o].lines, call[o].body) EXCEPT !.sequence = Len(call[o].lines)]

Event(o) == NextEvent(call[o].lines, call[o].body)

\* Every other call in progress has now read, or will read, a ledger that this
\* one has changed.
Overtake(o) ==
  /\ overtaken' = [q \in Objects |-> overtaken[q] \/ (q # o /\ ~ Idle(q))]
  /\ raced' = (raced \/ overtaken[o])

\* What the caller is given once its event is in the ledger.
Return(o) ==
  /\ At(o, "ready")
  /\ Done(o, "returned")
  /\ identity' = IF call[o].body.event_type = "IDENTITY_GENESIS"
                   THEN [identity EXCEPT ![o] = call[o].body.key_id] ELSE identity
  /\ returned' = IF call[o].body.event_type = "CAPABILITY_ALLOW"
                   THEN returned \cup {call[o].body} ELSE returned

WriteEvent(o) ==
  /\ pc[o] = "write"
  /\ scar' = Written(Event(o), TRUE)
  /\ Overtake(o)
  /\ Return(o)
  /\ UNCHANGED <<identity_file, backups, generated, forked, faults>>

\* Mutant of WriteFails: the exception is swallowed.
WriteFailsQuietly(o) ==
  /\ pc[o] = "write"
  /\ faults < MaxFaults
  /\ faults' = faults + 1
  /\ scar' \in CutShort(Event(o))
  /\ Overtake(o)
  /\ Return(o)
  /\ UNCHANGED <<identity_file, backups, generated, forked>>

\* The write to the ledger raises an OSError.
WriteFails(o) ==
  /\ pc[o] = "write"
  /\ faults < MaxFaults
  /\ faults' = faults + 1
  /\ scar' \in CutShort(Event(o))
  /\ Overtake(o)
  /\ Raise(o)
  /\ UNCHANGED <<identity_file, backups, identity, generated, returned, forked>>

\* An atomic write raises: its file is what it was, or, when it is os.chmod
\* that raises, already the new one, of which self.identity knows nothing.
StoreFails(o) ==
  /\ pc[o] \in {"create", "replace"}
  /\ faults < MaxFaults
  /\ faults' = faults + 1
  /\ UNCHANGED <<identity_file, forked>> \/ ReplaceFile(o)
  /\ Raise(o)
  /\ UNCHANGED <<scar, backups, identity, generated, returned, overtaken, raced>>

\* The process ends, in the middle of a write to the ledger or elsewhere.
Crash(o) ==
  /\ pc[o] # "down"
  /\ faults < MaxFaults
  /\ faults' = faults + 1
  /\ \/ UNCHANGED <<scar, overtaken, raced>>
     \/ pc[o] = "write" /\ scar' \in CutShort(Event(o)) /\ Overtake(o)
  /\ identity' = [identity EXCEPT ![o] = None]
  /\ call' = [call EXCEPT ![o] = NoCall]
  /\ At(o, "down")
  /\ UNCHANGED <<identity_file, backups, generated, returned, forked>>

Step(o) ==
  \/ LoadIdentity(o) \/ CreateIdentity(o) \/ StoreIdentity(o)
  \/ BeginRotate(o) \/ ReplaceIdentity(o) \/ BeginIssue(o)
  \/ Verify(o) \/ ReadEvents(o) \/ WriteEvent(o)
  \/ WriteFails(o) \/ StoreFails(o) \/ Crash(o)

Next == \E o \in Objects : Step(o)

Spec == Init /\ [][Next]_vars

\* verify_capability of a lease that has not expired.
VerifyCapability(o, lease) ==
  /\ lease.key_id = identity[o]
  /\ lease.lease <= Len(scar.lines)
  /\ Verifies(scar.lines)

-----------------------------------------------------------------------------
(* Properties.                                                             *)

Bodies == [event_type : {"IDENTITY_GENESIS", "KEY_ROTATION", "CAPABILITY_ALLOW"},
           key_id : Identities, lease : Nat]
Line == [state : {"event", "cut"}, sequence : Nat,
         previous_event_hash : Seq(Nat \X Bodies), body : Bodies \cup {NoBody}]

\* Types: the files, the objects and the locals of their calls have the shapes
\* authority.py:56-214 gives them.
TypeOK ==
  /\ scar \in [lines : Seq(Line), terminated : BOOLEAN]
  /\ identity_file \in Identities \cup {None} /\ backups \subseteq Identities
  /\ identity \in [Objects -> Identities \cup {None}]
  /\ pc \in [Objects -> {"down", "ready", "create", "replace", "verify", "events", "write"}]
  /\ call \in [Objects -> [body : Bodies \cup {NoBody}, old : Identities \cup {None},
                           lines : Seq(Line), outcome : {"none", "returned", "raised"}]]
  /\ generated \subseteq Identities /\ returned \subseteq Bodies
  /\ overtaken \in [Objects -> BOOLEAN] /\ raced \in BOOLEAN /\ forked \in BOOLEAN
  /\ faults \in Nat

\* As long as no call wrote to a ledger that had changed under it, the lines
\* that parse form one chain from genesis, through crashes, failed and torn
\* writes, and every lease names the sequence of its own event ("chained to a
\* ledger sequence", authority.py:4, 69-101, 203).
LedgerChained ==
  ~ raced =>
    \A i \in 1 .. Len(scar.lines) :
      scar.lines[i].state = "event" =>
        /\ InChain(scar.lines, i)
        /\ i > 1 => scar.lines[i - 1].state = "event"
        /\ scar.lines[i].body.event_type = "CAPABILITY_ALLOW" => scar.lines[i].body.lease = i

\* A ledger that does not verify is not written to again, except by the calls
\* that had verified it before it went bad: one at most for each other object
\* (authority.py:86).
FailsClosed ==
  \A i \in 1 .. Len(scar.lines) :
    ~ InChain(scar.lines, i) => Len(scar.lines) - i < Cardinality(Objects)

\* A lease that was returned is in the ledger, and every object that holds the
\* identity that signed it accepts it, unless calls raced or a line was cut
\* (authority.py:211-230).
LeasesHonoured ==
  ~ raced /\ Parses(scar.lines) =>
    \A lease \in returned :
      /\ \E i \in 1 .. Len(scar.lines) : scar.lines[i].body = lease
      /\ \A o \in Objects : identity[o] = lease.key_id => VerifyCapability(o, lease)

\* An identity that signed what the ledger holds is never lost: it is in use or
\* backed up, whatever crash comes between the steps of a rotation
\* (authority.py:163-166).
SignersKept ==
  ~ forked =>
    \A i \in 1 .. Len(scar.lines) :
      scar.lines[i].state = "event" => scar.lines[i].body.key_id \in backups \cup {identity_file}

Identified(i) == scar.lines[i].body.event_type \in {"IDENTITY_GENESIS", "KEY_ROTATION"}

\* Between calls, when nothing failed or raced, the identity in use is the one
\* the ledger's last genesis or rotation names (authority.py:132-134, 166-176).
IdentityOnRecord ==
  faults = 0 /\ ~ raced /\ (\A o \in Objects : Idle(o)) /\ identity_file # None =>
    \E i \in 1 .. Len(scar.lines) :
      /\ Identified(i) /\ scar.lines[i].body.key_id = identity_file
      /\ \A j \in i + 1 .. Len(scar.lines) : ~ Identified(j)

\* "with pytest.raises(AuthorityError): authority.rotate(...); assert
\* authority.identity["key_id"] == old_id" (tests/test_pqc_authority.py:72-75):
\* a rotation that raises leaves the object with the identity it had.
RotationAllOrNothing ==
  \A o \in Objects :
    call[o].outcome = "raised" /\ call[o].body.event_type = "KEY_ROTATION"
      => identity[o] = call[o].old
=============================================================================
