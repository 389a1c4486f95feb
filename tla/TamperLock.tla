----------------------------- MODULE TamperLock -----------------------------
(***************************************************************************)
(* TamperHardLock of selffixerai/security/tamper_lock.py: the signed state *)
(* file that holds the digest of the monitored file, and seal(), which     *)
(* digests the file as it is at that moment, truncates the state file and  *)
(* fills it, and only then remembers the digest for the next seal.         *)
(*                                                                         *)
(* A SHA-256 digest is modelled, collision-free, by the content digested;  *)
(* a missing file digests as an empty one.  The operations constrain only  *)
(* the lock's variables: SelfFixer, which calls them, adds the rest.       *)
(***************************************************************************)
EXTENDS Integers, Sequences

CONSTANTS
  Contents, \* what the monitored file may hold
  Empty,    \* the content of a file that was just created or truncated
  Missing,  \* there is no such file
  Unsealed  \* no digest

ASSUME LockAssumption ==
  /\ Empty \in Contents
  /\ Missing \notin Contents /\ Unsealed \notin Contents

VARIABLES
  target,        \* the monitored file, code_file
  state_file,    \* [state, code_hash, previous_hash]
  previous_hash, \* self._previous_hash
  snapshot       \* [code_hash, previous_hash] of the seal in progress

lockVars == <<state_file, previous_hash, snapshot>>

NoState   == [state |-> "absent", code_hash |-> Unsealed, previous_hash |-> Unsealed]
TornState == [state |-> "torn",   code_hash |-> Unsealed, previous_hash |-> Unsealed]
NoSnapshot == [code_hash |-> Unsealed, previous_hash |-> Unsealed]

LockInit ==
  /\ state_file = NoState
  /\ previous_hash = Unsealed
  /\ snapshot = NoSnapshot

\* Mutant of CurrentHash: a missing file has no digest of its own.
CurrentHashRaw == target

\* _code_bytes, and with it current_hash().
CurrentHash == IF target = Missing THEN Empty ELSE target

\* seal: the digest, and the hash of the seal before it, are taken.
SealRead ==
  /\ snapshot' = [code_hash |-> CurrentHash, previous_hash |-> previous_hash]
  /\ UNCHANGED <<state_file, previous_hash>>

\* Path.write_bytes opens the state file, which truncates it.
SealOpen ==
  /\ state_file' = TornState
  /\ UNCHANGED <<previous_hash, snapshot>>

SealWrite ==
  /\ state_file' = [state |-> "ok", code_hash |-> snapshot.code_hash,
                    previous_hash |-> snapshot.previous_hash]
  /\ previous_hash' = snapshot.code_hash
  /\ snapshot' = NoSnapshot

\* A constructor starts a chain of its own: the state file is not read.
LockForget ==
  /\ previous_hash' = Unsealed
  /\ snapshot' = NoSnapshot
  /\ UNCHANGED state_file

\* verify() on a state file that can be read.
Verified == state_file.state = "ok" /\ state_file.code_hash = CurrentHash

LockTypeOK ==
  /\ target \in Contents \cup {Missing}
  /\ state_file \in [state : {"absent", "torn", "ok"},
                     code_hash : Contents \cup {Unsealed},
                     previous_hash : Contents \cup {Unsealed}]
  /\ previous_hash \in Contents \cup {Unsealed}
  /\ snapshot \in [code_hash : Contents \cup {Unsealed},
                   previous_hash : Contents \cup {Unsealed}]
=============================================================================
