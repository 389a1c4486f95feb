---------------------------- MODULE BackupManager ----------------------------
(***************************************************************************)
(* One backup directory of selffixerai/core/backup_manager.py, and the     *)
(* service that creates, prunes and restores backups in it, one call at a  *)
(* time, crashing and restarting between any two steps.                    *)
(*                                                                         *)
(* create_backup has two formats.  A path is stored as one *.bak.enc file, *)
(* named after the second it was made in; bytes are stored as a *.blob and *)
(* a *.manifest with its hashes, named after the second and a random       *)
(* token.  write_bytes and write_text truncate a file before filling it:   *)
(* in between, and for good if the call is cut short there, it is "torn".  *)
(***************************************************************************)
EXTENDS Integers, FiniteSets

CONSTANTS
  Contents,   \* what may be backed up
  Garbage,    \* what a file cut short holds
  Raised,     \* the outcome of a restore that raises
  Nothing,    \* no name
  Tokens,     \* values of secrets.token_hex, in the order of their text
  retention,  \* policy.retention_count
  encrypt,    \* policy.encrypt
  MinGap,     \* ticks between the end of a call and the next creation
  TicksPerSecond, \* resolution of st_mtime against that of the names
  MaxTime,    \* bound: the clock stops here
  MaxCreates, \* bound: creations
  MaxFaults   \* bound: calls cut short by a crash or an OSError

Names == [format : {"legacy", "manifest"}, second : Nat, token : Nat]

ASSUME BackupAssumption ==
  /\ Garbage \notin Contents /\ Raised \notin Contents \cup {Garbage}
  /\ Nothing \notin Names
  /\ Tokens \subseteq Nat
  /\ retention \in Nat /\ encrypt \in BOOLEAN
  /\ MinGap \in Nat /\ TicksPerSecond \in Nat \ {0} /\ MaxTime \in Nat
  /\ MaxCreates \in Nat /\ MaxFaults \in Nat

VARIABLES
  files,    \* the *.manifest and *.bak.enc: name -> [mtime, state, content]
  blobs,    \* the *.blob of each manifest: name -> [state, content]
  now,      \* the clock, in ticks of st_mtime
  pc,       \* where the call in progress is
  call,     \* [name, content]: its backup
  victims,  \* the backups its _prune still has to remove
  resting,  \* when the last call ended
  created,  \* history: number of creations begun
  returned, \* history: [count, name] of the creations that returned
  origin,   \* history: name -> contents backed up under it
  cut       \* history: [count, last]: calls cut short, was the last one

callVars == <<pc, call, victims, resting>>
history == <<created, returned, origin, cut>>
vars == <<files, blobs, now, callVars, history>>

-----------------------------------------------------------------------------
Second == now \div TicksPerSecond

LegacyName == [format |-> "legacy", second |-> Second, token |-> 0]
ManifestName(token) == [format |-> "manifest", second |-> Second, token |-> token]

\* A file just opened, and one just filled.
TornFile == [mtime |-> now, state |-> "torn", content |-> Garbage]

\* Mutant of FullFile: what is hashed and stored is read back from the file
\* that was just opened, not from the source: a backup of a truncated file.
FullFileReread == [mtime |-> now, state |-> "ok", content |-> Garbage]

FullFile == [mtime |-> now, state |-> "ok", content |-> call.content]

Put(f, name, v) == [n \in DOMAIN f \cup {name} |-> IF n = name THEN v ELSE f[n]]
Remove(f, name) == [n \in DOMAIN f \ {name} |-> f[n]]

\* list_backups sorts by (st_mtime, name).  "backup_<second>_<token>.manifest"
\* sorts before "<stem>.<second>.bak.enc" for the stems the service uses.
NameBefore(m, n) ==
  IF m.format # n.format THEN m.format = "manifest"
  ELSE \/ m.second < n.second
       \/ m.second = n.second /\ m.token < n.token

\* Mutant of Older: sorted newest first.
OlderReversed(m, n) ==
  \/ files[m].mtime > files[n].mtime
  \/ files[m].mtime = files[n].mtime /\ NameBefore(n, m)

Older(m, n) ==
  \/ files[m].mtime < files[n].mtime
  \/ files[m].mtime = files[n].mtime /\ NameBefore(m, n)

\* Mutants of Excess: one more backup is kept, one fewer is.
ExcessButOne ==
  {n \in DOMAIN files :
     /\ retention > 0
     /\ Cardinality({m \in DOMAIN files : Older(n, m)}) > retention}

ExcessAndOne ==
  {n \in DOMAIN files :
     /\ retention > 0
     /\ Cardinality({m \in DOMAIN files : Older(n, m)}) + 1 >= retention}

\* backups[: max(len(backups) - retention, 0)]; retention 0 keeps everything.
Excess ==
  {n \in DOMAIN files :
     /\ retention > 0
     /\ Cardinality({m \in DOMAIN files : Older(n, m)}) >= retention}

NoCall == [name |-> Nothing, content |-> Garbage]

Init ==
  /\ files = [n \in {} |-> Garbage]
  /\ blobs = [n \in {} |-> Garbage]
  /\ now = MinGap
  /\ pc = "idle" /\ call = NoCall /\ victims = {} /\ resting = 0
  /\ created = 0
  /\ returned = [count |-> 0, name |-> Nothing]
  /\ origin = [n \in {} |-> {}]
  /\ cut = [count |-> 0, last |-> FALSE]

-----------------------------------------------------------------------------
(* create_backup.  The source is read, and encrypted, before any file is   *)
(* opened.                                                                 *)

Start(name, content) ==
  /\ pc = "idle"
  /\ now >= resting + MinGap
  /\ created < MaxCreates
  /\ created' = created + 1
  /\ call' = [name |-> name, content |-> content]
  /\ origin' = Put(origin, name,
       {content} \cup (IF name \in DOMAIN origin THEN origin[name] ELSE {}))

\* A backup stored under the same name is gone as soon as the file is opened.
CreateLegacy(content) ==
  /\ Start(LegacyName, content)
  /\ files' = Put(files, LegacyName, TornFile)
  /\ pc' = "fill"
  /\ UNCHANGED <<blobs, now, victims, resting, returned, cut>>

CreateManifest(token, content) ==
  /\ ManifestName(token) \notin DOMAIN origin
  /\ Start(ManifestName(token), content)
  /\ blobs' = Put(blobs, ManifestName(token), TornFile)
  /\ pc' = "fillBlob"
  /\ UNCHANGED <<files, now, victims, resting, returned, cut>>

FillBlob ==
  /\ pc = "fillBlob"
  /\ blobs' = Put(blobs, call.name, FullFile)
  /\ pc' = "manifest"
  /\ UNCHANGED <<files, now, call, victims, resting, history>>

OpenManifest ==
  /\ pc = "manifest"
  /\ files' = Put(files, call.name, TornFile)
  /\ pc' = "fill"
  /\ UNCHANGED <<blobs, now, call, victims, resting, history>>

Fill ==
  /\ pc = "fill"
  /\ files' = Put(files, call.name, FullFile)
  /\ pc' = "prune"
  /\ UNCHANGED <<blobs, now, call, victims, resting, history>>

\* _prune lists the directory once, then removes the oldest first.
Prune ==
  /\ pc = "prune"
  /\ victims' = Excess
  /\ pc' = "unlink"
  /\ UNCHANGED <<files, blobs, now, call, resting, history>>

\* Mutant of Unlink: the blob goes first.
UnlinkBlobFirst ==
  /\ pc = "unlink"
  /\ \E v \in victims :
       /\ \A other \in victims \ {v} : Older(v, other)
       /\ IF v \in DOMAIN blobs
            THEN blobs' = Remove(blobs, v) /\ UNCHANGED <<files, victims>>
            ELSE files' = Remove(files, v) /\ victims' = victims \ {v} /\ UNCHANGED blobs
  /\ UNCHANGED <<now, pc, call, resting, history>>

\* _remove_backup: a manifest goes before its blob.
Unlink ==
  /\ pc = "unlink"
  /\ \E v \in victims :
       /\ \A other \in victims \ {v} : Older(v, other)
       /\ files' = Remove(files, v)
       /\ IF v.format = "manifest"
            THEN pc' = "unlinkBlob" /\ UNCHANGED victims
            ELSE victims' = victims \ {v} /\ UNCHANGED pc
  /\ UNCHANGED <<blobs, now, call, resting, history>>

\* Mutant of UnlinkBlob: a blob name that does not exist; missing_ok hides it.
UnlinkBlobMisnamed ==
  /\ pc = "unlinkBlob"
  /\ victims' = victims \cap DOMAIN files
  /\ pc' = "unlink"
  /\ UNCHANGED <<files, blobs, now, call, resting, history>>

UnlinkBlob ==
  /\ pc = "unlinkBlob"
  /\ \E v \in victims \ DOMAIN files :
       /\ blobs' = Remove(blobs, v)
       /\ victims' = victims \ {v}
  /\ pc' = "unlink"
  /\ UNCHANGED <<files, now, call, resting, history>>

End ==
  /\ pc' = "idle"
  /\ call' = NoCall
  /\ victims' = {}
  /\ resting' = now

Return ==
  /\ pc = "unlink" /\ victims = {}
  /\ End
  /\ returned' = [count |-> returned.count + 1, name |-> call.name]
  /\ cut' = [cut EXCEPT !.last = FALSE]
  /\ UNCHANGED <<files, blobs, now, created, origin>>

\* A crash, or an OSError that leaves create_backup: files stay as they are.
CutShort ==
  /\ pc # "idle"
  /\ cut.count < MaxFaults
  /\ End
  /\ cut' = [count |-> cut.count + 1, last |-> TRUE]
  /\ UNCHANGED <<files, blobs, now, created, returned, origin>>

Tick ==
  /\ now < MaxTime
  /\ now' = now + 1
  /\ UNCHANGED <<files, blobs, callVars, history>>

Next ==
  \/ \E content \in Contents :
       CreateLegacy(content) \/ \E token \in Tokens : CreateManifest(token, content)
  \/ FillBlob \/ OpenManifest \/ Fill
  \/ Prune \/ Unlink \/ UnlinkBlob
  \/ Return \/ CutShort \/ Tick

Spec == Init /\ [][Next]_vars

-----------------------------------------------------------------------------
(* restore_backup(name), which changes nothing in the directory.           *)

\* The manifest names the hashes of blob and source; an encrypted file that
\* was cut short does not decrypt; a plain legacy file has no check at all.
RestoreManifest(name) ==
  IF /\ files[name].state = "ok"
     /\ name \in DOMAIN blobs
     /\ blobs[name].state = "ok" /\ blobs[name].content = files[name].content
    THEN blobs[name].content ELSE Raised

\* Mutant of RestoreLegacy: decryption does not authenticate.
RestoreLegacyUnchecked(name) == files[name].content

RestoreLegacy(name) ==
  IF files[name].state = "ok" \/ ~ encrypt THEN files[name].content ELSE Raised

RestoreBackup(name) ==
  IF name \notin DOMAIN files THEN Raised
  ELSE IF name.format = "manifest" THEN RestoreManifest(name)
  ELSE RestoreLegacy(name)

-----------------------------------------------------------------------------
(* Properties.                                                             *)

\* A file a restore accepts holds a content that could be backed up.
File == [mtime : Nat, state : {"torn"}, content : {Garbage}]
          \cup [mtime : Nat, state : {"ok"}, content : Contents]

\* Types: names, files and the locals of a call have the shapes that
\* backup_manager.py:118-167 gives them, and only a file cut short holds garbage.
TypeOK ==
  /\ DOMAIN files \subseteq Names /\ \A n \in DOMAIN files : files[n] \in File
  /\ DOMAIN blobs \subseteq Names /\ \A n \in DOMAIN blobs : blobs[n] \in File
  /\ now \in Nat /\ resting \in Nat /\ created \in Nat
  /\ pc \in {"idle", "fillBlob", "manifest", "fill", "prune", "unlink", "unlinkBlob"}
  /\ call \in [name : Names \cup {Nothing}, content : Contents \cup {Garbage}]
  /\ victims \subseteq Names
  /\ returned \in [count : Nat, name : Names \cup {Nothing}]
  /\ DOMAIN origin \subseteq Names
  /\ \A n \in DOMAIN origin : origin[n] \subseteq Contents
  /\ cut \in [count : Nat, last : BOOLEAN]

\* A manifest that can be read is never without its blob: the blob is written
\* first and removed last, whatever call is cut short where
\* (backup_manager.py:135-136, 151-152, 205-208).
ManifestHasBlob ==
  \A n \in DOMAIN files :
    n.format = "manifest" /\ files[n].state = "ok" => RestoreManifest(n) # Raised

\* A restore gives back what was backed up under that name, or raises: never
\* the content of a file cut short, nor another backup's.  A legacy file that
\* is not encrypted carries no check and is excluded (lines 94-112, 169-195).
RestoreFaithful ==
  \A n \in DOMAIN files :
    encrypt \/ n.format = "manifest" =>
      RestoreBackup(n) = Raised \/ RestoreBackup(n) \in origin[n]

\* Intact backups, the ones a restore succeeds on.
Intact == {n \in DOMAIN files : files[n].state = "ok"}

\* Once a creation has returned, the history is bounded again, whatever the
\* calls cut short before it left behind (lines 54, 197-203).
HistoryBounded ==
  pc = "idle" /\ returned.count > 0 /\ ~ cut.last /\ retention > 0
    => Cardinality(DOMAIN files) <= retention

\* Pruning never eats the history: as many backups can be restored as were
\* returned, up to the retention count, less one for each call cut short, whose
\* torn file takes a place (lines 54, 197-203).
HistoryRetained ==
  LET enough == IF retention > 0 /\ retention < returned.count THEN retention
                ELSE returned.count
  IN Cardinality(Intact) >= enough - cut.count

\* Blobs without a manifest, which no listing shows and no pruning removes,
\* come one at most from each call cut short (lines 118-125, 135-136, 205-208).
OrphansAccounted ==
  Cardinality(DOMAIN blobs \ DOMAIN files)
    <= cut.count + (IF pc \in {"fillBlob", "manifest", "unlinkBlob"} THEN 1 ELSE 0)

\* "manifest_path = mgr.create_backup(...); assert manifest_path.exists()"
\* (tests/test_self_fixer.py:205-206): what create_backup returned is there.
ReturnedExists ==
  pc = "idle" /\ returned.count > 0 /\ ~ cut.last => returned.name \in DOMAIN files
=============================================================================
