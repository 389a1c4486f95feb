------------------------- MODULE BackupManagerProofs -------------------------
(***************************************************************************)
(* Proofs about BackupManager, for any contents, tokens, retention, pace   *)
(* of the callers, and number of creations and faults.                     *)
(***************************************************************************)
EXTENDS BackupManager, TLAPS, FiniteSetTheorems

-----------------------------------------------------------------------------
(* The inductive invariant.                                                *)

\* What a file holds was backed up under its name, and a manifest has its blob.
StoredInv ==
  /\ DOMAIN files \subseteq DOMAIN origin /\ DOMAIN blobs \subseteq DOMAIN origin
  /\ \A n \in DOMAIN blobs : n.format = "manifest"
  /\ \A n \in DOMAIN files : n.format = "manifest" => n \in DOMAIN blobs
  /\ \A n \in DOMAIN files : files[n].state = "ok" => files[n].content \in origin[n]
  /\ \A n \in DOMAIN files :
       files[n].state = "ok" /\ n.format = "manifest" =>
         blobs[n].state = "ok" /\ blobs[n].content = files[n].content

\* The blob of the call in progress is complete.
BlobDone ==
  /\ call.name \in DOMAIN blobs
  /\ blobs[call.name].state = "ok" /\ blobs[call.name].content = call.content

\* What a creation has done before each of its steps.
CallInv ==
  /\ pc # "idle" =>
       /\ call.name \in DOMAIN origin
       /\ call.content \in origin[call.name]
  /\ pc \in {"fillBlob", "manifest"} =>
       /\ call.name.format = "manifest"
       /\ call.name \in DOMAIN blobs /\ call.name \notin DOMAIN files
  /\ pc = "manifest" => BlobDone
  /\ pc = "fill" =>
       /\ call.name \in DOMAIN files
       /\ call.name.format = "manifest" => BlobDone
  /\ pc = "unlink" => victims \subseteq DOMAIN files
  /\ pc = "unlinkBlob" => \E v \in DOMAIN blobs : victims \ DOMAIN files = {v}

\* Once _prune has listed the directory, what it does not remove is in bounds;
\* and so is the directory after a call that returned.
BoundInv ==
  retention > 0 =>
    /\ pc \in {"unlink", "unlinkBlob"} => Cardinality(DOMAIN files \ victims) <= retention
    /\ HistoryBounded

\* When the callers keep a tick between their calls, the backup of the call in
\* progress is the newest of the listing, and so no victim.
PacedInv ==
  MinGap > 0 =>
    /\ resting <= now /\ (pc # "idle" => resting < now)
    /\ \A n \in DOMAIN files :
         /\ files[n].mtime <= now
         /\ pc = "idle" \/ n # call.name => files[n].mtime <= resting
    /\ pc = "prune" => call.name \in DOMAIN files /\ files[call.name].mtime > resting
    /\ pc \in {"unlink", "unlinkBlob"} => call.name \in DOMAIN files \ victims
    /\ ReturnedExists

\* When the callers keep a second between their calls, every creation makes a
\* file of its own: as many are kept as were returned, up to the retention
\* count, and those that cannot be restored were left by calls cut short.
Enough(count) == IF retention > 0 /\ retention < count THEN retention ELSE count

TornFiles == {n \in DOMAIN files : files[n].state # "ok"}

RetainedInv ==
  MinGap >= TicksPerSecond =>
    /\ \A n \in DOMAIN origin :
         /\ n.second <= now \div TicksPerSecond
         /\ pc = "idle" => n.second <= resting \div TicksPerSecond
    /\ pc = "fill" => call.name \in TornFiles
    /\ Cardinality(TornFiles) <= cut.count + (IF pc = "fill" THEN 1 ELSE 0)
    /\ Cardinality(DOMAIN files)
         >= Enough(returned.count) + (IF pc \in {"fill", "prune"} THEN 1 ELSE 0)
    /\ pc \in {"unlink", "unlinkBlob"} =>
         Cardinality(DOMAIN files \ victims) >= Enough(returned.count + 1)

Finite == IsFiniteSet(DOMAIN files) /\ IsFiniteSet(DOMAIN blobs)

IInv == TypeOK /\ Finite /\ StoredInv /\ CallInv /\ BoundInv /\ OrphansAccounted
        /\ PacedInv /\ RetainedInv

-----------------------------------------------------------------------------
(* Names and files.                                                        *)

LEMMA SecondType == TypeOK => Second \in Nat
BY BackupAssumption DEF TypeOK, Second

LEMMA NameTypes ==
  ASSUME TypeOK, NEW token \in Tokens
  PROVE  ManifestName(token) \in Names /\ ManifestName(token).format = "manifest"
<1>1. Second \in Nat /\ token \in Nat
  BY SecondType, BackupAssumption
<1> QED
  BY <1>1 DEF ManifestName, Names

LEMMA LegacyNameType == TypeOK => LegacyName \in Names /\ LegacyName.format = "legacy"
<1> SUFFICES ASSUME TypeOK PROVE LegacyName \in Names /\ LegacyName.format = "legacy"
  OBVIOUS
<1>1. Second \in Nat
  BY SecondType
<1> QED
  BY <1>1 DEF LegacyName, Names

LEMMA FileTypes ==
  ASSUME TypeOK, CallInv
  PROVE  /\ TornFile \in File /\ TornFile.state = "torn"
         /\ pc # "idle" => FullFile \in File
         /\ FullFile.state = "ok" /\ FullFile.content = call.content
<1>1. now \in Nat /\ \A n \in DOMAIN origin : origin[n] \subseteq Contents
  BY DEF TypeOK
<1>2. pc # "idle" => call.content \in Contents
  BY <1>1 DEF CallInv
<1> QED
  BY <1>1, <1>2 DEF TornFile, FullFile, File

LEMMA StartTypes ==
  ASSUME TypeOK, NEW name \in Names, NEW content \in Contents, Start(name, content)
  PROVE  /\ created' \in Nat
         /\ call' \in [name : Names \cup {Nothing}, content : Contents \cup {Garbage}]
         /\ DOMAIN origin' \subseteq Names
         /\ \A n \in DOMAIN origin' : origin'[n] \subseteq Contents
<1> DEFINE contents == {content} \cup (IF name \in DOMAIN origin THEN origin[name] ELSE {})
<1>1. origin' = Put(origin, name, contents) /\ contents \subseteq Contents
  BY DEF Start, TypeOK
<1> HIDE DEF contents
<1>2. DOMAIN origin' \subseteq Names /\ \A n \in DOMAIN origin' : origin'[n] \subseteq Contents
  BY <1>1 DEF Put, TypeOK
<1>3. created' \in Nat
  BY DEF Start, TypeOK
<1>4. call' \in [name : Names \cup {Nothing}, content : Contents \cup {Garbage}]
  BY DEF Start
<1> QED
  BY <1>2, <1>3, <1>4

\* What Start does to the call and to the contents backed up under each name.
LEMMA StartFacts ==
  ASSUME NEW name, NEW content, Start(name, content)
  PROVE  /\ call'.name = name /\ call'.content = content
         /\ DOMAIN origin \subseteq DOMAIN origin' /\ name \in DOMAIN origin'
         /\ content \in origin'[name]
         /\ \A n \in DOMAIN origin : origin[n] \subseteq origin'[n]
<1> DEFINE contents == {content} \cup (IF name \in DOMAIN origin THEN origin[name] ELSE {})
<1>1. origin' = Put(origin, name, contents)
  BY DEF Start
<1>2. content \in contents /\ (name \in DOMAIN origin => origin[name] \subseteq contents)
  OBVIOUS
<1> HIDE DEF contents
<1>3. call'.name = name /\ call'.content = content
  BY DEF Start
<1>4. /\ DOMAIN origin' = DOMAIN origin \cup {name} /\ origin'[name] = contents
      /\ \A n \in DOMAIN origin : n # name => origin'[n] = origin[n]
  BY <1>1 DEF Put
<1> QED
  BY <1>2, <1>3, <1>4

\* A map of names to files stays one when a file is put or removed.
LEMMA PutTypes ==
  ASSUME NEW f, DOMAIN f \subseteq Names, \A n \in DOMAIN f : f[n] \in File,
         NEW name \in Names, NEW v \in File
  PROVE  /\ DOMAIN Put(f, name, v) \subseteq Names
         /\ \A n \in DOMAIN Put(f, name, v) : Put(f, name, v)[n] \in File
BY DEF Put

LEMMA RemoveTypes ==
  ASSUME NEW f, DOMAIN f \subseteq Names, \A n \in DOMAIN f : f[n] \in File, NEW name
  PROVE  /\ DOMAIN Remove(f, name) \subseteq Names
         /\ \A n \in DOMAIN Remove(f, name) : Remove(f, name)[n] \in File
BY DEF Remove

\* The call that is under way has a name.
LEMMA CallName == TypeOK /\ CallInv /\ pc # "idle" => call.name \in Names
BY DEF TypeOK, CallInv

LEMMA EndTypes ==
  ASSUME TypeOK, End
  PROVE  /\ pc' = "idle" /\ call' \in [name : Names \cup {Nothing}, content : Contents \cup {Garbage}]
         /\ victims' = {} /\ resting' \in Nat
BY DEF TypeOK, End, NoCall

LEMMA TypesStep ==
  ASSUME TypeOK, CallInv, [Next]_vars
  PROVE  TypeOK'
<1>1. ASSUME NEW content \in Contents, CreateLegacy(content) PROVE TypeOK'
  <2>1. DOMAIN files' \subseteq Names /\ \A n \in DOMAIN files' : files'[n] \in File
    BY <1>1, LegacyNameType, FileTypes, PutTypes DEF CreateLegacy, TypeOK
  <2>2. /\ created' \in Nat
        /\ call' \in [name : Names \cup {Nothing}, content : Contents \cup {Garbage}]
        /\ DOMAIN origin' \subseteq Names
        /\ \A n \in DOMAIN origin' : origin'[n] \subseteq Contents
    BY <1>1, LegacyNameType, StartTypes DEF CreateLegacy
  <2> QED
    BY <1>1, <2>1, <2>2 DEF CreateLegacy, TypeOK
<1>2. ASSUME NEW content \in Contents, NEW token \in Tokens, CreateManifest(token, content)
      PROVE  TypeOK'
  <2>1. DOMAIN blobs' \subseteq Names /\ \A n \in DOMAIN blobs' : blobs'[n] \in File
    BY <1>2, NameTypes, FileTypes, PutTypes DEF CreateManifest, TypeOK
  <2>2. /\ created' \in Nat
        /\ call' \in [name : Names \cup {Nothing}, content : Contents \cup {Garbage}]
        /\ DOMAIN origin' \subseteq Names
        /\ \A n \in DOMAIN origin' : origin'[n] \subseteq Contents
    BY <1>2, NameTypes, StartTypes DEF CreateManifest
  <2> QED
    BY <1>2, <2>1, <2>2 DEF CreateManifest, TypeOK
<1>3. CASE FillBlob
  <2>1. DOMAIN blobs' \subseteq Names /\ \A n \in DOMAIN blobs' : blobs'[n] \in File
    BY <1>3, CallName, FileTypes, PutTypes DEF FillBlob, TypeOK
  <2> QED
    BY <1>3, <2>1 DEF FillBlob, history, TypeOK
<1>4. CASE OpenManifest \/ Fill
  <2>1. DOMAIN files' \subseteq Names /\ \A n \in DOMAIN files' : files'[n] \in File
    BY <1>4, CallName, FileTypes, PutTypes DEF OpenManifest, Fill, TypeOK
  <2> QED
    BY <1>4, <2>1 DEF OpenManifest, Fill, history, TypeOK
<1>5. CASE Prune
  <2>1. victims' \subseteq Names
    BY <1>5 DEF Prune, Excess, TypeOK
  <2> QED
    BY <1>5, <2>1 DEF Prune, history, TypeOK
<1>6. CASE Unlink
  <2>1. PICK v \in victims :
          /\ files' = Remove(files, v)
          /\ IF v.format = "manifest"
               THEN pc' = "unlinkBlob" /\ UNCHANGED victims
               ELSE victims' = victims \ {v} /\ UNCHANGED pc
    BY <1>6 DEF Unlink
  <2>2. DOMAIN files' \subseteq Names /\ \A n \in DOMAIN files' : files'[n] \in File
    BY <2>1, RemoveTypes DEF TypeOK
  <2>3. /\ victims' \subseteq Names
        /\ pc' \in {"unlink", "unlinkBlob"}
    BY <1>6, <2>1 DEF Unlink, TypeOK
  <2> QED
    BY <1>6, <2>2, <2>3 DEF Unlink, history, TypeOK
<1>7. CASE UnlinkBlob
  <2>1. PICK v : blobs' = Remove(blobs, v) /\ victims' = victims \ {v}
    BY <1>7 DEF UnlinkBlob
  <2>2. DOMAIN blobs' \subseteq Names /\ \A n \in DOMAIN blobs' : blobs'[n] \in File
    BY <2>1, RemoveTypes DEF TypeOK
  <2> QED
    BY <1>7, <2>1, <2>2 DEF UnlinkBlob, history, TypeOK
<1>8. CASE Return
  <2>1. returned' \in [count : Nat, name : Names \cup {Nothing}]
    BY <1>8 DEF Return, TypeOK
  <2>2. cut' \in [count : Nat, last : BOOLEAN]
    BY <1>8 DEF Return, TypeOK
  <2> QED
    BY <1>8, <2>1, <2>2, EndTypes DEF Return, TypeOK
<1>9. CASE CutShort
  <2>1. cut' \in [count : Nat, last : BOOLEAN]
    BY <1>9 DEF CutShort, TypeOK
  <2> QED
    BY <1>9, <2>1, EndTypes DEF CutShort, TypeOK
<1>10. CASE Tick \/ UNCHANGED vars
  <2>1. now' \in Nat
    BY <1>10 DEF Tick, vars, TypeOK
  <2> QED
    BY <1>10, <2>1 DEF Tick, vars, callVars, history, TypeOK
<1> QED
  BY <1>1, <1>2, <1>3, <1>4, <1>5, <1>6, <1>7, <1>8, <1>9, <1>10 DEF Next

-----------------------------------------------------------------------------
(* What the files hold, and where the call in progress is.                 *)

LEMMA StoredStep ==
  ASSUME TypeOK, CallInv, StoredInv, [Next]_vars
  PROVE  StoredInv'
<1>1. ASSUME NEW content \in Contents, CreateLegacy(content) PROVE StoredInv'
  <2>1. /\ files' = Put(files, LegacyName, TornFile) /\ blobs' = blobs
        /\ LegacyName.format = "legacy" /\ TornFile.state = "torn"
    BY <1>1, LegacyNameType, FileTypes DEF CreateLegacy
  <2>2. /\ DOMAIN origin \subseteq DOMAIN origin' /\ LegacyName \in DOMAIN origin'
        /\ \A n \in DOMAIN origin : origin[n] \subseteq origin'[n]
    BY <1>1, StartFacts DEF CreateLegacy
  <2>3. \A n \in DOMAIN files' : n = LegacyName \/ (n \in DOMAIN files /\ files'[n] = files[n])
    BY <2>1 DEF Put
  <2>4. files'[LegacyName].state = "torn"
    BY <2>1 DEF Put
  <2> QED
    BY <2>1, <2>2, <2>3, <2>4 DEF StoredInv
<1>2. ASSUME NEW content \in Contents, NEW token \in Tokens, CreateManifest(token, content)
      PROVE  StoredInv'
  <2> DEFINE name == ManifestName(token)
  <2>1. /\ blobs' = Put(blobs, name, TornFile) /\ files' = files
        /\ name \notin DOMAIN origin /\ name.format = "manifest"
    BY <1>2, NameTypes DEF CreateManifest
  <2>2. /\ DOMAIN origin \subseteq DOMAIN origin' /\ name \in DOMAIN origin'
        /\ \A n \in DOMAIN origin : origin[n] \subseteq origin'[n]
    BY <1>2, StartFacts DEF CreateManifest
  <2> HIDE DEF name
  <2>3. /\ DOMAIN blobs' = DOMAIN blobs \cup {name}
        /\ \A n \in DOMAIN blobs : n # name => blobs'[n] = blobs[n]
    BY <2>1 DEF Put
  <2> QED
    BY <2>1, <2>2, <2>3 DEF StoredInv
<1>3. CASE FillBlob
  <2>1. /\ blobs' = Put(blobs, call.name, FullFile) /\ UNCHANGED <<files, origin>>
        /\ call.name.format = "manifest" /\ call.name \notin DOMAIN files
        /\ call.name \in DOMAIN origin
    BY <1>3 DEF FillBlob, history, CallInv
  <2>2. /\ DOMAIN blobs' = DOMAIN blobs \cup {call.name}
        /\ \A n \in DOMAIN blobs : n # call.name => blobs'[n] = blobs[n]
    BY <2>1 DEF Put
  <2> QED
    BY <2>1, <2>2 DEF StoredInv
<1>4. CASE OpenManifest
  <2>1. /\ files' = Put(files, call.name, TornFile) /\ UNCHANGED <<blobs, origin>>
        /\ call.name \in DOMAIN blobs /\ call.name \in DOMAIN origin
        /\ TornFile.state = "torn"
    BY <1>4, FileTypes DEF OpenManifest, history, CallInv
  <2>2. /\ DOMAIN files' = DOMAIN files \cup {call.name} /\ files'[call.name].state = "torn"
        /\ \A n \in DOMAIN files : n # call.name => files'[n] = files[n]
    BY <2>1 DEF Put
  <2> QED
    BY <2>1, <2>2 DEF StoredInv
<1>5. CASE Fill
  <2>1. /\ files' = Put(files, call.name, FullFile) /\ UNCHANGED <<blobs, origin>>
        /\ call.name \in DOMAIN origin /\ call.content \in origin[call.name]
        /\ call.name.format = "manifest" => BlobDone
        /\ FullFile.content = call.content
    BY <1>5, FileTypes DEF Fill, history, CallInv
  <2>2. /\ DOMAIN files' = DOMAIN files \cup {call.name}
        /\ files'[call.name].content = call.content
        /\ \A n \in DOMAIN files : n # call.name => files'[n] = files[n]
    BY <2>1 DEF Put
  <2> QED
    BY <2>1, <2>2 DEF StoredInv, BlobDone
<1>6. CASE Unlink
  <2>1. PICK v : files' = Remove(files, v)
    BY <1>6 DEF Unlink
  <2>2. /\ DOMAIN files' \subseteq DOMAIN files /\ UNCHANGED <<blobs, origin>>
        /\ \A n \in DOMAIN files' : files'[n] = files[n]
    BY <1>6, <2>1 DEF Unlink, history, Remove
  <2> QED
    BY <2>2 DEF StoredInv
<1>7. CASE UnlinkBlob
  <2>1. PICK v \in victims \ DOMAIN files : blobs' = Remove(blobs, v)
    BY <1>7 DEF UnlinkBlob
  <2>2. /\ DOMAIN blobs' = DOMAIN blobs \ {v} /\ v \notin DOMAIN files
        /\ UNCHANGED <<files, origin>>
        /\ \A n \in DOMAIN blobs' : blobs'[n] = blobs[n]
    BY <1>7, <2>1 DEF UnlinkBlob, history, Remove
  <2> QED
    BY <2>2 DEF StoredInv
<1>8. CASE UNCHANGED <<files, blobs, origin>>
  BY <1>8 DEF StoredInv
<1> QED
  BY <1>1, <1>2, <1>3, <1>4, <1>5, <1>6, <1>7, <1>8
     DEF Next, Prune, Return, CutShort, Tick, vars, history

LEMMA CallStep ==
  ASSUME TypeOK, CallInv, StoredInv, [Next]_vars
  PROVE  CallInv'
<1>1. ASSUME NEW content \in Contents, CreateLegacy(content) PROVE CallInv'
  <2>1. /\ pc' = "fill" /\ call'.name = LegacyName /\ LegacyName.format = "legacy"
        /\ call'.name \in DOMAIN origin' /\ call'.content \in origin'[call'.name]
    BY <1>1, StartFacts, LegacyNameType DEF CreateLegacy
  <2>2. call'.name \in DOMAIN files'
    BY <1>1, <2>1 DEF CreateLegacy, Put
  <2> QED
    BY <2>1, <2>2 DEF CallInv
<1>2. ASSUME NEW content \in Contents, NEW token \in Tokens, CreateManifest(token, content)
      PROVE  CallInv'
  <2>1. /\ pc' = "fillBlob" /\ call'.name = ManifestName(token) /\ call'.name.format = "manifest"
        /\ call'.name \in DOMAIN origin' /\ call'.content \in origin'[call'.name]
        /\ call'.name \notin DOMAIN files'
    BY <1>2, StartFacts, NameTypes DEF CreateManifest, StoredInv
  <2>2. call'.name \in DOMAIN blobs'
    BY <1>2, <2>1 DEF CreateManifest, Put
  <2> QED
    BY <2>1, <2>2 DEF CallInv
<1>3. CASE FillBlob
  <2>1. /\ pc = "fillBlob" /\ pc' = "manifest" /\ UNCHANGED <<files, call, origin>>
        /\ blobs' = Put(blobs, call.name, FullFile)
    BY <1>3 DEF FillBlob, history
  <2>2. BlobDone'
    BY <2>1 DEF BlobDone, Put, FullFile
  <2> QED
    BY <2>1, <2>2 DEF CallInv, BlobDone
<1>4. CASE OpenManifest
  <2>1. /\ pc = "manifest" /\ pc' = "fill" /\ UNCHANGED <<blobs, call, origin>>
        /\ call.name \in DOMAIN files'
    BY <1>4 DEF OpenManifest, history, Put
  <2> QED
    BY <2>1 DEF CallInv, BlobDone
<1>5. CASE Fill
  BY <1>5 DEF Fill, history, CallInv
<1>6. CASE Prune
  <2>1. pc = "prune" /\ pc' = "unlink" /\ victims' \subseteq DOMAIN files
        /\ UNCHANGED <<files, call, origin>>
    BY <1>6 DEF Prune, history, Excess
  <2> QED
    BY <2>1 DEF CallInv
<1>7. CASE Unlink
  <2>1. PICK v \in victims :
          /\ files' = Remove(files, v)
          /\ IF v.format = "manifest"
               THEN pc' = "unlinkBlob" /\ UNCHANGED victims
               ELSE victims' = victims \ {v} /\ UNCHANGED pc
    BY <1>7 DEF Unlink
  <2>2. /\ DOMAIN files' = DOMAIN files \ {v} /\ pc = "unlink" /\ victims \subseteq DOMAIN files
        /\ UNCHANGED <<blobs, call, origin>>
    BY <1>7, <2>1 DEF Unlink, Remove, history, CallInv
  <2>3. CASE v.format = "manifest"
    <3>1. v \in DOMAIN blobs /\ victims \ DOMAIN files' = {v}
      BY <2>1, <2>2, <2>3 DEF StoredInv
    <3> QED
      BY <2>1, <2>2, <2>3, <3>1 DEF CallInv
  <2>4. CASE v.format # "manifest"
    BY <2>1, <2>2, <2>4 DEF CallInv
  <2> QED
    BY <2>3, <2>4
<1>8. CASE UnlinkBlob
  <2>1. PICK v \in victims \ DOMAIN files : victims' = victims \ {v}
    BY <1>8 DEF UnlinkBlob
  <2>2. pc = "unlinkBlob" /\ pc' = "unlink" /\ UNCHANGED <<files, call, origin>>
    BY <1>8 DEF UnlinkBlob, history
  <2>3. victims' \subseteq DOMAIN files
    BY <2>1, <2>2 DEF CallInv
  <2> QED
    BY <2>2, <2>3 DEF CallInv
<1>9. CASE Return \/ CutShort
  BY <1>9 DEF Return, CutShort, End, CallInv
<1>10. CASE Tick \/ UNCHANGED vars
  BY <1>10 DEF Tick, vars, callVars, history, CallInv, BlobDone
<1> QED
  BY <1>1, <1>2, <1>3, <1>4, <1>5, <1>6, <1>7, <1>8, <1>9, <1>10 DEF Next

-----------------------------------------------------------------------------
(* Pruning: the listing is a total order of the names, so that all but the *)
(* oldest of what is kept are newer than it.                               *)

LEMMA NameOrder ==
  ASSUME NEW m \in Names, NEW n \in Names, NEW k \in Names
  PROVE  /\ ~ NameBefore(n, n)
         /\ NameBefore(m, n) /\ NameBefore(n, k) => NameBefore(m, k)
         /\ m # n => NameBefore(m, n) \/ NameBefore(n, m)
<1>1. \A x \in Names : x.format \in {"legacy", "manifest"} /\ x.second \in Nat /\ x.token \in Nat
  BY DEF Names
<1>2. m.format = n.format /\ m.second = n.second /\ m.token = n.token => m = n
  BY DEF Names
<1> QED
  BY <1>1, <1>2 DEF NameBefore

LEMMA ListingOrder ==
  ASSUME TypeOK, NEW m \in DOMAIN files, NEW n \in DOMAIN files, NEW k \in DOMAIN files
  PROVE  /\ ~ Older(n, n)
         /\ Older(m, n) /\ Older(n, k) => Older(m, k)
         /\ m # n => Older(m, n) \/ Older(n, m)
<1>1. m \in Names /\ n \in Names /\ k \in Names
  BY DEF TypeOK
<1>2. files[m].mtime \in Nat /\ files[n].mtime \in Nat /\ files[k].mtime \in Nat
  BY DEF TypeOK, File
<1>3. /\ ~ NameBefore(n, n)
      /\ NameBefore(m, n) /\ NameBefore(n, k) => NameBefore(m, k)
      /\ m # n => NameBefore(m, n) \/ NameBefore(n, m)
  BY <1>1, NameOrder
<1> QED
  BY <1>2, <1>3 DEF Older

\* A finite set of names has an oldest: the one with the fewest older names.
LEMMA Oldest ==
  ASSUME TypeOK, NEW S \in SUBSET DOMAIN files, IsFiniteSet(S), S # {}
  PROVE  \E x \in S : \A y \in S \ {x} : Older(x, y)
<1> DEFINE before(x) == {m \in S : Older(m, x)}
           T == {before(x) : x \in S}
<1>1. IsWellFoundedOn(StrictSubsetOrdering(S), SUBSET S)
  BY FS_StrictSubsetOrderingWellFounded, FS_FiniteSubsetsOfFinite
<1>2. T \subseteq SUBSET S /\ T # {}
  OBVIOUS
<1>3. \E x \in T : \A y \in T : <<y, x>> \notin StrictSubsetOrdering(S)
  <2> HIDE DEF T
  <2> QED
    BY <1>1, <1>2, WFMin
<1>4. PICK x \in S : \A y \in S : <<before(y), before(x)>> \notin StrictSubsetOrdering(S)
  BY <1>3
<1>5. ASSUME NEW y \in S, Older(y, x) PROVE FALSE
  <2>1. before(y) \subseteq before(x)
    BY <1>5, ListingOrder
  <2>2. y \in before(x) /\ y \notin before(y)
    BY <1>5, ListingOrder
  <2>3. <<before(y), before(x)>> \in StrictSubsetOrdering(S)
    BY <2>1, <2>2 DEF StrictSubsetOrdering
  <2> QED
    BY <1>4, <2>3
<1> QED
  BY <1>5, ListingOrder

\* Prune keeps no more than the retention count.
LEMMA ExcessBound ==
  ASSUME TypeOK, IsFiniteSet(DOMAIN files), retention > 0
  PROVE  Cardinality(DOMAIN files \ Excess) <= retention
<1> DEFINE S == DOMAIN files \ Excess
<1> SUFFICES Cardinality(S) <= retention
  OBVIOUS
<1>1. IsFiniteSet(S) /\ Cardinality(S) \in Nat /\ retention \in Nat
  BY FS_Difference, FS_CardinalityType, BackupAssumption
<1>2. CASE S = {}
  BY <1>1, <1>2, FS_EmptySet
<1>3. CASE S # {}
  <2>1. PICK x \in S : \A y \in S \ {x} : Older(x, y)
    BY <1>1, <1>3, Oldest
  <2> DEFINE newer == {m \in DOMAIN files : Older(x, m)}
  <2>2. IsFiniteSet(newer) /\ Cardinality(newer) \in Nat
    BY FS_Subset, FS_CardinalityType
  <2>3. Cardinality(newer) < retention
    <3>1. x \in DOMAIN files /\ x \notin Excess
      OBVIOUS
    <3>2. ~ (Cardinality(newer) >= retention)
      BY <3>1, Zenon DEF Excess
    <3> QED
      BY <1>1, <2>2, <3>2
  <2>4. S \ {x} \subseteq newer
    BY <2>1
  <2>5. Cardinality(S \ {x}) <= Cardinality(newer)
    BY <2>2, <2>4, FS_Subset
  <2>6. Cardinality(S \ {x}) = Cardinality(S) - 1
    BY <1>1, <2>1, FS_RemoveElement
  <2> HIDE DEF S, newer
  <2> QED
    BY <1>1, <2>2, <2>3, <2>5, <2>6
<1> QED
  BY <1>2, <1>3

LEMMA FiniteStep ==
  ASSUME Finite, [Next]_vars
  PROVE  Finite'
<1>1. ASSUME NEW content \in Contents, CreateLegacy(content)
      PROVE  DOMAIN files' = DOMAIN files \cup {LegacyName} /\ blobs' = blobs
  BY <1>1 DEF CreateLegacy, Put
<1>2. ASSUME NEW content \in Contents, NEW token \in Tokens, CreateManifest(token, content)
      PROVE  DOMAIN blobs' = DOMAIN blobs \cup {ManifestName(token)} /\ files' = files
  BY <1>2 DEF CreateManifest, Put
<1>3. ASSUME FillBlob
      PROVE  DOMAIN blobs' = DOMAIN blobs \cup {call.name} /\ files' = files
  BY <1>3 DEF FillBlob, Put
<1>4. ASSUME OpenManifest \/ Fill
      PROVE  DOMAIN files' = DOMAIN files \cup {call.name} /\ blobs' = blobs
  BY <1>4 DEF OpenManifest, Fill, Put
<1>5. ASSUME Unlink
      PROVE  (\E name : DOMAIN files' = DOMAIN files \ {name}) /\ blobs' = blobs
  <2>1. PICK v : files' = Remove(files, v)
    BY <1>5 DEF Unlink
  <2>2. DOMAIN files' = DOMAIN files \ {v}
    BY <2>1 DEF Remove
  <2> QED
    BY <1>5, <2>2 DEF Unlink
<1>6. ASSUME UnlinkBlob
      PROVE  (\E name : DOMAIN blobs' = DOMAIN blobs \ {name}) /\ files' = files
  <2>1. PICK v : blobs' = Remove(blobs, v)
    BY <1>6 DEF UnlinkBlob
  <2>2. DOMAIN blobs' = DOMAIN blobs \ {v}
    BY <2>1 DEF Remove
  <2> QED
    BY <1>6, <2>2 DEF UnlinkBlob
<1>7. ASSUME Prune \/ Return \/ CutShort \/ Tick \/ UNCHANGED vars
      PROVE  files' = files /\ blobs' = blobs
  BY <1>7 DEF Prune, Return, CutShort, Tick, vars
<1>8. /\ \A name : IsFiniteSet(DOMAIN files \cup {name}) /\ IsFiniteSet(DOMAIN files \ {name})
      /\ \A name : IsFiniteSet(DOMAIN blobs \cup {name}) /\ IsFiniteSet(DOMAIN blobs \ {name})
  BY FS_AddElement, FS_RemoveElement DEF Finite
<1> QED
  BY <1>1, <1>2, <1>3, <1>4, <1>5, <1>6, <1>7, <1>8 DEF Finite, Next

LEMMA BoundStep ==
  ASSUME TypeOK, Finite, CallInv, BoundInv, [Next]_vars
  PROVE  BoundInv'
<1> SUFFICES ASSUME retention > 0
             PROVE  /\ pc' \in {"unlink", "unlinkBlob"}
                         => Cardinality(DOMAIN files' \ victims') <= retention
                    /\ HistoryBounded'
  BY DEF BoundInv
<1>1. CASE \/ \E content \in Contents : \/ CreateLegacy(content)
                                        \/ \E token \in Tokens : CreateManifest(token, content)
           \/ FillBlob \/ OpenManifest \/ Fill
  <2>1. pc' \in {"fill", "fillBlob", "manifest", "prune"}
    BY <1>1 DEF CreateLegacy, CreateManifest, FillBlob, OpenManifest, Fill
  <2> QED
    BY <2>1 DEF HistoryBounded
<1>2. CASE Prune
  <2>1. pc' = "unlink" /\ victims' = Excess /\ files' = files
    BY <1>2 DEF Prune
  <2> QED
    BY <2>1, ExcessBound DEF HistoryBounded, Finite
<1>3. CASE Unlink \/ UnlinkBlob
  <2>1. /\ pc \in {"unlink", "unlinkBlob"} /\ pc' \in {"unlink", "unlinkBlob"}
        /\ DOMAIN files' \ victims' = DOMAIN files \ victims
    <3>1. CASE Unlink
      <4>1. PICK v \in victims :
              /\ files' = Remove(files, v)
              /\ IF v.format = "manifest"
                   THEN pc' = "unlinkBlob" /\ UNCHANGED victims
                   ELSE victims' = victims \ {v} /\ UNCHANGED pc
        BY <3>1 DEF Unlink
      <4>2. DOMAIN files' = DOMAIN files \ {v} /\ pc = "unlink"
        BY <3>1, <4>1 DEF Unlink, Remove
      <4> QED
        BY <4>1, <4>2
    <3>2. CASE UnlinkBlob
      BY <3>2 DEF UnlinkBlob
    <3> QED
      BY <1>3, <3>1, <3>2
  <2> QED
    BY <2>1 DEF BoundInv, HistoryBounded
<1>4. CASE Return
  <2>1. pc = "unlink" /\ victims = {} /\ files' = files /\ pc' = "idle"
    BY <1>4 DEF Return, End
  <2>2. Cardinality(DOMAIN files \ {}) <= retention /\ DOMAIN files \ {} = DOMAIN files
    BY <2>1 DEF BoundInv
  <2> QED
    BY <2>1, <2>2 DEF HistoryBounded
<1>5. CASE CutShort
  <2>1. pc' = "idle" /\ cut'.last = TRUE
    BY <1>5 DEF CutShort, End
  <2> QED
    BY <2>1 DEF HistoryBounded
<1>6. CASE Tick \/ UNCHANGED vars
  BY <1>6 DEF Tick, vars, callVars, history, BoundInv, HistoryBounded
<1> QED
  BY <1>1, <1>2, <1>3, <1>4, <1>5, <1>6 DEF Next

-----------------------------------------------------------------------------
(* The backup of the call in progress is the newest.                       *)

\* The newest file is no excess, since none is newer.
LEMMA NewestStays ==
  ASSUME TypeOK, NEW x \in DOMAIN files, retention > 0,
         \A n \in DOMAIN files : n # x => files[n].mtime < files[x].mtime
  PROVE  x \notin Excess
<1>1. \A n \in DOMAIN files : ~ Older(x, n)
  <2> SUFFICES ASSUME NEW n \in DOMAIN files, Older(x, n) PROVE FALSE
    OBVIOUS
  <2>1. files[x].mtime \in Nat /\ files[n].mtime \in Nat
    BY DEF TypeOK, File
  <2>2. n # x
    BY ListingOrder
  <2> QED
    BY <2>1, <2>2 DEF Older
<1>2. {n \in DOMAIN files : Older(x, n)} = {}
  BY <1>1
<1>3. ~ (Cardinality({n \in DOMAIN files : Older(x, n)}) >= retention)
  BY <1>2, FS_EmptySet, BackupAssumption
<1> QED
  BY <1>3, Zenon DEF Excess

LEMMA PacedStep ==
  ASSUME TypeOK, CallInv, PacedInv, [Next]_vars
  PROVE  PacedInv'
<1> SUFFICES ASSUME MinGap > 0
             PROVE  /\ resting' <= now' /\ (pc' # "idle" => resting' < now')
                    /\ \A n \in DOMAIN files' :
                         /\ files'[n].mtime <= now'
                         /\ pc' = "idle" \/ n # call'.name => files'[n].mtime <= resting'
                    /\ pc' = "prune" => call'.name \in DOMAIN files'
                                        /\ files'[call'.name].mtime > resting'
                    /\ pc' \in {"unlink", "unlinkBlob"} => call'.name \in DOMAIN files' \ victims'
                    /\ ReturnedExists'
  BY DEF PacedInv
<1>0. /\ now \in Nat /\ resting \in Nat /\ MinGap \in Nat
      /\ \A n \in DOMAIN files : files[n].mtime \in Nat
  BY BackupAssumption DEF TypeOK, File
<1>1. ASSUME NEW content \in Contents, CreateLegacy(content) PROVE PacedInv'
  <2>1. /\ pc = "idle" /\ pc' = "fill" /\ now >= resting + MinGap
        /\ call'.name = LegacyName /\ UNCHANGED <<now, resting>>
        /\ files' = Put(files, LegacyName, TornFile)
    BY <1>1 DEF CreateLegacy, Start
  <2>2. \A n \in DOMAIN files' : \/ n = LegacyName /\ files'[n].mtime = now
                                 \/ n \in DOMAIN files /\ files'[n] = files[n]
    BY <2>1 DEF Put, TornFile
  <2> QED
    BY <1>0, <2>1, <2>2 DEF PacedInv, ReturnedExists
<1>2. ASSUME NEW content \in Contents, NEW token \in Tokens, CreateManifest(token, content)
      PROVE  PacedInv'
  <2>1. /\ pc = "idle" /\ pc' = "fillBlob" /\ now >= resting + MinGap
        /\ UNCHANGED <<files, now, resting>>
    BY <1>2 DEF CreateManifest, Start
  <2> QED
    BY <1>0, <2>1 DEF PacedInv, ReturnedExists
<1>3. CASE FillBlob
  <2>1. /\ pc = "fillBlob" /\ pc' = "manifest" /\ UNCHANGED <<files, call, now, resting>>
    BY <1>3 DEF FillBlob
  <2> QED
    BY <2>1 DEF PacedInv, ReturnedExists
<1>4. CASE OpenManifest \/ Fill
  <2>1. /\ pc # "idle" /\ pc' \in {"fill", "prune"} /\ UNCHANGED <<call, now, resting>>
        /\ call.name \in DOMAIN files' /\ files'[call.name].mtime = now
        /\ \A n \in DOMAIN files' : n # call.name => n \in DOMAIN files /\ files'[n] = files[n]
    BY <1>4 DEF OpenManifest, Fill, Put, TornFile, FullFile
  <2> QED
    BY <1>0, <2>1 DEF PacedInv, ReturnedExists
<1>5. CASE Prune
  <2>1. /\ pc = "prune" /\ pc' = "unlink" /\ UNCHANGED <<files, call, now, resting>>
        /\ victims' = Excess
    BY <1>5 DEF Prune
  <2>2. call.name \notin Excess
    <3>1. CASE retention > 0
      BY <1>0, <2>1, <3>1, NewestStays DEF PacedInv
    <3>2. CASE ~ (retention > 0)
      BY <3>2 DEF Excess
    <3> QED
      BY <3>1, <3>2
  <2> QED
    BY <2>1, <2>2 DEF PacedInv, ReturnedExists
<1>6. CASE Unlink
  <2>1. PICK v \in victims :
          /\ files' = Remove(files, v)
          /\ IF v.format = "manifest"
               THEN pc' = "unlinkBlob" /\ UNCHANGED victims
               ELSE victims' = victims \ {v} /\ UNCHANGED pc
    BY <1>6 DEF Unlink
  <2>2. /\ DOMAIN files' = DOMAIN files \ {v} /\ pc = "unlink"
        /\ \A n \in DOMAIN files' : files'[n] = files[n]
        /\ UNCHANGED <<call, now, resting>>
    BY <1>6, <2>1 DEF Unlink, Remove
  <2> QED
    BY <2>1, <2>2 DEF PacedInv, ReturnedExists
<1>7. CASE UnlinkBlob
  BY <1>7 DEF UnlinkBlob, PacedInv, ReturnedExists
<1>8. CASE Return
  <2>1. /\ pc = "unlink" /\ pc' = "idle" /\ resting' = now /\ UNCHANGED <<files, now>>
        /\ returned'.name = call.name
    BY <1>8 DEF Return, End
  <2> QED
    BY <1>0, <2>1 DEF PacedInv, ReturnedExists
<1>9. CASE CutShort
  <2>1. /\ pc' = "idle" /\ resting' = now /\ UNCHANGED <<files, now>> /\ cut'.last = TRUE
    BY <1>9 DEF CutShort, End
  <2> QED
    BY <1>0, <2>1 DEF PacedInv, ReturnedExists
<1>10. CASE Tick
  <2>1. now' = now + 1 /\ UNCHANGED <<files, callVars, history>>
    BY <1>10 DEF Tick
  <2> QED
    BY <1>0, <2>1 DEF PacedInv, ReturnedExists, callVars, history
<1>11. CASE UNCHANGED vars
  BY <1>11 DEF vars, callVars, history, PacedInv, ReturnedExists
<1> QED
  BY <1>1, <1>2, <1>3, <1>4, <1>5, <1>6, <1>7, <1>8, <1>9, <1>10, <1>11 DEF Next, PacedInv

-----------------------------------------------------------------------------
(* How many backups can be restored.                                       *)

\* A finite set of names has a newest: the one with the fewest newer names.
LEMMA Newest ==
  ASSUME TypeOK, NEW S \in SUBSET DOMAIN files, IsFiniteSet(S), S # {}
  PROVE  \E x \in S : \A y \in S : ~ Older(x, y)
<1> DEFINE after(x) == {m \in S : Older(x, m)}
           T == {after(x) : x \in S}
<1>1. IsWellFoundedOn(StrictSubsetOrdering(S), SUBSET S)
  BY FS_StrictSubsetOrderingWellFounded, FS_FiniteSubsetsOfFinite
<1>2. T \subseteq SUBSET S /\ T # {}
  OBVIOUS
<1>3. \E x \in T : \A y \in T : <<y, x>> \notin StrictSubsetOrdering(S)
  <2> HIDE DEF T
  <2> QED
    BY <1>1, <1>2, WFMin
<1>4. PICK x \in S : \A y \in S : <<after(y), after(x)>> \notin StrictSubsetOrdering(S)
  BY <1>3
<1>5. ASSUME NEW y \in S, Older(x, y) PROVE FALSE
  <2>1. after(y) \subseteq after(x)
    BY <1>5, ListingOrder
  <2>2. y \in after(x) /\ y \notin after(y)
    BY <1>5, ListingOrder
  <2>3. <<after(y), after(x)>> \in StrictSubsetOrdering(S)
    BY <2>1, <2>2 DEF StrictSubsetOrdering
  <2> QED
    BY <1>4, <2>3
<1> QED
  BY <1>5

\* Prune takes nothing of what is within the retention count.
LEMMA ExcessLeaves ==
  ASSUME TypeOK, IsFiniteSet(DOMAIN files), Excess # {}
  PROVE  retention > 0 /\ Cardinality(DOMAIN files \ Excess) >= retention
<1>1. retention > 0 /\ retention \in Nat /\ Excess \subseteq DOMAIN files
  BY BackupAssumption DEF Excess
<1>2. IsFiniteSet(Excess) /\ IsFiniteSet(DOMAIN files \ Excess)
  BY <1>1, FS_Subset, FS_Difference
<1>3. PICK x \in Excess : \A y \in Excess : ~ Older(x, y)
  BY <1>1, <1>2, Newest
<1> DEFINE newer == {m \in DOMAIN files : Older(x, m)}
<1>4. Cardinality(newer) >= retention
  BY <1>3, Zenon DEF Excess
<1>5. newer \subseteq DOMAIN files \ Excess
  BY <1>3
<1>6. Cardinality(newer) <= Cardinality(DOMAIN files \ Excess)
  BY <1>2, <1>5, FS_Subset
<1>7. Cardinality(newer) \in Nat /\ Cardinality(DOMAIN files \ Excess) \in Nat
  BY <1>2, <1>5, FS_Subset, FS_CardinalityType
<1> HIDE DEF newer
<1> QED
  BY <1>1, <1>4, <1>6, <1>7

LEMMA EnoughFacts ==
  ASSUME NEW c \in Nat
  PROVE  /\ Enough(c) \in Nat /\ Enough(c + 1) \in Nat
         /\ Enough(c) <= Enough(c + 1) /\ Enough(c + 1) <= Enough(c) + 1
         /\ retention > 0 => Enough(c + 1) <= retention
BY BackupAssumption DEF Enough

\* Whole seconds of the clock.
LEMMA Seconds ==
  ASSUME NEW a \in Nat, NEW b \in Nat, NEW d \in Nat \ {0}
  PROVE  /\ a \div d \in Nat
         /\ a <= b => a \div d <= b \div d
         /\ a + d <= b => a \div d < b \div d
OBVIOUS

\* The names in use, when seconds pass between the calls.
LEMMA NamesPass ==
  ASSUME TypeOK, StoredInv, RetainedInv, MinGap >= TicksPerSecond, [Next]_vars
  PROVE  /\ \A n \in DOMAIN origin' :
              /\ n.second <= now' \div TicksPerSecond
              /\ pc' = "idle" => n.second <= resting' \div TicksPerSecond
         /\ \A content : CreateLegacy(content) => LegacyName \notin DOMAIN files
<1>0. /\ now \in Nat /\ resting \in Nat /\ now' \in Nat /\ now <= now'
      /\ TicksPerSecond \in Nat \ {0} /\ MinGap \in Nat
      /\ \A n \in DOMAIN origin : n.second \in Nat
  <2>1. now \in Nat /\ resting \in Nat /\ DOMAIN origin \subseteq Names
    BY DEF TypeOK
  <2>2. \A n \in Names : n.second \in Nat
    BY DEF Names
  <2>3. now' = now \/ now' = now + 1
    BY DEF Next, CreateLegacy, CreateManifest, FillBlob, OpenManifest, Fill, Prune, Unlink,
           UnlinkBlob, Return, CutShort, Tick, vars
  <2> QED
    BY <2>1, <2>2, <2>3, BackupAssumption
<1>1. \A n \in DOMAIN origin : n.second <= now' \div TicksPerSecond
  <2>1. now \div TicksPerSecond <= now' \div TicksPerSecond
        /\ now \div TicksPerSecond \in Nat /\ now' \div TicksPerSecond \in Nat
    BY <1>0, Seconds
  <2> QED
    BY <1>0, <2>1 DEF RetainedInv
<1>2. ASSUME NEW name, NEW content, Start(name, content), name.second = Second, pc' # "idle", now' = now
      PROVE  \A n \in DOMAIN origin' :
               /\ n.second <= now' \div TicksPerSecond
               /\ pc' = "idle" => n.second <= resting' \div TicksPerSecond
  <2>1. DOMAIN origin' = DOMAIN origin \cup {name}
    BY <1>2 DEF Start, Put
  <2>2. name.second <= now' \div TicksPerSecond
    BY <1>0, <1>2, Seconds DEF Second
  <2> QED
    BY <1>1, <1>2, <2>1, <2>2
<1>3. ASSUME NEW content, CreateLegacy(content) PROVE LegacyName \notin DOMAIN files
  <2>1. pc = "idle" /\ now >= resting + MinGap
    BY <1>3 DEF CreateLegacy, Start
  <2>2. resting + TicksPerSecond <= now
    BY <1>0, <2>1
  <2>3. resting \div TicksPerSecond < Second /\ resting \div TicksPerSecond \in Nat /\ Second \in Nat
    BY <1>0, <2>2, Seconds DEF Second
  <2>4. LegacyName.second = Second
    BY DEF LegacyName
  <2>5. \A n \in DOMAIN origin : n.second <= resting \div TicksPerSecond
    BY <2>1 DEF RetainedInv
  <2> QED
    BY <1>0, <2>3, <2>4, <2>5 DEF StoredInv
<1>4. ASSUME NEW content \in Contents, CreateLegacy(content)
      PROVE  \A n \in DOMAIN origin' :
               /\ n.second <= now' \div TicksPerSecond
               /\ pc' = "idle" => n.second <= resting' \div TicksPerSecond
  BY <1>2, <1>4 DEF CreateLegacy, LegacyName
<1>5. ASSUME NEW content \in Contents, NEW token \in Tokens, CreateManifest(token, content)
      PROVE  \A n \in DOMAIN origin' :
               /\ n.second <= now' \div TicksPerSecond
               /\ pc' = "idle" => n.second <= resting' \div TicksPerSecond
  BY <1>2, <1>5 DEF CreateManifest, ManifestName
<1>6. ASSUME UNCHANGED origin,
             \/ pc' # "idle" \/ (pc' = pc /\ resting' = resting) \/ (resting' = now /\ now' = now)
      PROVE  \A n \in DOMAIN origin' :
               /\ n.second <= now' \div TicksPerSecond
               /\ pc' = "idle" => n.second <= resting' \div TicksPerSecond
  BY <1>1, <1>6 DEF RetainedInv
<1>7. \/ \E content \in Contents : \/ CreateLegacy(content)
                                   \/ \E token \in Tokens : CreateManifest(token, content)
      \/ /\ UNCHANGED origin
         /\ \/ pc' # "idle" \/ (pc' = pc /\ resting' = resting) \/ (resting' = now /\ now' = now)
  <2>1. CASE FillBlob \/ OpenManifest \/ Fill \/ Prune \/ UnlinkBlob
    BY <2>1 DEF FillBlob, OpenManifest, Fill, Prune, UnlinkBlob, history
  <2>2. CASE Unlink
    BY <2>2 DEF Unlink, history
  <2>3. CASE Return \/ CutShort
    BY <2>3 DEF Return, CutShort, End
  <2>4. CASE Tick \/ UNCHANGED vars
    BY <2>4 DEF Tick, vars, callVars, history
  <2> QED
    BY <2>1, <2>2, <2>3, <2>4 DEF Next
<1> QED
  BY <1>3, <1>4, <1>5, <1>6, <1>7

LEMMA RetainedStep ==
  ASSUME TypeOK, Finite, StoredInv, CallInv, RetainedInv, [Next]_vars
  PROVE  RetainedInv'
<1> SUFFICES ASSUME MinGap >= TicksPerSecond PROVE RetainedInv'
  BY DEF RetainedInv
<1> DEFINE D == DOMAIN files
           torn == Cardinality(TornFiles)
           size == Cardinality(D)
           done == returned.count
<1>1. /\ IsFiniteSet(D) /\ IsFiniteSet(TornFiles) /\ TornFiles \subseteq D
      /\ torn \in Nat /\ size \in Nat /\ cut.count \in Nat /\ done \in Nat
  <2>1. IsFiniteSet(D) /\ TornFiles \subseteq D
    BY DEF Finite, TornFiles
  <2> QED
    BY <2>1, FS_Subset, FS_CardinalityType DEF TypeOK
<1>2. /\ pc = "fill" => call.name \in TornFiles
      /\ torn <= cut.count + (IF pc = "fill" THEN 1 ELSE 0)
      /\ size >= Enough(done) + (IF pc \in {"fill", "prune"} THEN 1 ELSE 0)
      /\ pc \in {"unlink", "unlinkBlob"} => Cardinality(D \ victims) >= Enough(done + 1)
  BY DEF RetainedInv
<1>3. /\ Enough(done) \in Nat /\ Enough(done + 1) \in Nat
      /\ Enough(done) <= Enough(done + 1) /\ Enough(done + 1) <= Enough(done) + 1
      /\ retention > 0 => Enough(done + 1) <= retention
  BY <1>1, EnoughFacts
<1>4. /\ \A n \in DOMAIN origin' :
           /\ n.second <= now' \div TicksPerSecond
           /\ pc' = "idle" => n.second <= resting' \div TicksPerSecond
      /\ \A content : CreateLegacy(content) => LegacyName \notin D
  BY NamesPass
<1> HIDE DEF torn, size, done
\* A file is opened under a new name.
<1>5. ASSUME NEW name, name \notin D, files' = Put(files, name, TornFile), pc' = "fill",
             pc \in {"idle", "manifest"}, call'.name = name, UNCHANGED <<cut, returned>>
      PROVE  RetainedInv'
  <2>1. DOMAIN files' = D \cup {name} /\ TornFiles' = TornFiles \cup {name} /\ name \notin TornFiles
    BY <1>5 DEF Put, TornFiles, TornFile
  <2>2. Cardinality(DOMAIN files') = size + 1 /\ Cardinality(TornFiles') = torn + 1
    <3>1. Cardinality(D \cup {name}) = size + 1
      BY <1>1, <1>5, FS_AddElement DEF size
    <3>2. Cardinality(TornFiles \cup {name}) = torn + 1
      BY <1>1, <2>1, FS_AddElement DEF torn
    <3> QED
      BY <2>1, <3>1, <3>2
  <2>3. Enough(returned'.count) = Enough(done)
    BY <1>5 DEF done
  <2>4. call'.name \in TornFiles'
    BY <1>5, <2>1
  <2> QED
    BY <1>1, <1>2, <1>3, <1>4, <1>5, <2>2, <2>3, <2>4 DEF RetainedInv
<1>6. ASSUME NEW content \in Contents, CreateLegacy(content) PROVE RetainedInv'
  <2>1. call'.name = LegacyName /\ pc = "idle" /\ LegacyName \notin D
    BY <1>4, <1>6 DEF CreateLegacy, Start
  <2> QED
    BY <1>5, <1>6, <2>1 DEF CreateLegacy
<1>7. CASE OpenManifest
  BY <1>5, <1>7 DEF OpenManifest, CallInv, history
<1>8. CASE Fill
  <2>1. /\ pc = "fill" /\ pc' = "prune" /\ UNCHANGED <<cut, returned>>
        /\ files' = Put(files, call.name, FullFile) /\ call.name \in TornFiles
    BY <1>2, <1>8 DEF Fill, history
  <2>2. DOMAIN files' = D /\ TornFiles' = TornFiles \ {call.name}
    BY <2>1 DEF Put, TornFiles, FullFile
  <2>3. Cardinality(TornFiles') = torn - 1 /\ Cardinality(DOMAIN files') = size
    BY <1>1, <2>1, <2>2, FS_RemoveElement DEF torn, size
  <2>4. Enough(returned'.count) = Enough(done)
    BY <2>1 DEF done
  <2> QED
    BY <1>1, <1>2, <1>3, <1>4, <2>1, <2>3, <2>4 DEF RetainedInv
<1>9. CASE Prune
  <2>1. /\ pc = "prune" /\ pc' = "unlink" /\ UNCHANGED <<files, cut, returned>>
        /\ victims' = Excess
    BY <1>9 DEF Prune, history
  <2>2. Cardinality(D \ Excess) >= Enough(done + 1)
    <3>1. CASE Excess = {}
      <4>1. D \ Excess = D
        BY <3>1
      <4>2. Cardinality(D \ Excess) = size
        BY <4>1 DEF size
      <4> QED
        BY <1>1, <1>2, <1>3, <2>1, <4>2
    <3>2. CASE Excess # {}
      <4>1. retention > 0 /\ Cardinality(D \ Excess) >= retention
        BY <1>1, <3>2, ExcessLeaves
      <4>2. Cardinality(D \ Excess) \in Nat /\ retention \in Nat
        BY <1>1, FS_Difference, FS_CardinalityType, BackupAssumption
      <4> QED
        BY <1>3, <4>1, <4>2
    <3> QED
      BY <3>1, <3>2
  <2>3. /\ Cardinality(TornFiles') = torn /\ Cardinality(DOMAIN files') = size
        /\ Enough(returned'.count) = Enough(done) /\ Enough(returned'.count + 1) = Enough(done + 1)
        /\ Cardinality(DOMAIN files' \ victims') = Cardinality(D \ Excess)
    BY <2>1 DEF torn, size, done, TornFiles
  <2> QED
    BY <1>1, <1>2, <1>3, <1>4, <2>1, <2>2, <2>3 DEF RetainedInv
\* While victims are removed, and when the call ends.
<1>10. ASSUME pc \in {"unlink", "unlinkBlob"}, DOMAIN files' \ victims' = D \ victims,
              DOMAIN files' \subseteq D, \A n \in DOMAIN files' : files'[n] = files[n],
              pc' \in {"unlink", "unlinkBlob"}, UNCHANGED <<cut, returned>>
       PROVE  RetainedInv'
  <2>1. TornFiles' \subseteq TornFiles
    BY <1>10 DEF TornFiles
  <2>2. /\ Cardinality(TornFiles') <= torn /\ Cardinality(TornFiles') \in Nat
        /\ Cardinality(D \ victims) <= Cardinality(DOMAIN files')
        /\ Cardinality(DOMAIN files') \in Nat /\ Cardinality(D \ victims) \in Nat
    <3>1. IsFiniteSet(TornFiles') /\ IsFiniteSet(DOMAIN files') /\ D \ victims \subseteq DOMAIN files'
      BY <1>1, <1>10, <2>1, FS_Subset
    <3>2. Cardinality(TornFiles') <= torn
      BY <1>1, <2>1, FS_Subset DEF torn
    <3>3. Cardinality(D \ victims) <= Cardinality(DOMAIN files') /\ IsFiniteSet(D \ victims)
      BY <3>1, FS_Subset
    <3> QED
      BY <3>1, <3>2, <3>3, FS_CardinalityType
  <2>3. /\ Enough(returned'.count) = Enough(done) /\ Enough(returned'.count + 1) = Enough(done + 1)
        /\ Cardinality(DOMAIN files' \ victims') = Cardinality(D \ victims)
    BY <1>10 DEF done
  <2> QED
    BY <1>1, <1>2, <1>3, <1>4, <1>10, <2>2, <2>3 DEF RetainedInv
<1>11. CASE Unlink
  <2>1. PICK v \in victims :
          /\ files' = Remove(files, v)
          /\ IF v.format = "manifest"
               THEN pc' = "unlinkBlob" /\ UNCHANGED victims
               ELSE victims' = victims \ {v} /\ UNCHANGED pc
    BY <1>11 DEF Unlink
  <2>2. /\ DOMAIN files' = DOMAIN files \ {v} /\ pc = "unlink"
        /\ \A n \in DOMAIN files' : files'[n] = files[n]
        /\ UNCHANGED <<cut, returned>>
    BY <1>11, <2>1 DEF Unlink, Remove, history
  <2> QED
    BY <1>10, <2>1, <2>2
<1>12. CASE UnlinkBlob
  <2>1. PICK v \in victims \ DOMAIN files : victims' = victims \ {v}
    BY <1>12 DEF UnlinkBlob
  <2>2. pc = "unlinkBlob" /\ pc' = "unlink" /\ UNCHANGED <<files, cut, returned>>
    BY <1>12 DEF UnlinkBlob, history
  <2> QED
    BY <1>10, <2>1, <2>2
<1>13. CASE Return
  <2>1. /\ pc = "unlink" /\ victims = {} /\ pc' = "idle" /\ UNCHANGED files
        /\ returned'.count = done + 1 /\ cut'.count = cut.count
    BY <1>13 DEF Return, End, TypeOK, done
  <2>2. D \ victims = D
    BY <2>1
  <2>3. /\ Cardinality(TornFiles') = torn /\ Cardinality(DOMAIN files') = size
        /\ Cardinality(D \ victims) = size
    BY <2>1, <2>2 DEF torn, size, TornFiles
  <2> QED
    BY <1>1, <1>2, <1>3, <1>4, <2>1, <2>3 DEF RetainedInv
<1>14. CASE CutShort
  <2>1. pc' = "idle" /\ UNCHANGED <<files, returned>> /\ cut'.count = cut.count + 1
    BY <1>14 DEF CutShort, End
  <2>2. /\ Cardinality(TornFiles') = torn /\ Cardinality(DOMAIN files') = size
        /\ Enough(returned'.count) = Enough(done)
    BY <2>1 DEF torn, size, done, TornFiles
  <2> QED
    BY <1>1, <1>2, <1>3, <1>4, <2>1, <2>2 DEF RetainedInv
<1>15. ASSUME UNCHANGED <<files, cut, returned>>,
              \/ pc = "idle" /\ pc' = "fillBlob"
              \/ pc = "fillBlob" /\ pc' = "manifest"
              \/ UNCHANGED <<pc, call, victims>>
       PROVE  RetainedInv'
  <2>1. /\ Cardinality(TornFiles') = torn /\ Cardinality(DOMAIN files') = size
        /\ Enough(returned'.count) = Enough(done) /\ Enough(returned'.count + 1) = Enough(done + 1)
        /\ TornFiles' = TornFiles
    BY <1>15 DEF torn, size, done, TornFiles
  <2>2. UNCHANGED victims => Cardinality(DOMAIN files' \ victims') = Cardinality(D \ victims)
    BY <1>15
  <2> QED
    BY <1>1, <1>2, <1>3, <1>4, <1>15, <2>1, <2>2 DEF RetainedInv
<1>16. ASSUME NEW content \in Contents, NEW token \in Tokens, CreateManifest(token, content)
       PROVE  RetainedInv'
  BY <1>15, <1>16 DEF CreateManifest, Start
<1>17. CASE FillBlob \/ Tick \/ UNCHANGED vars
  BY <1>15, <1>17 DEF FillBlob, Tick, vars, callVars, history
<1> QED
  BY <1>6, <1>7, <1>8, <1>9, <1>11, <1>12, <1>13, <1>14, <1>16, <1>17 DEF Next

-----------------------------------------------------------------------------
(* Blobs without a manifest.                                               *)

Orphans == DOMAIN blobs \ DOMAIN files

\* The one of the call in progress.
Own(step) == IF step \in {"fillBlob", "manifest", "unlinkBlob"} THEN 1 ELSE 0

\* One more orphan, or one fewer, is one the call in progress accounts for.
LEMMA OneOrphan ==
  ASSUME Finite, TypeOK, OrphansAccounted, NEW name
  PROVE  /\ Cardinality(Orphans) \in Nat /\ cut.count \in Nat
         /\ Cardinality(Orphans) <= cut.count + Own(pc)
         /\ Cardinality(Orphans \cup {name}) \in Int
         /\ Cardinality(Orphans \cup {name}) <= Cardinality(Orphans) + 1
         /\ name \in Orphans => Cardinality(Orphans \ {name}) = Cardinality(Orphans) - 1
<1>1. IsFiniteSet(Orphans) /\ Cardinality(Orphans) \in Nat /\ cut.count \in Nat
  BY FS_Difference, FS_CardinalityType DEF Orphans, Finite, TypeOK
<1>2. Cardinality(Orphans) <= cut.count + Own(pc)
  BY DEF Orphans, Own, OrphansAccounted
<1>3. /\ Cardinality(Orphans \cup {name}) =
           IF name \in Orphans THEN Cardinality(Orphans) ELSE Cardinality(Orphans) + 1
      /\ Cardinality(Orphans \ {name}) =
           IF name \in Orphans THEN Cardinality(Orphans) - 1 ELSE Cardinality(Orphans)
  BY <1>1, FS_AddElement, FS_RemoveElement
<1> QED
  BY <1>1, <1>2, <1>3

LEMMA OrphansStep ==
  ASSUME TypeOK, Finite, StoredInv, CallInv, OrphansAccounted, [Next]_vars
  PROVE  OrphansAccounted'
<1> SUFFICES Cardinality(Orphans') <= cut'.count + Own(pc')
  BY DEF Orphans, Own, OrphansAccounted
<1>1. ASSUME NEW content \in Contents, CreateLegacy(content)
      PROVE  Orphans' = Orphans /\ pc = "idle" /\ pc' = "fill" /\ cut' = cut
  <2>1. DOMAIN files' = DOMAIN files \cup {LegacyName} /\ blobs' = blobs
    BY <1>1 DEF CreateLegacy, Put
  <2>2. LegacyName \notin DOMAIN blobs
    BY LegacyNameType DEF StoredInv
  <2> QED
    BY <1>1, <2>1, <2>2 DEF CreateLegacy, Start, Orphans
<1>2. ASSUME NEW content \in Contents, NEW token \in Tokens, CreateManifest(token, content)
      PROVE  /\ Orphans' \subseteq Orphans \cup {ManifestName(token)}
             /\ ManifestName(token) \notin DOMAIN files
             /\ Orphans' = Orphans \cup {ManifestName(token)}
             /\ pc = "idle" /\ pc' = "fillBlob" /\ cut' = cut
  <2>1. DOMAIN blobs' = DOMAIN blobs \cup {ManifestName(token)} /\ files' = files
    BY <1>2 DEF CreateManifest, Put
  <2>2. ManifestName(token) \notin DOMAIN files
    BY <1>2 DEF CreateManifest, StoredInv
  <2> QED
    BY <1>2, <2>1, <2>2 DEF CreateManifest, Start, Orphans
<1>3. ASSUME FillBlob
      PROVE  Orphans' = Orphans /\ pc = "fillBlob" /\ pc' = "manifest" /\ cut' = cut
  BY <1>3 DEF FillBlob, Put, CallInv, Orphans, history
<1>4. ASSUME OpenManifest
      PROVE  /\ Orphans' = Orphans \ {call.name} /\ call.name \in Orphans
             /\ pc = "manifest" /\ pc' = "fill" /\ cut' = cut
  BY <1>4 DEF OpenManifest, Put, CallInv, Orphans, history
<1>5. ASSUME Fill
      PROVE  Orphans' = Orphans /\ pc = "fill" /\ pc' = "prune" /\ cut' = cut
  BY <1>5 DEF Fill, Put, CallInv, Orphans, history
<1>6. ASSUME Unlink
      PROVE  /\ cut' = cut /\ pc = "unlink"
             /\ \/ Orphans' = Orphans /\ pc' = "unlink"
                \/ (\E v : Orphans' = Orphans \cup {v}) /\ pc' = "unlinkBlob"
  <2>1. PICK v \in victims :
          /\ files' = Remove(files, v)
          /\ IF v.format = "manifest"
               THEN pc' = "unlinkBlob" /\ UNCHANGED victims
               ELSE victims' = victims \ {v} /\ UNCHANGED pc
    BY <1>6 DEF Unlink
  <2>2. /\ DOMAIN files' = DOMAIN files \ {v} /\ pc = "unlink" /\ v \in DOMAIN files
        /\ UNCHANGED <<blobs, cut>>
    BY <1>6, <2>1 DEF Unlink, Remove, history, CallInv
  <2>3. CASE v.format = "manifest"
    <3>1. v \in DOMAIN blobs
      BY <2>2, <2>3 DEF StoredInv
    <3>2. Orphans' = Orphans \cup {v}
      BY <2>2, <3>1 DEF Orphans
    <3> QED
      BY <2>1, <2>2, <2>3, <3>2
  <2>4. CASE v.format # "manifest"
    <3>1. v \notin DOMAIN blobs
      BY <2>4 DEF StoredInv
    <3>2. Orphans' = Orphans
      BY <2>2, <3>1 DEF Orphans
    <3> QED
      BY <2>1, <2>2, <2>4, <3>2
  <2> QED
    BY <2>3, <2>4
<1>7. ASSUME UnlinkBlob
      PROVE  /\ \E v \in Orphans : Orphans' = Orphans \ {v}
             /\ pc = "unlinkBlob" /\ pc' = "unlink" /\ cut' = cut
  <2>1. PICK v \in victims \ DOMAIN files : blobs' = Remove(blobs, v)
    BY <1>7 DEF UnlinkBlob
  <2>2. DOMAIN blobs' = DOMAIN blobs \ {v} /\ v \in DOMAIN blobs /\ v \notin DOMAIN files
    BY <1>7, <2>1 DEF UnlinkBlob, Remove, CallInv
  <2> QED
    BY <1>7, <2>2 DEF UnlinkBlob, history, Orphans
<1>8. ASSUME Prune \/ Return \/ Tick \/ UNCHANGED vars
      PROVE  /\ Orphans' = Orphans /\ cut'.count = cut.count
             /\ Own(pc') = Own(pc)
  BY <1>8 DEF Prune, Return, End, Tick, vars, callVars, history, Orphans, Own, TypeOK
<1>9. ASSUME CutShort
      PROVE  Orphans' = Orphans /\ cut'.count = cut.count + 1 /\ pc' = "idle"
  BY <1>9 DEF CutShort, End, Orphans
<1>10. \/ Orphans' = Orphans /\ cut'.count = cut.count /\ Own(pc') = Own(pc)
       \/ Orphans' = Orphans /\ cut'.count = cut.count + 1 /\ Own(pc') = 0
       \/ /\ \E v : Orphans' = Orphans \cup {v}
          /\ cut'.count = cut.count /\ Own(pc) = 0 /\ Own(pc') = 1
       \/ /\ \E v \in Orphans : Orphans' = Orphans \ {v}
          /\ cut'.count = cut.count /\ Own(pc') = 0 /\ Own(pc) = 1
  <2>1. /\ Own("idle") = 0 /\ Own("fill") = 0 /\ Own("prune") = 0 /\ Own("unlink") = 0
        /\ Own("fillBlob") = 1 /\ Own("manifest") = 1 /\ Own("unlinkBlob") = 1
    BY DEF Own
  <2> QED
    BY <1>1, <1>2, <1>3, <1>4, <1>5, <1>6, <1>7, <1>8, <1>9, <2>1 DEF Next
<1>11. /\ Cardinality(Orphans) \in Nat /\ cut.count \in Nat /\ Own(pc) \in {0, 1}
       /\ Cardinality(Orphans) <= cut.count + Own(pc)
  BY OneOrphan DEF Own
<1>12. \A v : Cardinality(Orphans \cup {v}) \in Int /\ Cardinality(Orphans \cup {v}) <= Cardinality(Orphans) + 1
  BY OneOrphan
<1>13. \A v \in Orphans : Cardinality(Orphans \ {v}) = Cardinality(Orphans) - 1
  BY OneOrphan
<1>14. CASE Orphans' = Orphans /\ cut'.count = cut.count /\ Own(pc') = Own(pc)
  BY <1>11, <1>14
<1>15. CASE Orphans' = Orphans /\ cut'.count = cut.count + 1 /\ Own(pc') = 0
  BY <1>11, <1>15
<1>16. CASE /\ \E v : Orphans' = Orphans \cup {v}
            /\ cut'.count = cut.count /\ Own(pc) = 0 /\ Own(pc') = 1
  <2>1. PICK v : Orphans' = Orphans \cup {v}
    BY <1>16
  <2>2. /\ Cardinality(Orphans') \in Int
        /\ Cardinality(Orphans') <= Cardinality(Orphans) + 1
    BY <1>12, <2>1
  <2>3. cut'.count = cut.count /\ Own(pc) = 0 /\ Own(pc') = 1
    BY <1>16
  <2> QED
    BY <1>11, <2>2, <2>3
<1>17. CASE /\ \E v \in Orphans : Orphans' = Orphans \ {v}
            /\ cut'.count = cut.count /\ Own(pc') = 0 /\ Own(pc) = 1
  BY <1>11, <1>13, <1>17
<1> QED
  BY <1>10, <1>14, <1>15, <1>16, <1>17

-----------------------------------------------------------------------------
(* The theorems.                                                           *)

LEMMA Invariant == Spec => []IInv
<1>1. Init => IInv
  <2> SUFFICES ASSUME Init PROVE IInv
    OBVIOUS
  <2>1. /\ DOMAIN files = {} /\ DOMAIN blobs = {} /\ DOMAIN origin = {}
        /\ pc = "idle" /\ cut.count = 0 /\ returned.count = 0
    BY DEF Init
  <2>2. TypeOK
    <3>1. now \in Nat /\ resting \in Nat /\ created \in Nat
      BY BackupAssumption DEF Init
    <3>2. /\ call \in [name : Names \cup {Nothing}, content : Contents \cup {Garbage}]
          /\ returned \in [count : Nat, name : Names \cup {Nothing}]
          /\ cut \in [count : Nat, last : BOOLEAN] /\ victims \subseteq Names
      BY DEF Init, NoCall
    <3> QED
      BY <2>1, <3>1, <3>2 DEF TypeOK
  <2>3. Finite /\ StoredInv /\ CallInv /\ BoundInv
    BY <2>1, FS_EmptySet DEF Finite, StoredInv, CallInv, BoundInv, HistoryBounded
  <2>4. OrphansAccounted
    <3>1. DOMAIN blobs \ DOMAIN files = {}
      BY <2>1
    <3> QED
      BY <2>1, <3>1, FS_EmptySet DEF OrphansAccounted
  <2>5. PacedInv
    BY <2>1, BackupAssumption DEF PacedInv, ReturnedExists, Init
  <2>6. RetainedInv
    <3>1. TornFiles = {} /\ Enough(0) = 0
      BY <2>1, BackupAssumption DEF TornFiles, Enough
    <3> QED
      BY <2>1, <3>1, FS_EmptySet DEF RetainedInv
  <2> QED
    BY <2>2, <2>3, <2>4, <2>5, <2>6 DEF IInv
<1>2. IInv /\ [Next]_vars => IInv'
  BY TypesStep, FiniteStep, StoredStep, CallStep, BoundStep, OrphansStep, PacedStep, RetainedStep DEF IInv
<1> QED
  BY <1>1, <1>2, PTL DEF Spec

\* The directory and the locals of a call keep their shapes
\* (backup_manager.py:118-167).
THEOREM Typed == Spec => []TypeOK
<1>1. IInv => TypeOK
  BY DEF IInv
<1> QED
  BY <1>1, Invariant, PTL

\* A manifest that can be read has its blob, whatever was cut short where
\* (backup_manager.py:135-136, 151-152, 205-208).
THEOREM BlobKept == Spec => []ManifestHasBlob
<1>1. IInv => ManifestHasBlob
  <2> SUFFICES ASSUME IInv, NEW n \in DOMAIN files, n.format = "manifest", files[n].state = "ok"
               PROVE  RestoreManifest(n) # Raised
    BY DEF ManifestHasBlob
  <2>1. n \in DOMAIN blobs /\ blobs[n].state = "ok" /\ blobs[n].content = files[n].content
    BY DEF IInv, StoredInv
  <2>2. blobs[n].content \in Contents \cup {Garbage}
    BY <2>1 DEF IInv, TypeOK, File
  <2> QED
    BY <2>1, <2>2, BackupAssumption DEF RestoreManifest
<1> QED
  BY <1>1, Invariant, PTL

\* A restore gives back what was backed up under that name, or raises
\* (backup_manager.py:94-112, 169-195).
THEOREM FaithfulRestore == Spec => []RestoreFaithful
<1>1. IInv => RestoreFaithful
  <2> SUFFICES ASSUME IInv, NEW n \in DOMAIN files, encrypt \/ n.format = "manifest"
               PROVE  RestoreBackup(n) = Raised \/ RestoreBackup(n) \in origin[n]
    BY DEF RestoreFaithful
  <2>1. CASE n.format = "manifest"
    <3>1. RestoreBackup(n) = RestoreManifest(n)
      BY <2>1 DEF RestoreBackup
    <3> QED
      BY <2>1, <3>1 DEF RestoreManifest, IInv, StoredInv
  <2>2. CASE n.format # "manifest"
    <3>1. RestoreBackup(n) = RestoreLegacy(n)
      BY <2>2 DEF RestoreBackup
    <3> QED
      BY <2>2, <3>1 DEF RestoreLegacy, IInv, StoredInv
  <2> QED
    BY <2>1, <2>2
<1> QED
  BY <1>1, Invariant, PTL

\* Once a creation has returned, the directory holds no more backups than the
\* retention count (backup_manager.py:197-203).
THEOREM BoundedHistory == Spec => []HistoryBounded
<1>1. IInv => HistoryBounded
  BY DEF IInv, BoundInv, HistoryBounded
<1> QED
  BY <1>1, Invariant, PTL

\* Each call cut short leaves one blob without a manifest at most
\* (backup_manager.py:118-125, 135-136, 205-208).
THEOREM FewOrphans == Spec => []OrphansAccounted
<1>1. IInv => OrphansAccounted
  BY DEF IInv
<1> QED
  BY <1>1, Invariant, PTL

\* When callers keep a tick of st_mtime between their calls, a backup that
\* create_backup returned is there: the prune at its end did not take it for an
\* older one (backup_manager.py:118-125, 197-203).
THEOREM ReturnedKept ==
  ASSUME MinGap > 0
  PROVE  Spec => []ReturnedExists
<1>1. IInv => ReturnedExists
  BY DEF IInv, PacedInv
<1> QED
  BY <1>1, Invariant, PTL

\* When callers keep a second between their calls, as many backups can be
\* restored as were returned, up to the retention count, less one for each call
\* cut short (backup_manager.py:197-203).
THEOREM HistoryKept ==
  ASSUME MinGap >= TicksPerSecond
  PROVE  Spec => []HistoryRetained
<1>1. IInv => HistoryRetained
  <2> SUFFICES ASSUME IInv PROVE HistoryRetained
    OBVIOUS
  <2>1. IsFiniteSet(DOMAIN files) /\ Intact = DOMAIN files \ TornFiles /\ TornFiles \subseteq DOMAIN files
    BY DEF IInv, Finite, Intact, TornFiles
  <2>2. /\ Cardinality(Intact) = Cardinality(DOMAIN files) - Cardinality(DOMAIN files \cap TornFiles)
        /\ DOMAIN files \cap TornFiles = TornFiles
    BY <2>1, FS_Difference
  <2>3. Cardinality(DOMAIN files) \in Nat /\ Cardinality(TornFiles) \in Nat
    BY <2>1, FS_Subset, FS_CardinalityType
  <2>4. returned.count \in Nat /\ cut.count \in Nat /\ Enough(returned.count) \in Nat
    BY EnoughFacts DEF IInv, TypeOK
  <2>5. /\ Cardinality(TornFiles) <= cut.count + (IF pc = "fill" THEN 1 ELSE 0)
        /\ Cardinality(DOMAIN files)
             >= Enough(returned.count) + (IF pc \in {"fill", "prune"} THEN 1 ELSE 0)
    BY DEF IInv, RetainedInv
  <2>6. Cardinality(Intact) >= Enough(returned.count) - cut.count
    <3>1. Cardinality(Intact) = Cardinality(DOMAIN files) - Cardinality(TornFiles)
      BY <2>2
    <3> QED
      BY <2>3, <2>4, <2>5, <3>1
  <2> QED
    BY <2>6 DEF HistoryRetained, Enough
<1> QED
  BY <1>1, Invariant, PTL
=============================================================================
