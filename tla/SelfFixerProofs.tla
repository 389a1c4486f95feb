--------------------------- MODULE SelfFixerProofs ---------------------------
(***************************************************************************)
(* For every set of contents, any retention, with or without a replica and *)
(* with any number of edits and crashes, whatever the file holds when a    *)
(* process starts: the types, and three safety invariants of SelfFixer.    *)
(* The fourth needs the wiring: a process starts in a file somebody wrote. *)
(***************************************************************************)
EXTENDS SelfFixer, SequenceTheorems, TLAPS

\* After the scan, and not overtaken by a later write.
AfterScan == {"backup", "fillBackup", "hash", "openState", "writeState"}

\* A directory named by newest has a last backup.
NewestInv == \A m \in newest : backups[m] # <<>>

\* What was read is what is there, until a later write overtakes it.
ScanInv ==
  pc \in AfterScan /\ "scan" \notin stale => target = scan /\ scan \in Clean

PayloadInv == pc = "fillBackup" /\ "scan" \notin stale => payload = scan

HashInv ==
  pc \in {"openState", "writeState"} =>
    /\ "hash" \notin stale => snapshot.code_hash = CurrentHash
    /\ "scan" \notin stale => snapshot.code_hash = scan

\* A write overtakes all three reads, and a seal the digest has overtaken
\* does not count as one that matches.
StaleInv ==
  /\ "hash" \in stale => "seal" \in stale
  /\ pc = "fillTarget" => stale = Reads

HasIntact(directory) == \E i \in 1 .. Len(directory) : directory[i].state = "ok"

\* Where the pass is tells which directories it has already written.
IntactInv ==
  /\ state_file.state # "absent" \/ pc \in {"hash", "openState", "writeState"}
       => \A m \in Managers : HasIntact(backups[m])
  /\ manager = "replica" => pc \in {"backup", "fillBackup"} /\ HasIntact(backups["primary"])
  /\ pc = "fillBackup" => backups[manager] # <<>>

\* What can be restored, or is being written, was written by somebody, unless
\* a pass created the file; and so is the file, except while it is restored.
Genuine(directory) ==
  \A i \in 1 .. Len(directory) : directory[i].state = "ok" => directory[i].content \in Authored

WholeInv ==
  ~ initialized =>
    /\ \A m \in Managers : Genuine(backups[m])
    /\ pc \in {"open", "fillTarget", "fillBackup"} => payload \in Authored
    /\ \/ target \in Authored \cup {Missing}
       \/ pc = "down"
       \/ pc = "fillTarget" /\ linked

IInv ==
  /\ TypeOK
  /\ NewestInv /\ ScanInv /\ PayloadInv /\ HashInv /\ StaleInv /\ IntactInv
  /\ NoFalseAlarm

-----------------------------------------------------------------------------
(* The directories.                                                        *)

\* Pruning keeps the last backup of a directory.
LEMMA RetainedKeepsLast ==
  ASSUME NEW directory \in Seq(Backup), directory # <<>>
  PROVE  /\ Retained(directory) \in Seq(Backup)
         /\ Retained(directory) # <<>>
         /\ Retained(directory)[Len(Retained(directory))] = directory[Len(directory)]
<1> DEFINE n == Len(directory)
           k == n - retention
<1>1. n \in Nat \ {0} /\ retention \in Nat
  BY FixerAssumption
<1>2. CASE retention > 0 /\ k > 0
  <2>1. Retained(directory) = SubSeq(directory, k + 1, n)
    BY <1>2 DEF Retained
  <2>2. \A i \in k + 1 .. n : directory[i] \in Backup
    BY <1>1, <1>2
  <2>3. /\ SubSeq(directory, k + 1, n) \in Seq(Backup)
        /\ Len(SubSeq(directory, k + 1, n)) = retention
        /\ SubSeq(directory, k + 1, n)[retention] = directory[n]
    <3>1. k + 1 \in Int /\ n \in Int /\ k + 1 <= n /\ n - (k + 1) + 1 = retention
      BY <1>1, <1>2
    <3>2. /\ SubSeq(directory, k + 1, n) \in Seq(Backup)
          /\ Len(SubSeq(directory, k + 1, n)) = n - (k + 1) + 1
          /\ \A i \in 1 .. n - (k + 1) + 1 :
               SubSeq(directory, k + 1, n)[i] = directory[k + 1 + i - 1]
      <4> HIDE DEF n, k
      <4> QED
        BY <2>2, <3>1, SubSeqProperties
    <3>3. retention \in 1 .. n - (k + 1) + 1 /\ k + 1 + retention - 1 = n
      BY <1>1, <1>2, <3>1
    <3> QED
      BY <3>1, <3>2, <3>3
  <2>4. Len(SubSeq(directory, k + 1, n)) > 0
    BY <1>2, <2>3
  <2> HIDE DEF n, k
  <2> QED
    BY <2>1, <2>3, <2>4 DEF n
<1>3. CASE ~ (retention > 0 /\ k > 0)
  BY <1>3 DEF Retained
<1> QED
  BY <1>2, <1>3

\* A backup that is opened lengthens its directory by a torn one.
LEMMA OpenedBackup ==
  ASSUME NEW directory \in Seq(Backup)
  PROVE  /\ Append(directory, Torn) \in Seq(Backup)
         /\ Append(directory, Torn) # <<>>
         /\ \A i \in 1 .. Len(directory) :
              i \in 1 .. Len(Append(directory, Torn)) /\ Append(directory, Torn)[i] = directory[i]
<1>1. Torn \in Backup
  BY LockAssumption DEF Torn, Backup
<1> QED
  BY <1>1, AppendProperties

\* A backup that is filled is the intact last one of its directory.
LEMMA FilledBackup ==
  ASSUME NEW directory \in Seq(Backup), directory # <<>>, NEW content \in Contents
  PROVE  LET after == Retained([directory EXCEPT ![Len(directory)] = Intact(content)])
         IN /\ after \in Seq(Backup)
            /\ after # <<>>
            /\ after[Len(after)] = Intact(content)
<1> DEFINE filled == [directory EXCEPT ![Len(directory)] = Intact(content)]
<1>1. Intact(content) \in Backup
  BY DEF Intact, Backup
<1>2. /\ filled \in Seq(Backup)
      /\ Len(filled) = Len(directory)
      /\ filled[Len(directory)] = Intact(content)
  BY <1>1
<1>3. filled # <<>>
  BY <1>2
<1> HIDE DEF filled
<1>4. /\ Retained(filled) \in Seq(Backup)
      /\ Retained(filled) # <<>>
      /\ Retained(filled)[Len(Retained(filled))] = filled[Len(filled)]
  BY <1>2, <1>3, RetainedKeepsLast
<1> QED
  BY <1>2, <1>4 DEF filled

-----------------------------------------------------------------------------
(* The initial states.                                                     *)

LEMMA InitIInv == Init => IInv
<1> SUFFICES ASSUME Init
             PROVE  IInv
  OBVIOUS
<1>1. LockTypeOK
  BY LockAssumption, FixerAssumption DEF Init, LockInit, LockTypeOK, NoState, NoSnapshot
<1>2. TypeOK
  <2>1. backups \in [Managers -> Seq(Backup)]
    BY DEF Init
  <2> QED
    BY <1>1, <2>1, LockAssumption, FixerAssumption
    DEF Init, TypeOK, Managers, NoScan, Reads
<1>3. NewestInv /\ ScanInv /\ PayloadInv /\ HashInv /\ StaleInv
  BY DEF Init, NewestInv, ScanInv, PayloadInv, HashInv, StaleInv, AfterScan, Reads
<1>4. IntactInv /\ NoFalseAlarm
  BY DEF Init, LockInit, NoState, IntactInv, NoFalseAlarm
<1> QED
  BY <1>2, <1>3, <1>4 DEF IInv

-----------------------------------------------------------------------------
(* Types.                                                                  *)

LEMMA CurrentHashType ==
  ASSUME LockTypeOK
  PROVE  CurrentHash \in Contents
BY LockAssumption DEF LockTypeOK, CurrentHash

LEMMA TypeStep ==
  ASSUME TypeOK, NewestInv, IntactInv, [Next]_vars
  PROVE  TypeOK'
<1> USE DEF TypeOK, LockTypeOK, Goto, history, passVars, lockVars
<1>1. ASSUME End
      PROVE  /\ pc' \in {"down"} /\ manager' \in Managers /\ scan' \in Contents \cup {NoScan}
             /\ payload' \in Contents /\ linked' \in BOOLEAN
             /\ state_file' = state_file
             /\ previous_hash' \in Contents \cup {Unsealed}
             /\ snapshot' \in [code_hash : Contents \cup {Unsealed},
                               previous_hash : Contents \cup {Unsealed}]
  BY <1>1, LockAssumption DEF End, LockForget, NoSnapshot, Managers, NoScan
<1>2. CASE Start
  BY <1>2 DEF Start
<1>3. CASE Wake
  BY <1>3 DEF Wake
<1>4. CASE Stop
  <2>1. End /\ UNCHANGED <<target, backups, newest, history>>
    BY <1>4 DEF Stop
  <2> QED
    BY <1>1, <2>1
<1>5. CASE CheckTarget
  BY <1>5 DEF CheckTarget
<1>6. CASE ReadBackup
  <2>1. PICK m \in newest :
          IF Newest(m).state = "ok"
            THEN /\ payload' = Newest(m).content
                 /\ Goto("open")
                 /\ UNCHANGED <<lockVars, manager, scan>>
            ELSE End
    BY <1>6 DEF ReadBackup
  <2>2. UNCHANGED <<target, backups, newest, history>>
    BY <1>6 DEF ReadBackup
  <2>3. Newest(m).content \in Contents
    <3>1. backups[m] \in Seq(Backup) /\ backups[m] # <<>>
      BY DEF NewestInv
    <3>2. backups[m][Len(backups[m])] \in Backup
      BY <3>1
    <3> QED
      BY <3>2 DEF Newest, Backup
  <2>4. CASE Newest(m).state = "ok"
    BY <2>1, <2>2, <2>3, <2>4
  <2>5. CASE Newest(m).state # "ok"
    <3>1. End
      BY <2>1, <2>5
    <3> QED
      BY <1>1, <2>2, <3>1
  <2> QED
    BY <2>4, <2>5
<1>7. CASE OpenTarget
  BY <1>7, LockAssumption DEF OpenTarget
<1>8. CASE FillTarget \/ CheckRestored
  <2>1. CASE FillTarget
    BY <2>1 DEF FillTarget
  <2>2. CASE CheckRestored /\ target = Missing
    <3>1. End /\ UNCHANGED <<target, backups, newest, history>>
      BY <2>2 DEF CheckRestored
    <3> QED
      BY <1>1, <3>1
  <2>3. CASE CheckRestored /\ target # Missing
    BY <2>3 DEF CheckRestored
  <2> QED
    BY <1>8, <2>1, <2>2, <2>3
<1>9. CASE InitializeTarget
  BY <1>9, LockAssumption DEF InitializeTarget
<1>10. CASE Scan
  <2>1. CASE target \in Unscannable \cup {Missing}
    <3>1. End /\ UNCHANGED <<stale, target, backups, newest, initialized, edits, faults>>
      BY <1>10, <2>1 DEF Scan
    <3> QED
      BY <1>1, <3>1
  <2>2. CASE target \notin Unscannable \cup {Missing}
    BY <1>10, <2>2 DEF Scan
  <2> QED
    BY <2>1, <2>2
<1>11. CASE OpenBackup
  <2>1. CASE target = Missing
    <3>1. End /\ UNCHANGED <<backups, newest, target, history>>
      BY <1>11, <2>1 DEF OpenBackup
    <3> QED
      BY <1>1, <3>1
  <2>2. CASE target # Missing
    <3>1. /\ payload' = target
          /\ backups' = [backups EXCEPT ![manager] = Append(backups[manager], Torn)]
          /\ newest' = IF manager = "primary" THEN {"primary"} ELSE Managers
          /\ pc' = "fillBackup"
          /\ UNCHANGED <<target, lockVars, manager, scan, linked, history>>
      BY <1>11, <2>2 DEF OpenBackup
    <3>2. Append(backups[manager], Torn) \in Seq(Backup)
      BY OpenedBackup
    <3> QED
      BY <2>2, <3>1, <3>2 DEF Managers
  <2> QED
    BY <2>1, <2>2
<1>12. CASE FillBackup
  <2> DEFINE after == Retained([backups[manager] EXCEPT ![Len(backups[manager])] = Intact(payload)])
  <2>1. /\ backups' = [backups EXCEPT ![manager] = after]
        /\ UNCHANGED <<target, lockVars, newest, scan, payload, history, linked>>
        /\ \/ pc' = "backup" /\ manager' = "replica" /\ HasReplica
           \/ pc' = "hash" /\ manager' = "primary"
    BY <1>12 DEF FillBackup
  <2>2. after \in Seq(Backup)
    <3>1. backups[manager] # <<>>
      BY <1>12 DEF IntactInv, FillBackup
    <3> QED
      BY <3>1, FilledBackup
  <2> HIDE DEF after
  <2> QED
    BY <2>1, <2>2 DEF Managers
<1>13. CASE Hash
  <2>1. CurrentHash \in Contents
    BY CurrentHashType
  <2> QED
    BY <1>13, <2>1 DEF Hash, SealRead
<1>14. CASE OpenState
  BY <1>14 DEF OpenState, SealOpen, TornState
<1>15. CASE WriteState
  BY <1>15 DEF WriteState, SealWrite, NoSnapshot
<1>16. CASE Edit
  <2>1. linked' \in BOOLEAN
    <3>1. linked' = FALSE \/ linked' = (linked /\ target' # Missing)
      BY <1>16 DEF Edit
    <3> QED
      BY <3>1
  <2> QED
    BY <1>16, <2>1, FixerAssumption DEF Edit
<1>17. CASE Crash
  <2>1. End /\ faults' = faults + 1 /\ UNCHANGED <<target, backups, newest, stale, initialized, edits>>
    BY <1>17 DEF Crash
  <2> QED
    BY <1>1, <2>1
<1>18. CASE UNCHANGED vars
  BY <1>18 DEF vars
<1> QED
  BY <1>2, <1>3, <1>4, <1>5, <1>6, <1>7, <1>8, <1>9, <1>10, <1>11, <1>12, <1>13,
     <1>14, <1>15, <1>16, <1>17, <1>18 DEF Next, Pass

-----------------------------------------------------------------------------
(* What a pass has read.                                                   *)

\* The end of a process leaves the pass and the state file where they are.
LEMMA EndOfPass ==
  ASSUME End
  PROVE  pc' = "down" /\ manager' = "primary" /\ UNCHANGED state_file
BY DEF End, LockForget

LEMMA ReadStep ==
  ASSUME IInv, [Next]_vars
  PROVE  (ScanInv /\ PayloadInv /\ HashInv /\ StaleInv)'
<1> USE DEF ScanInv, PayloadInv, HashInv, StaleInv, AfterScan, Goto, history, passVars, lockVars
<1>1. ScanInv /\ PayloadInv /\ HashInv /\ StaleInv
  BY DEF IInv
<1>2. CASE Start
  BY <1>1, <1>2 DEF Start
<1>3. CASE Wake
  BY <1>1, <1>3 DEF Wake
<1>4. CASE Stop
  BY <1>1, <1>4, EndOfPass DEF Stop
<1>5. CASE CheckTarget
  BY <1>1, <1>5 DEF CheckTarget
<1>6. CASE ReadBackup
  <2>1. pc' \in {"open", "down"} /\ UNCHANGED stale
    BY <1>6, EndOfPass DEF ReadBackup
  <2> QED
    BY <1>1, <2>1
<1>7. CASE OpenTarget
  BY <1>7 DEF OpenTarget, Reads
<1>8. CASE FillTarget \/ CheckRestored
  <2>1. CASE FillTarget
    BY <1>1, <2>1 DEF FillTarget
  <2>2. (pc' \in {"scan", "down"} /\ UNCHANGED stale) \/ ~ CheckRestored
    BY EndOfPass DEF CheckRestored
  <2> QED
    BY <1>1, <1>8, <2>1, <2>2
<1>9. CASE InitializeTarget
  BY <1>9 DEF InitializeTarget, Reads
<1>10. CASE Scan
  <2>1. CASE target \in Unscannable \cup {Missing}
    BY <1>1, <1>10, <2>1, EndOfPass DEF Scan
  <2>2. CASE target \notin Unscannable \cup {Missing}
    BY <1>1, <1>10, <2>2 DEF Scan
  <2> QED
    BY <2>1, <2>2
<1>11. CASE OpenBackup
  <2>1. CASE target = Missing
    BY <1>1, <1>11, <2>1, EndOfPass DEF OpenBackup
  <2>2. CASE target # Missing
    BY <1>1, <1>11, <2>2 DEF OpenBackup
  <2> QED
    BY <2>1, <2>2
<1>12. CASE FillBackup
  <2>1. /\ pc = "fillBackup" /\ pc' \in {"backup", "hash"}
        /\ UNCHANGED <<target, scan, stale>>
    BY <1>12 DEF FillBackup
  <2> QED
    BY <1>1, <2>1
<1>13. CASE Hash
  <2>1. /\ pc = "hash" /\ pc' = "openState"
        /\ snapshot'.code_hash = CurrentHash
        /\ stale' = stale \ {"hash"}
        /\ UNCHANGED <<target, scan>>
    BY <1>13 DEF Hash, SealRead
  <2>2. "scan" \notin stale => CurrentHash = scan
    BY <1>1, <2>1, LockAssumption, FixerAssumption DEF CurrentHash
  <2>3. CurrentHash' = CurrentHash
    BY <2>1 DEF CurrentHash
  <2> QED
    BY <1>1, <2>1, <2>2, <2>3
<1>14. CASE OpenState
  <2>1. CurrentHash' = CurrentHash
    BY <1>14 DEF OpenState, CurrentHash
  <2> QED
    BY <1>1, <1>14, <2>1 DEF OpenState, SealOpen
<1>15. CASE WriteState
  BY <1>1, <1>15 DEF WriteState
<1>16. CASE Edit
  BY <1>1, <1>16 DEF Edit, Reads
<1>17. CASE Crash
  BY <1>1, <1>17, EndOfPass DEF Crash
<1>18. CASE UNCHANGED vars
  BY <1>1, <1>18 DEF vars, CurrentHash
<1> QED
  BY <1>2, <1>3, <1>4, <1>5, <1>6, <1>7, <1>8, <1>9, <1>10, <1>11, <1>12, <1>13,
     <1>14, <1>15, <1>16, <1>17, <1>18 DEF Next, Pass

\* A seal that is not overtaken stays true: only WriteState makes one, from a
\* digest that is not overtaken, and every write to the file overtakes it.
LEMMA AlarmStep ==
  ASSUME IInv, [Next]_vars
  PROVE  NoFalseAlarm'
<1> USE DEF Goto, history, passVars, lockVars
<1>1. NoFalseAlarm
  BY DEF IInv
<1>2. SUFFICES ASSUME ~ /\ UNCHANGED <<target, state_file>>
                        /\ "seal" \in stale => "seal" \in stale'
               PROVE  NoFalseAlarm'
  <2>1. SUFFICES ASSUME UNCHANGED <<target, state_file>>,
                        "seal" \in stale => "seal" \in stale'
                 PROVE  NoFalseAlarm'
    OBVIOUS
  <2> QED
    BY <1>1, <2>1 DEF NoFalseAlarm, Verified, CurrentHash
<1>3. CASE Start \/ Wake \/ CheckTarget \/ UNCHANGED vars
  BY <1>2, <1>3 DEF Start, Wake, CheckTarget, vars
<1>4. CASE Stop \/ Crash
  BY <1>2, <1>4, EndOfPass DEF Stop, Crash
<1>5. CASE ReadBackup
  <2>1. UNCHANGED <<target, stale, state_file>>
    BY <1>5, EndOfPass DEF ReadBackup
  <2> QED
    BY <1>2, <2>1
<1>6. CASE OpenTarget \/ InitializeTarget \/ Edit
  <2>1. stale' = Reads
    BY <1>6 DEF OpenTarget, InitializeTarget, Edit
  <2> QED
    BY <2>1 DEF NoFalseAlarm, Reads
<1>7. CASE FillTarget \/ CheckRestored
  <2>1. CASE FillTarget
    <3>1. "seal" \in stale'
      BY <2>1 DEF FillTarget, IInv, StaleInv, Reads
    <3> QED
      BY <3>1 DEF NoFalseAlarm
  <2>2. CASE CheckRestored
    <3>1. UNCHANGED <<target, stale, state_file>>
      BY <2>2, EndOfPass DEF CheckRestored
    <3> QED
      BY <1>2, <3>1
  <2> QED
    BY <1>7, <2>1, <2>2
<1>8. CASE Scan
  <2>1. /\ UNCHANGED <<target, state_file>>
        /\ stale' = stale \/ stale' = stale \ {"scan"}
    BY <1>8, EndOfPass DEF Scan
  <2> QED
    BY <1>2, <2>1
<1>9. CASE OpenBackup
  <2>1. UNCHANGED <<target, stale, state_file>>
    BY <1>9, EndOfPass DEF OpenBackup
  <2> QED
    BY <1>2, <2>1
<1>10. CASE FillBackup
  <2>1. UNCHANGED <<target, stale, state_file>>
    BY <1>10 DEF FillBackup
  <2> QED
    BY <1>2, <2>1
<1>11. CASE Hash
  <2>1. UNCHANGED <<target, state_file>> /\ stale' = stale \ {"hash"}
    BY <1>11 DEF Hash, SealRead
  <2> QED
    BY <1>2, <2>1
<1>12. CASE OpenState
  BY <1>12 DEF OpenState, SealOpen, TornState, NoFalseAlarm
<1>13. CASE WriteState
  <2>1. /\ pc = "writeState"
        /\ state_file'.code_hash = snapshot.code_hash
        /\ state_file'.state = "ok"
        /\ stale' = IF "hash" \in stale THEN stale ELSE stale \ {"seal"}
        /\ UNCHANGED target
    BY <1>13 DEF WriteState, SealWrite
  <2>2. CASE "hash" \in stale
    BY <2>1, <2>2 DEF IInv, StaleInv, NoFalseAlarm
  <2>3. CASE "hash" \notin stale
    <3>1. snapshot.code_hash = CurrentHash
      BY <2>1, <2>3 DEF IInv, HashInv
    <3> QED
      BY <2>1, <3>1 DEF NoFalseAlarm, Verified, CurrentHash
  <2> QED
    BY <2>2, <2>3
<1> QED
  BY <1>3, <1>4, <1>5, <1>6, <1>7, <1>8, <1>9, <1>10, <1>11, <1>12, <1>13 DEF Next, Pass

-----------------------------------------------------------------------------
(* What can be restored.                                                   *)

LEMMA NewestStep ==
  ASSUME IInv, [Next]_vars
  PROVE  NewestInv'
<1>1. NewestInv /\ backups \in [Managers -> Seq(Backup)] /\ manager \in Managers
  BY DEF IInv, TypeOK
<1>2. CASE UNCHANGED <<backups, newest>>
  BY <1>1, <1>2 DEF NewestInv
<1>3. CASE OpenBackup /\ target # Missing
  <2>1. /\ pc = "backup"
        /\ backups' = [backups EXCEPT ![manager] = Append(backups[manager], Torn)]
        /\ newest' = IF manager = "primary" THEN {"primary"} ELSE Managers
    BY <1>3 DEF OpenBackup
  <2>2. backups'[manager] # <<>>
    <3>1. Append(backups[manager], Torn) # <<>>
      BY <1>1, OpenedBackup
    <3> QED
      BY <1>1, <2>1, <3>1
  <2>3. CASE manager = "primary"
    BY <2>1, <2>2, <2>3 DEF NewestInv
  <2>4. CASE manager # "primary"
    <3>1. manager = "replica" /\ Managers = {"primary", "replica"}
      BY <1>1, <2>4 DEF Managers
    <3>2. backups'["primary"] = backups["primary"]
      BY <1>1, <2>1, <3>1
    <3>3. HasIntact(backups["primary"])
      BY <2>1, <3>1 DEF IInv, IntactInv
    <3>4. backups["primary"] # <<>>
      BY <3>3 DEF HasIntact
    <3> QED
      BY <2>1, <2>2, <3>1, <3>2, <3>4 DEF NewestInv
  <2> QED
    BY <2>3, <2>4
<1>4. CASE FillBackup
  <2> DEFINE after == Retained([backups[manager] EXCEPT ![Len(backups[manager])] = Intact(payload)])
  <2>1. pc = "fillBackup" /\ backups' = [backups EXCEPT ![manager] = after] /\ newest' = newest
    BY <1>4 DEF FillBackup
  <2>2. after # <<>>
    <3>1. backups[manager] # <<>> /\ payload \in Contents
      BY <2>1 DEF IInv, IntactInv, TypeOK
    <3> QED
      BY <1>1, <3>1, FilledBackup
  <2> HIDE DEF after
  <2>3. ASSUME NEW m \in newest
        PROVE  backups'[m] # <<>>
    <3>1. m \in Managers /\ backups[m] # <<>>
      BY <1>1 DEF NewestInv, IInv, TypeOK
    <3> QED
      BY <1>1, <2>1, <2>2, <3>1
  <2> QED
    BY <2>1, <2>3 DEF NewestInv
<1>5. OpenBackup /\ target = Missing => UNCHANGED <<backups, newest>>
  BY DEF OpenBackup
<1>6. [Next]_vars /\ ~ OpenBackup /\ ~ FillBackup => UNCHANGED <<backups, newest>>
  BY DEF Next, Pass, vars, Start, Wake, Stop, CheckTarget, ReadBackup, OpenTarget, FillTarget,
         CheckRestored, InitializeTarget, Scan, Hash, OpenState, WriteState, Edit, Crash
<1> QED
  BY <1>2, <1>3, <1>4, <1>5, <1>6

\* A completed backup of every directory outlives everything that follows.
LEMMA IntactStep ==
  ASSUME IInv, [Next]_vars
  PROVE  IntactInv'
<1> DEFINE Sealing(p) == p \in {"hash", "openState", "writeState"}
<1>1. IntactInv /\ backups \in [Managers -> Seq(Backup)] /\ manager \in Managers
  BY DEF IInv, TypeOK
<1>2. ASSUME UNCHANGED backups,
             state_file'.state = "absent" \/ state_file.state # "absent" \/ Sealing(pc),
             Sealing(pc') => Sealing(pc),
             manager' = "primary" \/ (pc \notin {"backup", "fillBackup"} /\ manager' = manager),
             pc' # "fillBackup"
      PROVE  IntactInv'
  <2>1. manager' # "replica"
    BY <1>1, <1>2 DEF IntactInv
  <2> QED
    BY <1>1, <1>2, <2>1 DEF IntactInv, HasIntact
<1>3. CASE UNCHANGED <<backups, state_file, pc, manager>>
  BY <1>1, <1>3 DEF IntactInv, HasIntact
<1>4. CASE OpenBackup /\ target # Missing
  <2>1. /\ pc = "backup" /\ pc' = "fillBackup"
        /\ backups' = [backups EXCEPT ![manager] = Append(backups[manager], Torn)]
        /\ UNCHANGED <<state_file, manager>>
    BY <1>4 DEF OpenBackup, Goto, lockVars
  <2>2. ASSUME NEW m \in Managers, HasIntact(backups[m])
        PROVE  HasIntact(backups'[m])
    <3>1. PICK i \in 1 .. Len(backups[m]) : backups[m][i].state = "ok"
      BY <2>2 DEF HasIntact
    <3>2. i \in 1 .. Len(backups'[m]) /\ backups'[m][i] = backups[m][i]
      <4>1. CASE m = manager
        <5>1. backups'[m] = Append(backups[m], Torn)
          BY <1>1, <2>1, <4>1
        <5> QED
          BY <1>1, <3>1, <5>1, OpenedBackup
      <4>2. CASE m # manager
        BY <1>1, <2>1, <3>1, <4>2
      <4> QED
        BY <4>1, <4>2
    <3> QED
      BY <3>1, <3>2 DEF HasIntact
  <2>3. backups'[manager] # <<>>
    <3>1. Append(backups[manager], Torn) # <<>>
      BY <1>1, OpenedBackup
    <3> QED
      BY <1>1, <2>1, <3>1
  <2> QED
    BY <1>1, <2>1, <2>2, <2>3 DEF IntactInv, Managers
<1>5. CASE FillBackup
  <2> DEFINE after == Retained([backups[manager] EXCEPT ![Len(backups[manager])] = Intact(payload)])
  <2>1. /\ pc = "fillBackup"
        /\ backups' = [backups EXCEPT ![manager] = after]
        /\ IF manager = "primary" /\ HasReplica
             THEN manager' = "replica" /\ pc' = "backup"
             ELSE manager' = "primary" /\ pc' = "hash"
        /\ UNCHANGED state_file
    BY <1>5 DEF FillBackup, Goto, lockVars
  <2>2. after \in Seq(Backup) /\ after # <<>> /\ after[Len(after)] = Intact(payload)
    <3>1. backups[manager] # <<>> /\ payload \in Contents
      BY <2>1 DEF IInv, IntactInv, TypeOK
    <3> QED
      BY <1>1, <3>1, FilledBackup
  <2> HIDE DEF after
  <2>3. HasIntact(backups'[manager])
    <3>1. backups'[manager] = after
      BY <1>1, <2>1
    <3>2. Len(after) \in 1 .. Len(after)
      BY <2>2
    <3> QED
      BY <2>2, <3>1, <3>2 DEF HasIntact, Intact
  <2>4. ASSUME NEW m \in Managers, m # manager, HasIntact(backups[m])
        PROVE  HasIntact(backups'[m])
    <3>1. backups'[m] = backups[m]
      BY <1>1, <2>1, <2>4
    <3> QED
      BY <2>4, <3>1 DEF HasIntact
  <2>5. CASE manager = "primary" /\ HasReplica
    <3>1. ASSUME NEW m \in Managers, HasIntact(backups[m])
          PROVE  HasIntact(backups'[m])
      BY <2>3, <2>4, <3>1
    <3>2. HasIntact(backups'["primary"])
      BY <2>3, <2>5
    <3> QED
      BY <1>1, <2>1, <2>5, <3>1, <3>2 DEF IntactInv
  <2>6. CASE ~ (manager = "primary" /\ HasReplica)
    <3>1. \A m \in Managers : m = manager \/ HasIntact(backups[m])
      <4>1. CASE manager = "primary"
        BY <2>6, <4>1 DEF Managers
      <4>2. CASE manager # "primary"
        <5>1. manager = "replica" /\ Managers = {"primary", "replica"}
          BY <1>1, <4>2 DEF Managers
        <5> QED
          BY <1>1, <2>1, <5>1 DEF IntactInv
      <4> QED
        BY <4>1, <4>2
    <3>2. \A m \in Managers : HasIntact(backups'[m])
      BY <2>3, <2>4, <3>1
    <3> QED
      BY <2>1, <2>6, <3>2 DEF IntactInv
  <2> QED
    BY <2>5, <2>6
<1>6. CASE Start \/ Wake \/ CheckTarget
  BY <1>2, <1>6 DEF Start, Wake, CheckTarget, Goto, lockVars
<1>7. CASE Stop \/ Crash
  BY <1>2, <1>7, EndOfPass DEF Stop, Crash
<1>8. CASE ReadBackup
  BY <1>2, <1>8, EndOfPass DEF ReadBackup, Goto, lockVars
<1>9. CASE OpenTarget \/ FillTarget \/ CheckRestored \/ InitializeTarget
  <2>1. CASE CheckRestored
    BY <1>2, <2>1, EndOfPass DEF CheckRestored, Goto, lockVars
  <2>2. CASE OpenTarget \/ FillTarget \/ InitializeTarget
    BY <1>2, <2>2 DEF OpenTarget, FillTarget, InitializeTarget, Goto, lockVars
  <2> QED
    BY <1>9, <2>1, <2>2
<1>10. CASE Scan
  <2>1. /\ pc = "scan" /\ UNCHANGED <<backups, state_file>>
        /\ pc' \in {"sleep", "down", "backup"}
        /\ manager' = "primary" \/ manager' = manager
    BY <1>10, EndOfPass DEF Scan, Goto, lockVars
  <2> QED
    BY <1>2, <2>1
<1>11. CASE OpenBackup /\ target = Missing
  BY <1>2, <1>11, EndOfPass DEF OpenBackup
<1>12. CASE Hash
  BY <1>2, <1>12 DEF Hash, SealRead, Goto
<1>13. CASE OpenState
  BY <1>2, <1>13 DEF OpenState, SealOpen, Goto
<1>14. CASE WriteState
  BY <1>2, <1>14 DEF WriteState, SealWrite, Goto
<1>15. CASE Edit \/ UNCHANGED vars
  BY <1>3, <1>15 DEF Edit, vars, passVars, lockVars
<1> QED
  BY <1>4, <1>5, <1>6, <1>7, <1>8, <1>9, <1>10, <1>11, <1>12, <1>13, <1>14, <1>15
  DEF Next, Pass

-----------------------------------------------------------------------------
(* What is restored.                                                       *)

LEMMA RetainedGenuine ==
  ASSUME NEW directory \in Seq(Backup), Genuine(directory)
  PROVE  Genuine(Retained(directory))
<1> DEFINE n == Len(directory)
           k == n - retention
<1>1. n \in Nat /\ retention \in Nat
  BY FixerAssumption
<1>2. CASE retention > 0 /\ k > 0
  <2>1. Retained(directory) = SubSeq(directory, k + 1, n)
    BY <1>2 DEF Retained
  <2>2. k \in Nat /\ k + 1 \in 1 .. n
    BY <1>1, <1>2
  <2>3. /\ Len(SubSeq(directory, k + 1, n)) = n - k
        /\ \A i \in 1 .. n - k :
             SubSeq(directory, k + 1, n)[i] = directory[k + i] /\ k + i \in 1 .. n
    BY <1>1, <2>2
  <2> HIDE DEF n, k
  <2> QED
    BY <2>1, <2>3 DEF Genuine, n
<1>3. CASE ~ (retention > 0 /\ k > 0)
  BY <1>3 DEF Retained
<1> QED
  BY <1>2, <1>3

LEMMA FilledGenuine ==
  ASSUME NEW directory \in Seq(Backup), directory # <<>>, Genuine(directory),
         NEW content \in Authored
  PROVE  LET filled == [directory EXCEPT ![Len(directory)] = Intact(content)]
         IN filled \in Seq(Backup) /\ Genuine(filled)
<1>1. Intact(content) \in Backup /\ Intact(content).content \in Authored
  BY FixerAssumption DEF Intact, Backup
<1> DEFINE filled == [directory EXCEPT ![Len(directory)] = Intact(content)]
<1>2. filled \in Seq(Backup) /\ Len(filled) = Len(directory)
  BY <1>1
<1>3. \A i \in 1 .. Len(directory) : filled[i] = Intact(content) \/ filled[i] = directory[i]
  OBVIOUS
<1> QED
  BY <1>1, <1>2, <1>3 DEF Genuine

LEMMA InitWhole == Init => WholeInv
BY DEF Init, WholeInv, Genuine

\* A process starts in a file somebody wrote: then no pass scans, backs up or
\* restores anything else.
LEMMA WholeStep ==
  ASSUME Startable \subseteq Authored, IInv, WholeInv, [Next]_vars
  PROVE  WholeInv'
<1> USE DEF Goto, history, passVars
<1> SUFFICES ASSUME ~ initialized'
             PROVE  WholeInv'
  BY DEF WholeInv
<1>1. /\ backups \in [Managers -> Seq(Backup)] /\ manager \in Managers
      /\ payload \in Contents /\ newest \subseteq Managers
  BY DEF IInv, TypeOK
<1>2. ~ initialized
  BY DEF Next, Pass, vars, Start, Wake, Stop, CheckTarget, ReadBackup, OpenTarget, FillTarget,
         CheckRestored, InitializeTarget, Scan, OpenBackup, FillBackup, Hash, OpenState,
         WriteState, Edit, Crash
<1>3. /\ \A m \in Managers : Genuine(backups[m])
      /\ pc \in {"open", "fillTarget", "fillBackup"} => payload \in Authored
      /\ \/ target \in Authored \cup {Missing}
         \/ pc = "down"
         \/ pc = "fillTarget" /\ linked
  BY <1>2 DEF WholeInv
<1>4. CASE Start
  BY <1>3, <1>4 DEF Start, WholeInv
<1>5. CASE Wake \/ CheckTarget \/ Hash \/ OpenState \/ WriteState
  BY <1>3, <1>5 DEF Wake, CheckTarget, Hash, OpenState, WriteState, WholeInv
<1>6. CASE Stop \/ Crash
  BY <1>3, <1>6, EndOfPass DEF Stop, Crash, WholeInv
<1>7. CASE ReadBackup
  <2>1. PICK m \in newest :
          IF Newest(m).state = "ok"
            THEN payload' = Newest(m).content /\ pc' = "open"
            ELSE End
    BY <1>7 DEF ReadBackup
  <2>2. \/ pc = "restore" /\ UNCHANGED <<target, backups, linked>>
        \/ pc' = "down" /\ UNCHANGED backups
    BY <1>7, EndOfPass DEF ReadBackup
  <2>3. CASE pc' = "down"
    BY <1>3, <2>2, <2>3 DEF WholeInv
  <2>4. CASE pc' # "down"
    <3>1. Newest(m).state = "ok" /\ payload' = Newest(m).content /\ pc' = "open"
      BY <2>1, <2>4, EndOfPass
    <3>2. m \in Managers /\ backups[m] \in Seq(Backup) /\ backups[m] # <<>>
      BY <1>1 DEF IInv, NewestInv
    <3>3. Len(backups[m]) \in 1 .. Len(backups[m])
      BY <3>2
    <3>4. payload' \in Authored
      BY <1>3, <3>1, <3>2, <3>3 DEF Genuine, Newest
    <3> QED
      BY <1>3, <2>2, <2>4, <3>1, <3>4 DEF WholeInv
  <2> QED
    BY <2>3, <2>4
<1>8. CASE OpenTarget
  BY <1>3, <1>8 DEF OpenTarget, WholeInv
<1>9. CASE FillTarget
  BY <1>3, <1>9 DEF FillTarget, WholeInv
<1>10. CASE CheckRestored
  <2>1. CASE target = Missing
    BY <1>3, <1>10, <2>1, EndOfPass DEF CheckRestored, WholeInv
  <2>2. CASE target # Missing
    BY <1>3, <1>10, <2>2 DEF CheckRestored, WholeInv
  <2> QED
    BY <2>1, <2>2
<1>11. CASE InitializeTarget
  BY <1>11 DEF InitializeTarget
<1>12. CASE Scan
  <2>1. CASE target \in Unscannable \cup {Missing}
    BY <1>3, <1>12, <2>1, EndOfPass DEF Scan, WholeInv
  <2>2. CASE target \notin Unscannable \cup {Missing}
    BY <1>3, <1>12, <2>2 DEF Scan, WholeInv
  <2> QED
    BY <2>1, <2>2
<1>13. CASE OpenBackup
  <2>1. CASE target = Missing
    BY <1>3, <1>13, <2>1, EndOfPass DEF OpenBackup, WholeInv
  <2>2. CASE target # Missing
    <3>1. /\ pc = "backup" /\ pc' = "fillBackup" /\ payload' = target
          /\ backups' = [backups EXCEPT ![manager] = Append(backups[manager], Torn)]
          /\ UNCHANGED target
      BY <1>13, <2>2 DEF OpenBackup
    <3>2. Genuine(Append(backups[manager], Torn))
      <4>1. backups[manager] \in Seq(Backup) /\ Genuine(backups[manager]) /\ Torn.state = "torn"
        BY <1>1, <1>3 DEF Torn
      <4> QED
        BY <4>1 DEF Genuine
    <3>3. target \in Authored
      BY <1>3, <2>2, <3>1
    <3> QED
      BY <1>1, <1>3, <3>1, <3>2, <3>3 DEF WholeInv
  <2> QED
    BY <2>1, <2>2
<1>14. CASE FillBackup
  <2> DEFINE filled == [backups[manager] EXCEPT ![Len(backups[manager])] = Intact(payload)]
  <2>1. /\ pc = "fillBackup" /\ pc' \in {"backup", "hash"}
        /\ backups' = [backups EXCEPT ![manager] = Retained(filled)]
        /\ UNCHANGED target
    BY <1>14 DEF FillBackup
  <2>2. filled \in Seq(Backup) /\ Genuine(filled)
    <3>1. backups[manager] \in Seq(Backup) /\ Genuine(backups[manager]) /\ payload \in Authored
      BY <1>1, <1>3, <2>1
    <3>2. backups[manager] # <<>>
      BY <2>1 DEF IInv, IntactInv
    <3> QED
      BY <3>1, <3>2, FilledGenuine
  <2>4. Genuine(Retained(filled))
    BY <2>2, RetainedGenuine
  <2> HIDE DEF filled
  <2> QED
    BY <1>1, <1>3, <2>1, <2>4 DEF WholeInv
<1>15. CASE Edit
  BY <1>3, <1>15 DEF Edit, WholeInv
<1>16. CASE UNCHANGED vars
  BY <1>3, <1>16 DEF vars, WholeInv
<1> QED
  BY <1>4, <1>5, <1>6, <1>7, <1>8, <1>9, <1>10, <1>11, <1>12, <1>13, <1>14, <1>15, <1>16
  DEF Next, Pass

-----------------------------------------------------------------------------
(* The theorems.                                                           *)

\* IInv holds in every reachable state (self_fixer.py:28-101).
THEOREM Invariant == Spec => []IInv
<1>1. Init => IInv
  BY InitIInv
<1>2. IInv /\ [Next]_vars => IInv'
  <2> SUFFICES ASSUME IInv, [Next]_vars
               PROVE  IInv'
    OBVIOUS
  <2>1. TypeOK'
    BY TypeStep DEF IInv
  <2>2. NewestInv' /\ IntactInv'
    BY NewestStep, IntactStep
  <2>3. (ScanInv /\ PayloadInv /\ HashInv /\ StaleInv)' /\ NoFalseAlarm'
    BY ReadStep, AlarmStep
  <2> QED
    BY <2>1, <2>2, <2>3 DEF IInv
<1> QED
  BY <1>1, <1>2, PTL DEF Spec

\* The variables keep their types.
THEOREM Typed == Spec => []TypeOK
<1>1. IInv => TypeOK
  BY DEF IInv
<1> QED
  BY <1>1, Invariant, PTL

\* A pass that no write overtook stores and seals what it scanned, and that
\* was clean (self_fixer.py:68-78).
THEOREM OneReading == Spec => []OneReadingPerPass
<1>1. IInv => OneReadingPerPass
  BY DEF IInv, ScanInv, PayloadInv, HashInv, AfterScan, OneReadingPerPass
<1> QED
  BY <1>1, Invariant, PTL

\* verify() raises no alarm on a file that was not written to since its seal
\* took the digest (tamper_lock.py:108-119).
THEOREM NoAlarm == Spec => []NoFalseAlarm
<1>1. IInv => NoFalseAlarm
  BY DEF IInv
<1> QED
  BY <1>1, Invariant, PTL

\* Once a seal was opened, every directory holds a backup that can be
\* restored, whatever crashes and prunes come (backup_manager.py:156-167).
THEOREM IntactBackup == Spec => []SomeBackupIntact
<1>1. IInv => SomeBackupIntact
  BY DEF IInv, IntactInv, HasIntact, SomeBackupIntact
<1> QED
  BY <1>1, Invariant, PTL

\* As wired, where a process starts in a program somebody wrote, a pass ends
\* with such a file, a restore cut short or not (self_fixer.py:48-66).
THEOREM RestoredAsWired ==
  ASSUME Startable \subseteq Authored
  PROVE  Spec => []RestoredWhole
<1>1. Init => WholeInv
  BY InitWhole
<1>2. IInv /\ WholeInv /\ [Next]_vars => WholeInv'
  BY WholeStep
<1>3. WholeInv => RestoredWhole
  BY DEF WholeInv, RestoredWhole
<1> QED
  BY <1>1, <1>2, <1>3, Invariant, PTL DEF Spec
=============================================================================
