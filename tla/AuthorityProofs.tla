--------------------------- MODULE AuthorityProofs ---------------------------
(***************************************************************************)
(* Proofs about Authority, for any number of objects, identities, lines    *)
(* and faults.                                                             *)
(***************************************************************************)
EXTENDS AuthorityRefinement, FiniteSetTheorems, SequenceTheorems, TLAPS

-----------------------------------------------------------------------------
(* Types, strengthened to be inductive.                                    *)

Calls == [body : Bodies \cup {NoBody}, old : Identities \cup {None},
          lines : Seq(Line), outcome : {"none", "returned", "raised"}]

Places == {"down", "ready", "create", "replace", "verify", "events", "write"}

\* The lines that parse.
EventLine == [state : {"event"}, sequence : Nat,
              previous_event_hash : Seq(Nat \X Bodies), body : Bodies]

\* A call under way has a body, one about to write has read lines that parse,
\* and an object that exists has an identity.
CallInv ==
  \A o \in Objects :
    /\ ~ Idle(o) => call[o].body \in Bodies
    /\ pc[o] = "write" => call[o].lines \in Seq(EventLine)
    /\ pc[o] = "ready" => identity[o] \in Identities
    /\ ~ Idle(o) /\ call[o].body.event_type # "IDENTITY_GENESIS" => identity[o] \in Identities

\* Only a line there is can lack its newline, and one that parses has a body.
LedgerInv ==
  /\ scar.terminated \/ Len(scar.lines) > 0
  /\ \A i \in 1 .. Len(scar.lines) :
       scar.lines[i].state = "event" => scar.lines[i] \in EventLine

Types == TypeOK /\ CallInv /\ LedgerInv

-----------------------------------------------------------------------------
LEMMA EventTypes ==
  ASSUME NEW lines \in Seq(EventLine), NEW body \in Bodies
  PROVE  NextEvent(lines, body) \in EventLine
<1>1. HashBefore(lines, Len(lines) + 1) \in Seq(Nat \X Bodies)
  <2>1. CASE Len(lines) = 0
    BY <2>1 DEF HashBefore, GENESIS
  <2>2. CASE Len(lines) # 0
    <3>1. lines[Len(lines)] \in EventLine /\ Len(lines) + 1 # 1 /\ Len(lines) + 1 - 1 = Len(lines)
      BY <2>2
    <3> DEFINE event == lines[Len(lines)]
    <3>2. event.previous_event_hash \in Seq(Nat \X Bodies) /\ <<event.sequence, event.body>> \in Nat \X Bodies
      BY <3>1 DEF EventLine
    <3>3. EventHash(event) \in Seq(Nat \X Bodies)
      BY <3>2, AppendProperties DEF EventHash
    <3>4. HashBefore(lines, Len(lines) + 1) = EventHash(event)
      BY <3>1 DEF HashBefore
    <3> QED
      BY <3>3, <3>4
  <2> QED
    BY <2>1, <2>2
<1> QED
  BY <1>1 DEF NextEvent, EventLine

LEMMA LineTypes == Cut \in Line /\ Cut.state = "cut" /\ EventLine \subseteq Line
BY DEF Cut, GENESIS, Line, EventLine

\* What writing a line, or some of one, does to the file.
LEMMA WrittenTypes ==
  ASSUME TypeOK, LedgerInv, NEW line \in EventLine \cup {Cut}, NEW newline \in BOOLEAN,
         scar' = Written(line, newline)
  PROVE  scar' \in [lines : Seq(Line), terminated : BOOLEAN] /\ LedgerInv'
<1>0. scar.lines \in Seq(Line) /\ line \in Line /\ Cut \in Line
  BY LineTypes DEF TypeOK
<1>1. CASE scar.terminated
  <2>1. /\ scar'.lines = Append(scar.lines, line) /\ scar'.terminated = newline
        /\ scar' = [lines |-> Append(scar.lines, line), terminated |-> newline]
    BY <1>1 DEF Written
  <2>2. /\ Append(scar.lines, line) \in Seq(Line)
        /\ Len(scar'.lines) = Len(scar.lines) + 1
        /\ \A i \in 1 .. Len(scar.lines) : scar'.lines[i] = scar.lines[i]
        /\ scar'.lines[Len(scar.lines) + 1] = line
    BY <1>0, <2>1
  <2>3. line.state = "event" => line \in EventLine
    BY LineTypes
  <2> QED
    BY <1>0, <2>1, <2>2, <2>3 DEF LedgerInv
<1>2. CASE ~ scar.terminated
  <2> DEFINE n == Len(scar.lines)
  <2>1. scar' = [lines |-> [scar.lines EXCEPT ![n] = Cut], terminated |-> newline]
    BY <1>2 DEF Written
  <2>2. n \in 1 .. n
    BY <1>0, <1>2 DEF LedgerInv
  <2>3. /\ scar'.lines \in Seq(Line) /\ Len(scar'.lines) = n
        /\ \A i \in 1 .. n : scar'.lines[i] = IF i = n THEN Cut ELSE scar.lines[i]
    BY <1>0, <2>1, <2>2
  <2> QED
    BY <1>0, <2>1, <2>2, <2>3, LineTypes DEF LedgerInv
<1> QED
  BY <1>1, <1>2

LEMMA CutShortTypes ==
  ASSUME TypeOK, LedgerInv, NEW event \in EventLine, scar' \in CutShort(event)
  PROVE  scar' \in [lines : Seq(Line), terminated : BOOLEAN] /\ LedgerInv'
<1>1. CASE scar' = scar
  BY <1>1 DEF TypeOK, LedgerInv
<1>2. CASE scar' = Written(Cut, FALSE)
  BY <1>2, WrittenTypes
<1>3. ASSUME NEW newline \in BOOLEAN, scar' = Written(event, newline)
      PROVE  scar' \in [lines : Seq(Line), terminated : BOOLEAN] /\ LedgerInv'
  BY <1>3, WrittenTypes
<1> QED
  BY <1>1, <1>2, <1>3 DEF CutShort

\* A call's record after Begin, and after Raise or a return.
LEMMA Records ==
  ASSUME TypeOK, NEW o \in Objects
  PROVE  /\ NoCall \in Calls
         /\ \A body \in Bodies : Begin(o, body) =>
              /\ call' \in [Objects -> Calls] /\ call'[o].body = body
              /\ call'[o].old = identity[o]
              /\ \A q \in Objects \ {o} : call'[q] = call[q]
              /\ overtaken' = [overtaken EXCEPT ![o] = FALSE]
         /\ \A outcome \in {"returned", "raised"} : Done(o, outcome) =>
                /\ call' \in [Objects -> Calls] /\ call'[o].body = call[o].body
                /\ \A q \in Objects \ {o} : call'[q] = call[q]
<1>0. call \in [Objects -> Calls] /\ identity[o] \in Identities \cup {None}
  BY DEF TypeOK, Calls
<1>1. NoCall \in Calls
  BY DEF NoCall, Call, Calls
<1>2. ASSUME NEW body \in Bodies, Begin(o, body)
      PROVE  /\ call' \in [Objects -> Calls] /\ call'[o].body = body
             /\ call'[o].old = identity[o]
             /\ \A q \in Objects \ {o} : call'[q] = call[q]
             /\ overtaken' = [overtaken EXCEPT ![o] = FALSE]
  <2> DEFINE c == Call(body, identity[o], <<>>, "none")
  <2>1. c \in Calls /\ c.body = body /\ c.old = identity[o]
    BY <1>0 DEF Calls, Call
  <2>2. call' = [call EXCEPT ![o] = c]
    BY <1>2 DEF Begin
  <2> HIDE DEF c
  <2>3. /\ call' \in [Objects -> Calls] /\ call'[o] = c
        /\ \A q \in Objects \ {o} : call'[q] = call[q]
    BY <1>0, <2>1, <2>2
  <2> QED
    BY <1>2, <2>1, <2>3 DEF Begin
<1>3. ASSUME NEW outcome \in {"returned", "raised"}, Done(o, outcome)
      PROVE  /\ call' \in [Objects -> Calls] /\ call'[o].body = call[o].body
             /\ \A q \in Objects \ {o} : call'[q] = call[q]
  <2> DEFINE c == Call(call[o].body, call[o].old, <<>>, outcome)
  <2>1. c \in Calls /\ c.body = call[o].body
    BY <1>0 DEF Calls, Call
  <2>2. call' = [call EXCEPT ![o] = c]
    BY <1>3 DEF Done
  <2> HIDE DEF c
  <2> QED
    BY <1>0, <2>1, <2>2
<1> QED
  BY <1>1, <1>2, <1>3

\* The files and the history.
FileTypes ==
  /\ scar \in [lines : Seq(Line), terminated : BOOLEAN] /\ LedgerInv
  /\ identity_file \in Identities \cup {None} /\ backups \subseteq Identities
  /\ generated \subseteq Identities /\ returned \subseteq Bodies
  /\ faults \in Nat

Flags == overtaken \in [Objects -> BOOLEAN] /\ raced \in BOOLEAN /\ forked \in BOOLEAN

LEMMA FileStep ==
  ASSUME Types, NEW o \in Objects, Step(o)
  PROVE  FileTypes'
<1>0. FileTypes /\ (~ Idle(o) => call[o].body \in Bodies) /\ identity[o] \in Identities \cup {None}
  BY DEF Types, TypeOK, CallInv, FileTypes
<1>1. CASE LoadIdentity(o) \/ Verify(o) \/ ReadEvents(o)
  BY <1>0, <1>1 DEF LoadIdentity, Verify, ReadEvents, fileVars, history, FileTypes, LedgerInv
<1>2. CASE CreateIdentity(o)
  BY <1>0, <1>2 DEF CreateIdentity, Generate, fileVars, FileTypes, LedgerInv
<1>3. CASE StoreIdentity(o)
  <2>1. call[o].body.key_id \in Identities
    BY <1>0, <1>3 DEF StoreIdentity, ReplaceFile, Idle, Bodies
  <2> QED
    BY <1>0, <1>3, <2>1 DEF StoreIdentity, ReplaceFile, FileTypes, LedgerInv
<1>4. CASE BeginRotate(o)
  <2>1. identity[o] \in Identities
    BY <1>4 DEF BeginRotate, Types, CallInv
  <2> QED
    BY <1>0, <1>4, <2>1 DEF BeginRotate, Generate, FileTypes, LedgerInv
<1>5. CASE ReplaceIdentity(o)
  <2>1. call[o].body.key_id \in Identities
    BY <1>0, <1>5 DEF ReplaceIdentity, ReplaceFile, Idle, Bodies
  <2> QED
    BY <1>0, <1>5, <2>1 DEF ReplaceIdentity, ReplaceFile, FileTypes, LedgerInv
<1>6. CASE BeginIssue(o)
  BY <1>0, <1>6 DEF BeginIssue, fileVars, FileTypes, LedgerInv
<1>7. ASSUME pc[o] = "write"
      PROVE  Event(o) \in EventLine /\ call[o].body \in Bodies
  <2>1. call[o].body \in Bodies /\ call[o].lines \in Seq(EventLine)
    BY <1>0, <1>7 DEF Idle, Types, CallInv
  <2> QED
    BY <2>1, EventTypes DEF Event
<1>8. CASE WriteEvent(o)
  <2>1. scar' \in [lines : Seq(Line), terminated : BOOLEAN] /\ LedgerInv'
    BY <1>7, <1>8, WrittenTypes DEF WriteEvent, Types
  <2>2. returned' \subseteq Bodies
    BY <1>0, <1>7, <1>8 DEF WriteEvent, Return, FileTypes
  <2> QED
    BY <1>0, <1>8, <2>1, <2>2 DEF WriteEvent, FileTypes
<1>9. CASE WriteFails(o)
  <2>1. scar' \in [lines : Seq(Line), terminated : BOOLEAN] /\ LedgerInv'
    BY <1>7, <1>9, CutShortTypes DEF WriteFails, Types
  <2> QED
    BY <1>0, <1>9, <2>1 DEF WriteFails, FileTypes
<1>10. CASE StoreFails(o)
  <2>1. call[o].body.key_id \in Identities
    BY <1>0, <1>10 DEF StoreFails, Idle, Bodies
  <2>2. identity_file' \in {identity_file, call[o].body.key_id}
    BY <1>10 DEF StoreFails, ReplaceFile
  <2> QED
    BY <1>0, <1>10, <2>1, <2>2 DEF StoreFails, FileTypes, LedgerInv
<1>11. CASE Crash(o)
  <2>1. scar' \in [lines : Seq(Line), terminated : BOOLEAN] /\ LedgerInv'
    <3>1. CASE UNCHANGED scar
      BY <1>0, <3>1 DEF FileTypes, LedgerInv
    <3>2. CASE pc[o] = "write" /\ scar' \in CutShort(Event(o))
      BY <1>7, <3>2, CutShortTypes DEF Types
    <3> QED
      BY <1>11, <3>1, <3>2 DEF Crash
  <2> QED
    BY <1>0, <1>11, <2>1 DEF Crash, FileTypes
<1> QED
  BY <1>1, <1>2, <1>3, <1>4, <1>5, <1>6, <1>8, <1>9, <1>10, <1>11 DEF Step

LEMMA FlagStep ==
  ASSUME TypeOK, NEW o \in Objects, Step(o)
  PROVE  Flags'
<1>1. overtaken \in [Objects -> BOOLEAN] /\ raced \in BOOLEAN /\ forked \in BOOLEAN
  BY DEF TypeOK
<1>2. overtaken' \in [Objects -> BOOLEAN]
  <2>1. CASE UNCHANGED overtaken
    BY <1>1, <2>1
  <2>2. CASE overtaken' = [overtaken EXCEPT ![o] = FALSE]
    BY <1>1, <2>2
  <2>3. CASE Overtake(o)
    BY <1>1, <2>3 DEF Overtake
  <2> QED
    BY <2>1, <2>2, <2>3 DEF Step, LoadIdentity, CreateIdentity, StoreIdentity, ReplaceFile, BeginRotate,
       ReplaceIdentity, BeginIssue, Verify, ReadEvents, WriteEvent, WriteFails, StoreFails,
       Crash, Begin, history
<1>3. raced' \in BOOLEAN
  <2>1. UNCHANGED raced \/ raced' = (raced \/ overtaken[o])
    BY DEF Step, LoadIdentity, CreateIdentity, StoreIdentity, ReplaceFile, BeginRotate,
       ReplaceIdentity, BeginIssue, Verify, ReadEvents, WriteEvent, WriteFails, StoreFails,
       Crash, Overtake, history
  <2> QED
    BY <1>1, <2>1
<1>4. forked' \in BOOLEAN
  <2>1. UNCHANGED forked \/ \E x : forked' = (forked \/ identity_file # x)
    BY DEF Step, LoadIdentity, CreateIdentity, StoreIdentity, ReplaceFile, BeginRotate,
       ReplaceIdentity, BeginIssue, Verify, ReadEvents, WriteEvent, WriteFails, StoreFails,
       Crash, history
  <2> QED
    BY <1>1, <2>1
<1> QED
  BY <1>2, <1>3, <1>4 DEF Flags

\* The objects: what a step of o does to o, and that it leaves the others alone.
ObjectTypes ==
  /\ identity \in [Objects -> Identities \cup {None}]
  /\ pc \in [Objects -> Places]
  /\ call \in [Objects -> Calls]

Others(o) ==
  \A q \in Objects \ {o} : pc'[q] = pc[q] /\ call'[q] = call[q] /\ identity'[q] = identity[q]

CallInvAt(o) ==
  /\ ~ Idle(o) => call[o].body \in Bodies
  /\ pc[o] = "write" => call[o].lines \in Seq(EventLine)
  /\ pc[o] = "ready" => identity[o] \in Identities
  /\ ~ Idle(o) /\ call[o].body.event_type # "IDENTITY_GENESIS" => identity[o] \in Identities

\* Raise leaves an object only where there was one.
LEMMA RaiseTypes ==
  ASSUME Types, NEW o \in Objects, ~ Idle(o), Raise(o), UNCHANGED identity
  PROVE  ObjectTypes' /\ Others(o) /\ CallInvAt(o)'
<1>1. call' \in [Objects -> Calls] /\ \A q \in Objects \ {o} : call'[q] = call[q]
  BY Records DEF Raise, Types
<1>2. /\ pc' \in [Objects -> Places] /\ pc'[o] \in {"down", "ready"}
      /\ \A q \in Objects \ {o} : pc'[q] = pc[q]
  BY DEF Raise, At, Types, TypeOK, Places
<1>3. pc'[o] = "ready" => identity[o] \in Identities
  BY DEF Raise, At, Types, TypeOK, CallInv
<1> QED
  BY <1>1, <1>2, <1>3 DEF ObjectTypes, Others, CallInvAt, Idle, Types, TypeOK

\* A step within a call.
LEMMA GotoTypes ==
  ASSUME Types, NEW o \in Objects, ~ Idle(o), NEW step \in Places \ {"ready", "write"}, At(o, step),
         UNCHANGED <<identity, call>>
  PROVE  ObjectTypes' /\ Others(o) /\ CallInvAt(o)'
BY DEF ObjectTypes, Others, CallInvAt, Idle, At, Types, TypeOK, Calls, Places, CallInv

\* A call begins.
LEMMA BeginTypes ==
  ASSUME Types, NEW o \in Objects, NEW body \in Bodies, Begin(o, body),
         NEW step \in {"create", "replace", "verify"}, At(o, step), UNCHANGED identity,
         body.event_type # "IDENTITY_GENESIS" => identity[o] \in Identities
  PROVE  ObjectTypes' /\ Others(o) /\ CallInvAt(o)'
<1>1. /\ call' \in [Objects -> Calls] /\ call'[o].body = body
      /\ \A q \in Objects \ {o} : call'[q] = call[q]
  BY Records DEF Types
<1>2. pc' \in [Objects -> Places] /\ pc'[o] = step /\ \A q \in Objects \ {o} : pc'[q] = pc[q]
  BY DEF At, Types, TypeOK, Places
<1> QED
  BY <1>1, <1>2 DEF ObjectTypes, Others, CallInvAt, Idle, Types, TypeOK

LEMMA ObjectStep ==
  ASSUME Types, NEW o \in Objects, Step(o)
  PROVE  ObjectTypes' /\ Others(o) /\ CallInvAt(o)'
<1>0. /\ identity \in [Objects -> Identities \cup {None}] /\ pc \in [Objects -> Places]
      /\ call \in [Objects -> Calls] /\ CallInv /\ TypeOK
  BY DEF Types, TypeOK, Places, Calls
<1>1. CASE LoadIdentity(o)
  <2>1. /\ identity' = [identity EXCEPT ![o] = identity_file] /\ identity_file \in Identities
        /\ pc' = [pc EXCEPT ![o] = "ready"] /\ call' = [call EXCEPT ![o] = NoCall]
    BY <1>0, <1>1 DEF LoadIdentity, At, TypeOK
  <2> QED
    BY <1>0, <2>1, Records DEF ObjectTypes, Others, CallInvAt, Idle, Places
<1>2. CASE CreateIdentity(o)
  <2>1. PICK new \in Identities : Begin(o, Genesis(new))
    BY <1>2 DEF CreateIdentity
  <2>2. Genesis(new) \in Bodies /\ Genesis(new).event_type = "IDENTITY_GENESIS"
    BY DEF Genesis, Body, Bodies
  <2> QED
    BY <1>2, <2>1, <2>2, BeginTypes DEF CreateIdentity
<1>3. CASE StoreIdentity(o)
  BY <1>3, GotoTypes DEF StoreIdentity, ReplaceFile, Idle, Places
<1>4. CASE BeginRotate(o)
  <2>1. PICK new \in Identities : Begin(o, Rotation(new))
    BY <1>4 DEF BeginRotate
  <2>2. Rotation(new) \in Bodies
    BY DEF Rotation, Body, Bodies
  <2>3. identity[o] \in Identities
    BY <1>0, <1>4 DEF BeginRotate, CallInv
  <2> QED
    BY <1>4, <2>1, <2>2, <2>3, BeginTypes DEF BeginRotate
<1>5. CASE ReplaceIdentity(o)
  <2>1. ~ Idle(o) /\ call[o].body.key_id \in Identities
    BY <1>0, <1>5 DEF ReplaceIdentity, ReplaceFile, Idle, CallInv, Bodies
  <2>2. /\ identity' = [identity EXCEPT ![o] = call[o].body.key_id]
        /\ pc' = [pc EXCEPT ![o] = "verify"] /\ call' = call
    BY <1>5 DEF ReplaceIdentity, ReplaceFile, At
  <2> QED
    BY <1>0, <2>1, <2>2 DEF ObjectTypes, Others, CallInvAt, CallInv, Idle, Places
<1>6. CASE BeginIssue(o)
  <2>1. identity[o] \in Identities
    BY <1>0, <1>6 DEF BeginIssue, CallInv
  <2>2. Lease(identity[o], Len(scar.lines) + 1) \in Bodies
    BY <1>0, <2>1 DEF Lease, Body, Bodies, TypeOK
  <2> QED
    BY <1>6, <2>1, <2>2, BeginTypes DEF BeginIssue
<1>7. CASE Verify(o)
  <2>1. ~ Idle(o)
    BY <1>7 DEF Verify, Idle
  <2>2. CASE Verifies(scar.lines)
    BY <1>7, <2>1, <2>2, GotoTypes DEF Verify, Places
  <2>3. CASE ~ Verifies(scar.lines)
    BY <1>7, <2>1, <2>3, RaiseTypes DEF Verify
  <2> QED
    BY <2>2, <2>3
<1>8. CASE ReadEvents(o)
  <2>1. ~ Idle(o)
    BY <1>8 DEF ReadEvents, Idle
  <2>2. CASE Parses(scar.lines)
    <3>1. scar.lines \in Seq(Line) /\ scar.lines \in Seq(EventLine)
      <4>1. scar.lines \in Seq(Line)
        BY <1>0 DEF TypeOK
      <4>2. \A i \in 1 .. Len(scar.lines) : scar.lines[i] \in EventLine
        BY <2>2 DEF Parses, Types, LedgerInv
      <4> QED
        BY <4>1, <4>2
    <3>2. /\ call' = [call EXCEPT ![o].lines = scar.lines] /\ pc' = [pc EXCEPT ![o] = "write"]
          /\ identity' = identity
      BY <1>8, <2>2 DEF ReadEvents, At
    <3>3. /\ call' \in [Objects -> Calls] /\ call'[o].body = call[o].body
          /\ call'[o].lines = scar.lines
          /\ \A q \in Objects \ {o} : call'[q] = call[q]
      BY <1>0, <3>1, <3>2 DEF Calls
    <3> QED
      BY <1>0, <2>1, <3>1, <3>2, <3>3 DEF ObjectTypes, Others, CallInvAt, CallInv, Idle, Places
  <2>3. CASE ~ Parses(scar.lines)
    BY <1>8, <2>1, <2>3, RaiseTypes DEF ReadEvents
  <2> QED
    BY <2>2, <2>3
<1>9. CASE WriteEvent(o)
  <2>1. ~ Idle(o) /\ call[o].body \in Bodies /\ Return(o)
    BY <1>0, <1>9 DEF WriteEvent, Idle, CallInv
  <2>2. /\ call' \in [Objects -> Calls] /\ \A q \in Objects \ {o} : call'[q] = call[q]
    BY <1>0, <2>1, Records DEF Return
  <2>3. pc' = [pc EXCEPT ![o] = "ready"]
    BY <2>1 DEF Return, At
  <2>4. /\ identity' \in [Objects -> Identities \cup {None}] /\ identity'[o] \in Identities
        /\ \A q \in Objects \ {o} : identity'[q] = identity[q]
    BY <1>0, <2>1 DEF Return, CallInv, Bodies
  <2> QED
    BY <1>0, <2>2, <2>3, <2>4 DEF ObjectTypes, Others, CallInvAt, Idle, Places
<1>10. CASE WriteFails(o)
  BY <1>10, RaiseTypes DEF WriteFails, Idle
<1>11. CASE StoreFails(o)
  BY <1>11, RaiseTypes DEF StoreFails, Idle
<1>12. CASE Crash(o)
  <2>1. /\ identity' = [identity EXCEPT ![o] = None] /\ call' = [call EXCEPT ![o] = NoCall]
        /\ pc' = [pc EXCEPT ![o] = "down"]
    BY <1>12 DEF Crash, At
  <2> QED
    BY <1>0, <2>1, Records DEF ObjectTypes, Others, CallInvAt, Idle, Places
<1> QED
  BY <1>1, <1>2, <1>3, <1>4, <1>5, <1>6, <1>7, <1>8, <1>9, <1>10, <1>11, <1>12 DEF Step

LEMMA TypesInit == Init => Types
<1> SUFFICES ASSUME Init PROVE Types
  OBVIOUS
<1>1. TypeOK
  <2>1. overtaken \in [Objects -> BOOLEAN] /\ raced \in BOOLEAN /\ forked \in BOOLEAN
    BY DEF Init
  <2>2. scar \in [lines : Seq(Line), terminated : BOOLEAN]
    BY DEF Init, EmptyLedger
  <2>3. call \in [Objects -> Calls]
    BY DEF Init, NoCall, Call, Calls
  <2> QED
    BY <2>1, <2>2, <2>3 DEF Init, TypeOK, Calls
<1> QED
  BY <1>1 DEF Init, Types, CallInv, LedgerInv, EmptyLedger, Idle

LEMMA TypesStep ==
  ASSUME Types, [Next]_vars
  PROVE  Types'
<1>1. CASE UNCHANGED vars
  <2>1. UNCHANGED <<scar, identity_file, backups, identity, pc, call>>
    BY <1>1 DEF vars, fileVars, objectVars
  <2>2. UNCHANGED <<generated, returned, overtaken, raced, forked, faults>>
    BY <1>1 DEF vars, history
  <2>3. CallInv' /\ LedgerInv'
    BY <2>1 DEF Types, CallInv, LedgerInv, Idle
  <2>4. overtaken' \in [Objects -> BOOLEAN] /\ raced' \in BOOLEAN /\ forked' \in BOOLEAN
    BY <2>2 DEF Types, TypeOK
  <2>5. TypeOK'
    BY <2>1, <2>2, <2>4 DEF Types, TypeOK
  <2> QED
    BY <2>3, <2>5 DEF Types
<1>2. ASSUME NEW o \in Objects, Step(o)
      PROVE  Types'
  <2>1. ObjectTypes' /\ Others(o) /\ CallInvAt(o)' /\ FileTypes' /\ Flags'
    BY <1>2, ObjectStep, FileStep, FlagStep DEF Types
  <2>2. TypeOK'
    BY <2>1 DEF ObjectTypes, FileTypes, Flags, TypeOK, Calls, Places
  <2>3. CallInv'
    BY <2>1 DEF Others, CallInvAt, CallInv, Types, Idle
  <2> QED
    BY <2>1, <2>2, <2>3 DEF Types, FileTypes
<1> QED
  BY <1>1, <1>2 DEF Next

-----------------------------------------------------------------------------
(* The ledger.                                                             *)

\* A call that nobody overtook knows the ledger it will write to.
CallKnows ==
  \A o \in Objects :
    /\ pc[o] \in {"create", "replace"} => call[o].body.event_type # "CAPABILITY_ALLOW"
    /\ ~ overtaken[o] =>
         /\ pc[o] \in {"events", "write"} => Verifies(scar.lines)
         /\ pc[o] = "write" => call[o].lines = scar.lines
         /\ pc[o] \in {"verify", "events", "write"}
              /\ call[o].body.event_type = "CAPABILITY_ALLOW"
              => call[o].body.lease = Len(scar.lines) + 1

\* The calls that have verified the ledger and may yet write to it.
Late == {o \in Objects : pc[o] \in {"events", "write"}}

\* Each of them may add a line to a ledger that went bad, and no other.
LateInv ==
  \A i \in 1 .. Len(scar.lines) :
    ~ InChain(scar.lines, i) => Len(scar.lines) - i + Cardinality(Late) < Cardinality(Objects)

LeaseInv ==
  /\ \A lease \in returned : lease.event_type = "CAPABILITY_ALLOW"
  /\ ~ raced /\ Parses(scar.lines) =>
       \A lease \in returned : \E i \in 1 .. Len(scar.lines) : scar.lines[i].body = lease

\* o has written, wholly or in part, what it was about to.
Wrote(o) ==
  /\ pc[o] = "write" /\ Overtake(o) /\ pc'[o] \in {"ready", "down"}
  /\ scar' \in CutShort(Event(o)) \cup {Written(Event(o), TRUE)}
  /\ \/ UNCHANGED returned
     \/ /\ scar' = Written(Event(o), TRUE) /\ returned' = returned \cup {call[o].body}
        /\ call[o].body.event_type = "CAPABILITY_ALLOW"

\* Every step writes to the ledger or leaves it alone.
LEMMA LedgerStep ==
  ASSUME Types, NEW o \in Objects, Step(o)
  PROVE  \/ /\ UNCHANGED <<scar, raced, returned>>
            /\ UNCHANGED overtaken \/ overtaken' = [overtaken EXCEPT ![o] = FALSE]
         \/ Wrote(o)
<1>0. pc \in [Objects -> Places]
  BY DEF Types, TypeOK, Places
<1>1. CASE WriteEvent(o)
  <2>1. pc'[o] = "ready"
    BY <1>0, <1>1 DEF WriteEvent, Return, At
  <2> QED
    BY <1>1, <2>1 DEF WriteEvent, Return, Wrote
<1>2. CASE WriteFails(o)
  <2>1. pc'[o] \in {"ready", "down"}
    BY <1>0, <1>2 DEF WriteFails, Raise, At
  <2> QED
    BY <1>2, <2>1 DEF WriteFails, Wrote
<1>3. CASE Crash(o)
  <2>1. pc'[o] = "down"
    BY <1>0, <1>3 DEF Crash, At
  <2> QED
    BY <1>3, <2>1 DEF Crash, Wrote
<1>4. CASE LoadIdentity(o) \/ StoreIdentity(o) \/ ReplaceIdentity(o) \/ Verify(o)
           \/ ReadEvents(o) \/ StoreFails(o)
  BY <1>4 DEF LoadIdentity, StoreIdentity, ReplaceFile, ReplaceIdentity, Verify, ReadEvents, StoreFails,
     fileVars, history
<1>5. CASE CreateIdentity(o) \/ BeginRotate(o) \/ BeginIssue(o)
  BY <1>5 DEF CreateIdentity, BeginRotate, BeginIssue, Begin, fileVars
<1> QED
  BY <1>1, <1>2, <1>3, <1>4, <1>5 DEF Step

\* What a write leaves of the ledger: all but the last line is as it was.
LEMMA WriteKeeps ==
  ASSUME Types, NEW o \in Objects, Wrote(o)
  PROVE  LET n == Len(scar.lines) IN
         /\ n \in Nat /\ Len(scar'.lines) \in {n, n + 1}
         /\ \A i \in 1 .. Len(scar'.lines) - 1 : i \in 1 .. n /\ scar'.lines[i] = scar.lines[i]
         /\ \/ scar' = scar
            \/ Len(scar'.lines) > 0 /\ scar'.lines[Len(scar'.lines)] = Cut
            \/ Len(scar'.lines) = n + 1 /\ scar'.lines[n + 1] = Event(o)
<1> DEFINE n == Len(scar.lines)
<1>0. scar.lines \in Seq(Line) /\ n \in Nat
  BY DEF Types, TypeOK
<1>1. CASE scar' = scar
  BY <1>0, <1>1
<1>2. ASSUME NEW line \in {Cut, Event(o)}, NEW newline \in BOOLEAN,
             scar' = Written(line, newline)
      PROVE  /\ Len(scar'.lines) \in {n, n + 1}
             /\ \A i \in 1 .. Len(scar'.lines) - 1 : i \in 1 .. n /\ scar'.lines[i] = scar.lines[i]
             /\ \/ Len(scar'.lines) > 0 /\ scar'.lines[Len(scar'.lines)] = Cut
                \/ Len(scar'.lines) = n + 1 /\ scar'.lines[n + 1] = Event(o)
  <2>1. CASE scar.terminated
    <3>1. scar'.lines = Append(scar.lines, line)
      BY <1>2, <2>1 DEF Written
    <3>2. /\ Len(scar'.lines) = n + 1 /\ scar'.lines[n + 1] = line
          /\ \A i \in 1 .. n : scar'.lines[i] = scar.lines[i]
      BY <1>0, <3>1
    <3> QED
      BY <1>0, <3>2
  <2>2. CASE ~ scar.terminated
    <3>1. scar'.lines = [scar.lines EXCEPT ![n] = Cut] /\ n > 0
      BY <1>2, <2>2 DEF Written, Types, LedgerInv
    <3>2. /\ Len(scar'.lines) = n /\ scar'.lines[n] = Cut
          /\ \A i \in 1 .. n - 1 : scar'.lines[i] = scar.lines[i]
      BY <1>0, <3>1
    <3> QED
      BY <1>0, <3>1, <3>2
  <2> QED
    BY <2>1, <2>2
<1>3. scar' = scar \/ \E line \in {Cut, Event(o)} : \E newline \in BOOLEAN : scar' = Written(line, newline)
  BY DEF Wrote, CutShort
<1> QED
  BY <1>0, <1>1, <1>2, <1>3

\* Whether a line is in the chain depends on it and the one before it.
LEMMA InChainKept ==
  ASSUME NEW lines, NEW other, NEW i \in Nat \ {0}, lines[i] = other[i],
         i > 1 => lines[i - 1] = other[i - 1]
  PROVE  InChain(lines, i) = InChain(other, i)
BY DEF InChain, HashBefore

LEMMA CallKnowsStep ==
  ASSUME Types, CallKnows, NEW o \in Objects, Step(o)
  PROVE  CallKnows'
<1>0. /\ pc \in [Objects -> Places] /\ call \in [Objects -> Calls]
      /\ overtaken \in [Objects -> BOOLEAN] /\ scar.lines \in Seq(Line)
      /\ Others(o) /\ ObjectTypes'
  BY ObjectStep DEF Types, TypeOK, Places, Calls
<1> DEFINE Knows(q) ==
      /\ pc[q] \in {"create", "replace"} => call[q].body.event_type # "CAPABILITY_ALLOW"
      /\ ~ overtaken[q] =>
           /\ pc[q] \in {"events", "write"} => Verifies(scar.lines)
           /\ pc[q] = "write" => call[q].lines = scar.lines
           /\ pc[q] \in {"verify", "events", "write"}
                /\ call[q].body.event_type = "CAPABILITY_ALLOW"
                => call[q].body.lease = Len(scar.lines) + 1
<1>1. ASSUME NEW q \in Objects \ {o}
      PROVE  Knows(q)'
  <2>1. CASE Wrote(o)
    <3>1. overtaken'[q] \/ Idle(q)
      BY <1>0, <2>1 DEF Wrote, Overtake
    <3> QED
      BY <1>0, <3>1 DEF CallKnows, Idle, Others
  <2>2. CASE UNCHANGED scar /\ overtaken'[q] = overtaken[q]
    BY <1>0, <2>2 DEF CallKnows, Others
  <2> QED
    BY <1>0, <2>1, <2>2, LedgerStep
<1>2. Knows(o)'
  <2>1. CASE Wrote(o)
    BY <2>1 DEF Wrote
  <2>2. CASE pc'[o] \in {"ready", "down"}
    BY <2>2
  <2>3. CASE CreateIdentity(o) \/ BeginRotate(o)
    <3>1. /\ call'[o].body.event_type # "CAPABILITY_ALLOW" /\ pc'[o] \in {"create", "replace"}
      <4>1. PICK body \in Bodies : Begin(o, body) /\ body.event_type # "CAPABILITY_ALLOW"
        <5>1. \A new \in Identities :
                /\ Genesis(new) \in Bodies /\ Genesis(new).event_type # "CAPABILITY_ALLOW"
                /\ Rotation(new) \in Bodies /\ Rotation(new).event_type # "CAPABILITY_ALLOW"
          BY DEF Genesis, Rotation, Body, Bodies
        <5> QED
          BY <2>3, <5>1 DEF CreateIdentity, BeginRotate
      <4>2. call'[o].body = body
        BY <4>1, Records DEF Types
      <4> QED
        BY <1>0, <2>3, <4>1, <4>2 DEF CreateIdentity, BeginRotate, At
    <3> QED
      BY <3>1
  <2>4. CASE StoreIdentity(o) \/ ReplaceIdentity(o)
    <3>1. pc'[o] = "verify" /\ call'[o].body.event_type # "CAPABILITY_ALLOW"
      BY <1>0, <2>4 DEF StoreIdentity, ReplaceFile, ReplaceIdentity, At, CallKnows
    <3> QED
      BY <3>1
  <2>5. CASE BeginIssue(o)
    <3>1. Lease(identity[o], Len(scar.lines) + 1) \in Bodies
      BY <1>0, <2>5 DEF BeginIssue, Lease, Body, Bodies, Types, CallInv
    <3>2. pc'[o] = "verify" /\ call'[o].body = Lease(identity[o], Len(scar.lines) + 1) /\ UNCHANGED scar
      BY <1>0, <2>5, <3>1, Records DEF BeginIssue, At, Types, fileVars
    <3> QED
      BY <3>2 DEF Lease, Body
  <2>6. CASE Verify(o) /\ Verifies(scar.lines)
    <3>1. pc'[o] = "events" /\ UNCHANGED <<scar, call, overtaken>> /\ pc[o] = "verify"
      BY <1>0, <2>6 DEF Verify, At, fileVars, history
    <3> QED
      BY <2>6, <3>1 DEF CallKnows
  <2>7. CASE ReadEvents(o) /\ Parses(scar.lines)
    <3>1. /\ pc'[o] = "write" /\ UNCHANGED <<scar, overtaken>> /\ pc[o] = "events"
          /\ call' = [call EXCEPT ![o].lines = scar.lines]
      BY <1>0, <2>7 DEF ReadEvents, At, fileVars, history
    <3>2. call'[o].body = call[o].body /\ call'[o].lines = scar.lines
      BY <1>0, <3>1 DEF Calls
    <3> QED
      BY <3>1, <3>2 DEF CallKnows
  <2>8. CASE \/ LoadIdentity(o) \/ WriteEvent(o) \/ WriteFails(o) \/ StoreFails(o) \/ Crash(o)
             \/ (Verify(o) /\ ~ Verifies(scar.lines)) \/ (ReadEvents(o) /\ ~ Parses(scar.lines))
    <3>1. CASE LoadIdentity(o) \/ WriteEvent(o) \/ Crash(o)
      BY <1>0, <2>2, <3>1 DEF LoadIdentity, WriteEvent, Crash, Return, At
    <3>2. ASSUME Raise(o)
          PROVE  pc'[o] \in {"ready", "down"}
      BY <1>0, <3>2 DEF Raise, At
    <3>3. ASSUME \/ WriteFails(o) \/ StoreFails(o)
                 \/ (Verify(o) /\ ~ Verifies(scar.lines))
                 \/ (ReadEvents(o) /\ ~ Parses(scar.lines))
          PROVE  Raise(o)
      BY <3>3 DEF WriteFails, StoreFails, Verify, ReadEvents
    <3> QED
      BY <2>2, <2>8, <3>1, <3>2, <3>3
  <2> QED
    BY <2>3, <2>4, <2>5, <2>6, <2>7, <2>8 DEF Step
<1> QED
  BY <1>1, <1>2 DEF CallKnows

\* One more event, built from a ledger that verifies, is in the chain.
LEMMA NextInChain ==
  ASSUME NEW lines \in Seq(Line), NEW other \in Seq(Line), NEW body \in Bodies, Verifies(lines),
         Len(other) = Len(lines) + 1, other[Len(other)] = NextEvent(lines, body),
         \A i \in 1 .. Len(lines) : other[i] = lines[i]
  PROVE  InChain(other, Len(other))
<1> DEFINE n == Len(lines)
<1>1. n \in Nat /\ Len(other) = n + 1 /\ other[n + 1] = NextEvent(lines, body)
  OBVIOUS
<1>2. HashBefore(other, n + 1) = HashBefore(lines, n + 1)
  <2>1. CASE n = 0
    BY <2>1 DEF HashBefore
  <2>2. CASE n # 0
    BY <1>1, <2>2 DEF HashBefore
  <2> QED
    BY <2>1, <2>2
<1> QED
  BY <1>1, <1>2 DEF InChain, NextEvent

LEMMA LedgerChainedStep ==
  ASSUME Types, CallKnows, LedgerChained, NEW o \in Objects, Step(o)
  PROVE  LedgerChained'
<1>1. CASE UNCHANGED <<scar, raced>>
  BY <1>1 DEF LedgerChained
<1>2. CASE Wrote(o)
  <2> DEFINE n == Len(scar.lines)
  <2> SUFFICES ASSUME ~ raced', NEW i \in 1 .. Len(scar'.lines), scar'.lines[i].state = "event"
               PROVE  /\ InChain(scar'.lines, i)
                      /\ i > 1 => scar'.lines[i - 1].state = "event"
                      /\ scar'.lines[i].body.event_type = "CAPABILITY_ALLOW"
                           => scar'.lines[i].body.lease = i
    BY DEF LedgerChained
  <2>1. ~ raced /\ ~ overtaken[o] /\ pc[o] = "write"
    BY <1>2 DEF Wrote, Overtake
  <2>2. /\ Verifies(scar.lines) /\ call[o].lines = scar.lines /\ scar.lines \in Seq(Line)
        /\ call[o].body.event_type = "CAPABILITY_ALLOW" => call[o].body.lease = n + 1
    BY <2>1 DEF CallKnows, Types, TypeOK
  <2>3. /\ n \in Nat /\ Len(scar'.lines) \in {n, n + 1}
        /\ \A j \in 1 .. Len(scar'.lines) - 1 : j \in 1 .. n /\ scar'.lines[j] = scar.lines[j]
        /\ \/ scar' = scar
           \/ Len(scar'.lines) > 0 /\ scar'.lines[Len(scar'.lines)] = Cut
           \/ Len(scar'.lines) = n + 1 /\ scar'.lines[n + 1] = Event(o)
    BY <1>2, WriteKeeps
  <2>4. i > 1 => scar'.lines[i - 1].state = "event"
    <3> SUFFICES ASSUME i > 1 PROVE scar'.lines[i - 1].state = "event"
      OBVIOUS
    <3>1. i - 1 \in 1 .. Len(scar'.lines) - 1
      BY <2>3
    <3> QED
      BY <2>2, <2>3, <3>1 DEF Verifies, Parses
  <2>5. CASE i \in 1 .. n /\ scar'.lines[i] = scar.lines[i]
    <3>1. i > 1 => scar'.lines[i - 1] = scar.lines[i - 1]
      BY <2>3
    <3>2. InChain(scar'.lines, i)
      BY <2>2, <2>5, <3>1, InChainKept DEF Verifies
    <3> QED
      BY <2>1, <2>4, <2>5, <3>2 DEF LedgerChained
  <2>6. CASE Len(scar'.lines) = n + 1 /\ scar'.lines[n + 1] = Event(o) /\ i = n + 1
    <3>1. Event(o) = NextEvent(scar.lines, call[o].body) /\ call[o].body \in Bodies
      BY <2>1, <2>2 DEF Event, Types, CallInv, Idle
    <3>2. scar'.lines \in Seq(Line)
      BY FileStep DEF FileTypes
    <3>3. InChain(scar'.lines, i)
      <4>1. \A j \in 1 .. n : scar'.lines[j] = scar.lines[j]
        BY <2>3, <2>6
      <4>2. /\ Len(scar'.lines) = Len(scar.lines) + 1
            /\ scar'.lines[Len(scar'.lines)] = NextEvent(scar.lines, call[o].body)
        BY <2>6, <3>1
      <4>3. InChain(scar'.lines, Len(scar'.lines))
        BY <2>2, <3>1, <3>2, <4>1, <4>2, NextInChain
      <4> QED
        BY <2>6, <4>3
    <3>4. scar'.lines[i].body = call[o].body
      BY <2>6, <3>1 DEF NextEvent
    <3> QED
      BY <2>2, <2>4, <2>6, <3>3, <3>4
  <2>7. scar'.lines[i] # Cut
    BY DEF Cut
  <2> QED
    BY <2>3, <2>5, <2>6, <2>7
<1> QED
  BY <1>1, <1>2, LedgerStep

LEMMA LateStep ==
  ASSUME Types, LateInv, NEW o \in Objects, Step(o)
  PROVE  LateInv'
<1> DEFINE n == Len(scar.lines)
<1>0. /\ pc \in [Objects -> Places] /\ n \in Nat
      /\ Others(o) /\ ObjectTypes'
      /\ Late \subseteq Objects /\ Late' \subseteq Objects
  BY ObjectStep DEF Types, TypeOK, Places, Late
<1>1. /\ IsFiniteSet(Objects) /\ IsFiniteSet(Late) /\ IsFiniteSet(Late')
      /\ Cardinality(Late) \in Nat /\ Cardinality(Late') \in Nat /\ Cardinality(Objects) \in Nat
  BY <1>0, AuthorityAssumption, FS_Subset, FS_CardinalityType
<1>2. CASE UNCHANGED scar
  <2>1. CASE Late' \subseteq Late
    <3>1. Cardinality(Late') <= Cardinality(Late)
      BY <1>1, <2>1, FS_Subset
    <3> QED
      BY <1>0, <1>1, <1>2, <3>1 DEF LateInv
  <2>2. CASE Verifies(scar.lines)
    BY <1>2, <2>2 DEF Verifies, LateInv
  <2>3. Late' \subseteq Late \/ Verifies(scar.lines)
    <3>1. CASE o \in Late
      BY <1>0, <3>1 DEF Late, Others
    <3>2. CASE pc'[o] \notin {"events", "write"}
      BY <1>0, <3>2 DEF Late, Others
    <3>3. CASE Verify(o)
      BY <1>0, <3>2, <3>3 DEF Verify, Raise, At
    <3>4. CASE ~ Verify(o) /\ o \notin Late
      <4>1. /\ ~ ReadEvents(o) /\ ~ WriteEvent(o) /\ ~ WriteFails(o)
        BY <3>4 DEF Late, ReadEvents, WriteEvent, WriteFails
      <4>2. pc'[o] \notin {"events", "write"}
        BY <1>0, <3>4, <4>1 DEF Step, LoadIdentity, CreateIdentity, StoreIdentity, ReplaceFile, BeginRotate,
           ReplaceIdentity, BeginIssue, StoreFails, Crash, Raise, At
      <4> QED
        BY <3>2, <4>2
    <3> QED
      BY <3>1, <3>3, <3>4
  <2> QED
    BY <2>1, <2>2, <2>3
<1>3. CASE Wrote(o)
  <2>1. o \in Late /\ Late' = Late \ {o}
    BY <1>0, <1>3 DEF Wrote, Late, Others
  <2>2. Cardinality(Late') = Cardinality(Late) - 1
    BY <1>1, <2>1, FS_RemoveElement
  <2>3. Cardinality(Late') < Cardinality(Objects)
    <3>1. Cardinality(Late) <= Cardinality(Objects)
      BY <1>0, <1>1, FS_Subset
    <3> QED
      BY <1>1, <2>2, <3>1
  <2>4. /\ Len(scar'.lines) \in {n, n + 1}
        /\ \A j \in 1 .. Len(scar'.lines) - 1 : j \in 1 .. n /\ scar'.lines[j] = scar.lines[j]
    BY <1>3, WriteKeeps
  <2> SUFFICES ASSUME NEW i \in 1 .. Len(scar'.lines), ~ InChain(scar'.lines, i)
               PROVE  Len(scar'.lines) - i + Cardinality(Late') < Cardinality(Objects)
    BY DEF LateInv
  <2>5. CASE i = Len(scar'.lines)
    BY <1>0, <1>1, <2>3, <2>4, <2>5
  <2>6. CASE i # Len(scar'.lines)
    <3>1. i \in 1 .. n /\ scar'.lines[i] = scar.lines[i]
      BY <1>0, <2>4, <2>6
    <3>2. i > 1 => scar'.lines[i - 1] = scar.lines[i - 1]
      BY <1>0, <2>4, <2>6
    <3>3. ~ InChain(scar.lines, i)
      BY <3>1, <3>2, InChainKept
    <3>4. n - i + Cardinality(Late) < Cardinality(Objects)
      BY <3>1, <3>3 DEF LateInv
    <3> QED
      BY <1>0, <1>1, <2>2, <2>4, <3>1, <3>4
  <2> QED
    BY <2>5, <2>6
<1> QED
  BY <1>2, <1>3, LedgerStep

LEMMA LeaseStep ==
  ASSUME Types, LeaseInv, NEW o \in Objects, Step(o)
  PROVE  LeaseInv'
<1>1. CASE UNCHANGED <<scar, raced, returned>>
  BY <1>1 DEF LeaseInv
<1>2. CASE Wrote(o)
  <2> DEFINE n == Len(scar.lines)
  <2>1. \A lease \in returned' : lease.event_type = "CAPABILITY_ALLOW"
    BY <1>2 DEF Wrote, LeaseInv
  <2>2. /\ n \in Nat /\ Len(scar'.lines) \in {n, n + 1}
        /\ \A j \in 1 .. Len(scar'.lines) - 1 : j \in 1 .. n /\ scar'.lines[j] = scar.lines[j]
        /\ \/ scar' = scar
           \/ Len(scar'.lines) > 0 /\ scar'.lines[Len(scar'.lines)] = Cut
           \/ Len(scar'.lines) = n + 1 /\ scar'.lines[n + 1] = Event(o)
    BY <1>2, WriteKeeps
  <2> SUFFICES ASSUME ~ raced', Parses(scar'.lines), NEW lease \in returned'
               PROVE  \E i \in 1 .. Len(scar'.lines) : scar'.lines[i].body = lease
    BY <2>1 DEF LeaseInv
  <2>3. ~ raced
    BY <1>2 DEF Wrote, Overtake
  <2>4. ~ (Len(scar'.lines) > 0 /\ scar'.lines[Len(scar'.lines)] = Cut)
    BY <2>2, LineTypes DEF Parses
  <2>5. CASE scar' = scar /\ UNCHANGED returned
    BY <2>3, <2>5 DEF LeaseInv
  <2>6. CASE Len(scar'.lines) = n + 1 /\ scar'.lines[n + 1] = Event(o)
    <3>1. \A j \in 1 .. n : scar'.lines[j] = scar.lines[j]
      BY <2>2, <2>6
    <3>2. CASE lease \in returned
      <4>0. n \in Nat /\ Len(scar'.lines) = n + 1
        BY <2>2, <2>6
      <4>1. \A j \in 1 .. n : j \in 1 .. Len(scar'.lines)
        BY <4>0
      <4>2. Parses(scar.lines)
        BY <3>1, <4>1 DEF Parses
      <4>3. PICK i \in 1 .. n : scar.lines[i].body = lease
        BY <2>3, <3>2, <4>2 DEF LeaseInv
      <4> QED
        BY <3>1, <4>1, <4>3
    <3>3. CASE lease = call[o].body
      BY <2>2, <2>6, <3>3 DEF Event, NextEvent
    <3> QED
      BY <1>2, <3>2, <3>3 DEF Wrote
  <2>7. CASE scar' = scar /\ returned' # returned
    <3>1. scar' = Written(Event(o), TRUE)
      BY <1>2, <2>7 DEF Wrote
    <3>2. CASE scar.terminated
      BY <2>2, <2>7, <3>1, <3>2 DEF Written, Types, TypeOK
    <3>3. CASE ~ scar.terminated
      <4>1. scar'.lines[n] = Cut /\ n > 0
        BY <3>1, <3>3 DEF Written, Types, TypeOK, LedgerInv
      <4> QED
        BY <2>4, <2>7, <4>1
    <3> QED
      BY <3>2, <3>3
  <2> QED
    BY <2>2, <2>4, <2>5, <2>6, <2>7
<1> QED
  BY <1>1, <1>2, LedgerStep

-----------------------------------------------------------------------------
(* The identities.                                                         *)

\* The identities on disk: in use, or backed up.
Kept == (backups \cup {identity_file}) \ {None}

\* Every identity an object holds, or a call is to be recorded under, is kept;
\* the one a rotation is about to replace is backed up.
KeptInv ==
  ~ forked =>
    /\ \A i \in 1 .. Len(scar.lines) :
         scar.lines[i].state = "event" => scar.lines[i].body.key_id \in Kept
    /\ \A o \in Objects :
         /\ identity[o] \in Kept \cup {None}
         /\ pc[o] \in {"verify", "events", "write"} => call[o].body.key_id \in Kept
         /\ pc[o] = "replace" => call[o].old \in backups

LEMMA KeptGrows ==
  ASSUME Types, KeptInv, NEW o \in Objects, Step(o), ~ forked'
  PROVE  ~ forked /\ Kept \subseteq Kept' /\ backups \subseteq backups'
<1>1. CASE StoreIdentity(o)
  <2>1. ~ forked /\ identity_file = None /\ UNCHANGED backups
    BY <1>1 DEF StoreIdentity, ReplaceFile
  <2> QED
    BY <2>1 DEF Kept
<1>2. CASE ReplaceIdentity(o)
  <2>1. ~ forked /\ identity_file = call[o].old /\ UNCHANGED backups /\ pc[o] = "replace"
    BY <1>2 DEF ReplaceIdentity, ReplaceFile
  <2>2. identity_file \in backups
    BY <2>1 DEF KeptInv
  <2> QED
    BY <2>1, <2>2 DEF Kept
<1>3. CASE BeginRotate(o)
  BY <1>3 DEF BeginRotate, Kept
<1>4. CASE StoreFails(o)
  <2>1. /\ UNCHANGED backups /\ pc[o] \in {"create", "replace"}
        /\ UNCHANGED <<identity_file, forked>> \/ ReplaceFile(o)
    BY <1>4, Zenon DEF StoreFails
  <2>2. CASE UNCHANGED <<identity_file, forked>>
    BY <2>1, <2>2 DEF Kept
  <2>3. CASE ReplaceFile(o)
    <3>1. ~ forked /\ identity_file = IF pc[o] = "create" THEN None ELSE call[o].old
      BY <2>3, Zenon DEF ReplaceFile
    <3>2. CASE pc[o] = "create"
      BY <3>1, <3>2, <2>1 DEF Kept
    <3>3. CASE pc[o] = "replace"
      <4>1. identity_file \in backups
        BY <3>1, <3>3 DEF KeptInv
      <4> QED
        BY <3>1, <4>1, <2>1 DEF Kept
    <3> QED
      BY <2>1, <3>2, <3>3
  <2> QED
    BY <2>1, <2>2, <2>3
<1>5. CASE ~ StoreIdentity(o) /\ ~ ReplaceIdentity(o) /\ ~ BeginRotate(o) /\ ~ StoreFails(o)
  <2>1. UNCHANGED <<identity_file, backups, forked>>
    BY <1>5 DEF Step, LoadIdentity, CreateIdentity, BeginIssue, Verify, ReadEvents, WriteEvent,
       WriteFails, Crash, fileVars, history
  <2> QED
    BY <2>1 DEF Kept
<1> QED
  BY <1>1, <1>2, <1>3, <1>4, <1>5

LEMMA KeptStep ==
  ASSUME Types, KeptInv, NEW o \in Objects, Step(o)
  PROVE  KeptInv'
<1> SUFFICES ASSUME ~ forked' PROVE KeptInv'
  BY DEF KeptInv
<1>0. /\ pc \in [Objects -> Places] /\ call \in [Objects -> Calls]
      /\ identity \in [Objects -> Identities \cup {None}]
      /\ identity_file \in Identities \cup {None} /\ None \notin Identities
      /\ Others(o) /\ ObjectTypes' /\ FileTypes'
      /\ ~ forked /\ Kept \subseteq Kept' /\ backups \subseteq backups'
  BY ObjectStep, FileStep, KeptGrows, AuthorityAssumption DEF Types, TypeOK, Places, Calls
<1>1. \A i \in 1 .. Len(scar'.lines) :
        scar'.lines[i].state = "event" => scar'.lines[i].body.key_id \in Kept'
  <2>1. CASE UNCHANGED scar
    BY <1>0, <2>1 DEF KeptInv
  <2>2. CASE Wrote(o)
    <3> SUFFICES ASSUME NEW i \in 1 .. Len(scar'.lines), scar'.lines[i].state = "event"
                 PROVE  scar'.lines[i].body.key_id \in Kept'
      OBVIOUS
    <3> DEFINE n == Len(scar.lines)
    <3>1. /\ n \in Nat /\ Len(scar'.lines) \in {n, n + 1}
          /\ \A j \in 1 .. Len(scar'.lines) - 1 : j \in 1 .. n /\ scar'.lines[j] = scar.lines[j]
          /\ \/ scar' = scar
             \/ Len(scar'.lines) > 0 /\ scar'.lines[Len(scar'.lines)] = Cut
             \/ Len(scar'.lines) = n + 1 /\ scar'.lines[n + 1] = Event(o)
      BY <2>2, WriteKeeps
    <3>2. scar'.lines[i] # Cut
      BY DEF Cut
    <3>3. CASE i \in 1 .. n /\ scar'.lines[i] = scar.lines[i]
      BY <1>0, <3>3 DEF KeptInv
    <3>4. CASE scar'.lines[i] = Event(o)
      <4>1. scar'.lines[i].body = call[o].body
        BY <3>4 DEF Event, NextEvent
      <4> QED
        BY <1>0, <2>2, <4>1 DEF KeptInv, Wrote
    <3> QED
      BY <3>1, <3>2, <3>3, <3>4
  <2> QED
    BY <2>1, <2>2, LedgerStep
<1>2. ASSUME NEW q \in Objects \ {o}
      PROVE  /\ identity'[q] \in Kept' \cup {None}
             /\ pc'[q] \in {"verify", "events", "write"} => call'[q].body.key_id \in Kept'
             /\ pc'[q] = "replace" => call'[q].old \in backups'
  BY <1>0 DEF KeptInv, Others
<1>3. /\ identity'[o] \in Kept' \cup {None}
      /\ pc'[o] \in {"verify", "events", "write"} => call'[o].body.key_id \in Kept'
      /\ pc'[o] = "replace" => call'[o].old \in backups'
  <2>0. /\ identity[o] \in Kept' \cup {None}
        /\ pc[o] \in {"verify", "events", "write"} => call[o].body.key_id \in Kept'
    BY <1>0 DEF KeptInv
  <2>1. CASE LoadIdentity(o)
    <3>1. pc'[o] = "ready" /\ identity'[o] = identity_file
      BY <1>0, <2>1 DEF LoadIdentity, At
    <3> QED
      BY <1>0, <3>1 DEF Kept
  <2>2. CASE CreateIdentity(o)
    BY <1>0, <2>0, <2>2 DEF CreateIdentity, At
  <2>3. CASE StoreIdentity(o) \/ ReplaceIdentity(o)
    <3>1. /\ pc'[o] = "verify" /\ call' = call /\ identity_file' = call[o].body.key_id
          /\ identity'[o] \in {identity[o], call[o].body.key_id}
      BY <1>0, <2>3 DEF StoreIdentity, ReplaceFile, ReplaceIdentity, At
    <3>2. call[o].body.key_id \in Identities
      BY <2>3 DEF StoreIdentity, ReplaceFile, ReplaceIdentity, Types, CallInv, Idle, Bodies
    <3> QED
      BY <1>0, <2>0, <3>1, <3>2 DEF Kept
  <2>4. CASE BeginRotate(o)
    <3>1. /\ pc'[o] = "replace" /\ identity' = identity /\ identity[o] \in backups'
      BY <1>0, <2>4 DEF BeginRotate, At
    <3>2. call'[o].old = identity[o]
      <4>1. PICK new \in Identities : Begin(o, Rotation(new))
        BY <2>4 DEF BeginRotate
      <4>2. Rotation(new) \in Bodies
        BY DEF Rotation, Body, Bodies
      <4> QED
        BY <4>1, <4>2, Records DEF Types
    <3> QED
      BY <2>0, <3>1, <3>2
  <2>5. CASE BeginIssue(o)
    <3>1. Lease(identity[o], Len(scar.lines) + 1) \in Bodies /\ identity[o] \in Identities
      BY <1>0, <2>5 DEF BeginIssue, Lease, Body, Bodies, Types, CallInv
    <3>2. /\ pc'[o] = "verify" /\ identity' = identity
          /\ call'[o].body = Lease(identity[o], Len(scar.lines) + 1)
      BY <1>0, <2>5, <3>1, Records DEF BeginIssue, At, Types
    <3> QED
      BY <1>0, <2>0, <3>1, <3>2 DEF Lease, Body
  <2>6. CASE \/ (Verify(o) /\ Verifies(scar.lines)) \/ (ReadEvents(o) /\ Parses(scar.lines))
    <3>1. /\ pc[o] \in {"verify", "events"} /\ pc'[o] \in {"events", "write"} /\ identity' = identity
          /\ call' = call \/ call' = [call EXCEPT ![o].lines = scar.lines]
      BY <1>0, <2>6 DEF Verify, ReadEvents, At
    <3>2. call'[o].body = call[o].body
      BY <1>0, <3>1 DEF Calls
    <3> QED
      BY <2>0, <3>1, <3>2
  <2>7. ASSUME Raise(o), UNCHANGED identity
        PROVE  pc'[o] \in {"ready", "down"} /\ identity'[o] \in Kept' \cup {None}
    BY <1>0, <2>0, <2>7 DEF Raise, At
  <2>8. CASE \/ WriteFails(o) \/ StoreFails(o)
             \/ (Verify(o) /\ ~ Verifies(scar.lines)) \/ (ReadEvents(o) /\ ~ Parses(scar.lines))
    <3>1. Raise(o) /\ UNCHANGED identity
      BY <2>8 DEF WriteFails, StoreFails, Verify, ReadEvents
    <3> QED
      BY <2>7, <3>1
  <2>9. CASE WriteEvent(o)
    <3>1. pc'[o] = "ready" /\ identity'[o] \in {identity[o], call[o].body.key_id} /\ pc[o] = "write"
      BY <1>0, <2>9 DEF WriteEvent, Return, At
    <3> QED
      BY <2>0, <3>1
  <2>10. CASE Crash(o)
    BY <1>0, <2>10 DEF Crash, At
  <2> QED
    BY <2>1, <2>2, <2>3, <2>4, <2>5, <2>6, <2>8, <2>9, <2>10 DEF Step
<1> QED
  BY <1>1, <1>2, <1>3 DEF KeptInv

-----------------------------------------------------------------------------
(* The identity on record: IdentityOnRecord.                               *)

\* Without faults every line is written whole.
WholeInv == faults = 0 => scar.terminated /\ Parses(scar.lines)

\* The ledger's last genesis or rotation names the identity in use.
Recorded ==
  \E i \in 1 .. Len(scar.lines) :
    /\ Identified(i) /\ scar.lines[i].body.key_id = identity_file
    /\ \A j \in i + 1 .. Len(scar.lines) : ~ Identified(j)

\* A call that has replaced the identity on disk and is yet to record it.
Naming(o) ==
  /\ pc[o] \in {"verify", "events", "write"}
  /\ call[o].body.event_type # "CAPABILITY_ALLOW"

\* The identity in use is on record or on its way there, and a call that may
\* still record one without a race records it, or is not the only one.
NamedInv ==
  faults = 0 /\ ~ raced =>
    /\ identity_file # None => Recorded \/ \E o \in Objects : Naming(o)
    /\ \A o \in Objects : Naming(o) /\ ~ overtaken[o] =>
         call[o].body.key_id = identity_file \/ \E q \in Objects \ {o} : Naming(q)

LEMMA WholeStep ==
  ASSUME Types, WholeInv, NEW o \in Objects, Step(o)
  PROVE  WholeInv'
<1>0. faults \in Nat /\ scar.lines \in Seq(Line)
  BY DEF Types, TypeOK
<1>1. CASE WriteEvent(o)
  <2> SUFFICES ASSUME faults = 0 PROVE scar'.terminated /\ Parses(scar'.lines)
    BY <1>1 DEF WholeInv, WriteEvent
  <2>1. scar' = [lines |-> Append(scar.lines, Event(o)), terminated |-> TRUE]
    BY <1>1 DEF WholeInv, WriteEvent, Written
  <2>2. Event(o).state = "event" /\ Parses(scar.lines)
    BY DEF Event, NextEvent, WholeInv
  <2>3. Parses(scar'.lines)
    BY <1>0, <2>1, <2>2 DEF Parses
  <2> QED
    BY <2>1, <2>3
<1>2. CASE WriteFails(o) \/ StoreFails(o) \/ Crash(o)
  BY <1>0, <1>2 DEF WriteFails, StoreFails, Crash, WholeInv
<1>3. CASE UNCHANGED <<scar, faults>>
  BY <1>3 DEF WholeInv, Parses
<1> QED
  BY <1>1, <1>2, <1>3 DEF Step, LoadIdentity, CreateIdentity, StoreIdentity, ReplaceFile, BeginRotate,
     ReplaceIdentity, BeginIssue, Verify, ReadEvents, fileVars, history

\* Who is naming after a step that neither writes to the ledger nor fails.
LEMMA NamingStep ==
  ASSUME Types, CallKnows, LedgerChained, WholeInv, faults = 0, ~ raced, NEW o \in Objects,
         LoadIdentity(o) \/ CreateIdentity(o) \/ BeginRotate(o) \/ BeginIssue(o)
           \/ Verify(o) \/ ReadEvents(o)
  PROVE  /\ UNCHANGED <<scar, identity_file>>
         /\ \A q \in Objects : (Naming(q)' <=> Naming(q))
         /\ \A q \in Objects : Naming(q) =>
              call'[q].body = call[q].body /\ overtaken'[q] = overtaken[q]
<1>0. /\ pc \in [Objects -> Places] /\ call \in [Objects -> Calls] /\ overtaken \in [Objects -> BOOLEAN]
      /\ Others(o) /\ Step(o)
  BY ObjectStep DEF Types, TypeOK, Places, Calls, Step
<1>1. UNCHANGED <<scar, identity_file>>
  BY DEF LoadIdentity, CreateIdentity, BeginRotate, BeginIssue, Verify, ReadEvents, fileVars
<1>2. UNCHANGED overtaken \/ overtaken' = [overtaken EXCEPT ![o] = FALSE]
  BY DEF LoadIdentity, CreateIdentity, BeginRotate, BeginIssue, Verify, ReadEvents, Begin, history
<1>3. ASSUME NEW q \in Objects \ {o}
      PROVE  /\ (Naming(q)' <=> Naming(q))
             /\ call'[q].body = call[q].body
  BY <1>0 DEF Others, Naming
<1>4. ASSUME NEW q \in Objects \ {o}
      PROVE  overtaken'[q] = overtaken[q]
  BY <1>0, <1>2
<1>5. CASE LoadIdentity(o)
  <2>1. ~ Naming(o) /\ ~ Naming(o)'
    BY <1>0, <1>5 DEF LoadIdentity, At, Naming
  <2> QED
    BY <1>1, <1>3, <1>4, <2>1
<1>6. CASE CreateIdentity(o) \/ BeginRotate(o)
  <2>1. ~ Naming(o) /\ ~ Naming(o)'
    BY <1>0, <1>6 DEF CreateIdentity, BeginRotate, At, Naming
  <2> QED
    BY <1>1, <1>3, <1>4, <2>1
<1>7. CASE BeginIssue(o)
  <2>1. Lease(identity[o], Len(scar.lines) + 1) \in Bodies
    BY <1>0, <1>7 DEF BeginIssue, Lease, Body, Bodies, Types, TypeOK, CallInv
  <2>2. call'[o].body = Lease(identity[o], Len(scar.lines) + 1)
    BY <1>7, <2>1, Records DEF BeginIssue, Types
  <2>3. ~ Naming(o) /\ ~ Naming(o)'
    BY <1>7, <2>2 DEF BeginIssue, Naming, Lease, Body
  <2> QED
    BY <1>1, <1>3, <1>4, <2>3
<1>8. CASE Verify(o) \/ ReadEvents(o)
  <2>1. Parses(scar.lines) /\ Verifies(scar.lines)
    BY DEF WholeInv, LedgerChained, Parses, Verifies
  <2>2. /\ pc[o] \in {"verify", "events"} /\ pc'[o] \in {"events", "write"}
        /\ call' = call \/ call' = [call EXCEPT ![o].lines = scar.lines]
    BY <1>0, <1>8, <2>1 DEF Verify, ReadEvents, At
  <2>3. call'[o].body = call[o].body
    BY <1>0, <2>2 DEF Calls
  <2>4. UNCHANGED overtaken
    BY <1>8 DEF Verify, ReadEvents, history
  <2>5. Naming(o)' <=> Naming(o)
    BY <2>2, <2>3 DEF Naming
  <2> QED
    BY <1>1, <1>3, <1>4, <2>3, <2>4, <2>5
<1> QED
  BY <1>5, <1>6, <1>7, <1>8

\* A write that was not overtaken: the event is added to what o knows, and
\* every other call that is naming is now overtaken.
LEMMA NamedWrite ==
  ASSUME Types, CallKnows, WholeInv, NamedInv, NEW o \in Objects, WriteEvent(o),
         faults' = 0, ~ raced'
  PROVE  NamedInv'
<1> PICK n \in Nat : n = Len(scar.lines)
  BY DEF Types, TypeOK
<1>0. /\ pc \in [Objects -> Places] /\ Others(o) /\ pc[o] = "write" /\ pc'[o] = "ready"
      /\ n = Len(scar.lines) /\ scar.lines \in Seq(Line) /\ UNCHANGED identity_file
  <2>1. Step(o)
    BY DEF Step
  <2> QED
    BY <2>1, ObjectStep DEF Types, TypeOK, Places, WriteEvent, Return, At
<1>1. faults = 0 /\ ~ raced /\ ~ overtaken[o]
  BY DEF WriteEvent, Overtake
<1>2. scar' = [lines |-> Append(scar.lines, Event(o)), terminated |-> TRUE]
  BY <1>1 DEF WholeInv, WriteEvent, Written
<1>3. /\ Len(scar'.lines) = n + 1 /\ \A i \in 1 .. n : scar'.lines[i] = scar.lines[i]
      /\ scar'.lines[n + 1].body = call[o].body
  BY <1>0, <1>2 DEF Event, NextEvent
<1>4. call[o].body \in Bodies
  BY <1>0 DEF Types, CallInv, Idle
<1>5. ASSUME NEW q \in Objects \ {o}
      PROVE  /\ (Naming(q)' <=> Naming(q))
             /\ Naming(q) => overtaken'[q]
  <2>1. (Naming(q)' <=> Naming(q))
    BY <1>0 DEF Others, Naming
  <2>2. Naming(q) => ~ Idle(q)
    BY DEF Naming, Idle
  <2>3. ~ Idle(q) => overtaken'[q]
    BY DEF WriteEvent, Overtake
  <2> QED
    BY <2>1, <2>2, <2>3
<1>6. ~ Naming(o)'
  BY <1>0 DEF Naming
<1>7. ASSUME identity_file # None
      PROVE  Recorded' \/ \E q \in Objects : Naming(q)'
  <2>1. CASE \E q \in Objects \ {o} : Naming(q)
    BY <1>5, <2>1
  <2>2. CASE ~ (\E q \in Objects \ {o} : Naming(q)) /\ Naming(o)
    <3>1. call[o].body.key_id = identity_file
      BY <1>1, <2>2 DEF NamedInv
    <3>2. call[o].body.event_type \in {"IDENTITY_GENESIS", "KEY_ROTATION"}
      BY <1>4, <2>2 DEF Naming, Bodies
    <3>3. Identified(n + 1)' /\ scar'.lines[n + 1].body.key_id = identity_file'
      BY <1>0, <1>3, <3>1, <3>2 DEF Identified
    <3>4. n + 1 \in 1 .. Len(scar'.lines) /\ (n + 1) + 1 .. Len(scar'.lines) = {}
      BY <1>0, <1>3
    <3>5. Recorded'
      BY <3>3, <3>4 DEF Recorded
    <3> QED
      BY <3>5
  <2>3. CASE ~ (\E q \in Objects \ {o} : Naming(q)) /\ ~ Naming(o)
    <3>1. Recorded
      BY <1>1, <1>7, <2>3 DEF NamedInv
    <3>2. PICK i \in 1 .. n : /\ Identified(i) /\ scar.lines[i].body.key_id = identity_file
                              /\ \A j \in i + 1 .. n : ~ Identified(j)
      BY <3>1 DEF Recorded
    <3>3. call[o].body.event_type = "CAPABILITY_ALLOW"
      BY <1>0, <2>3 DEF Naming
    <3>4. ~ Identified(n + 1)'
      BY <1>3, <3>3 DEF Identified
    <3>5. \A j \in 1 .. n : (Identified(j)' <=> Identified(j))
      BY <1>3 DEF Identified
    <3>6. i \in 1 .. Len(scar'.lines) /\ Identified(i)' /\ scar'.lines[i].body.key_id = identity_file'
      BY <1>0, <1>3, <3>2, <3>5
    <3>7. \A j \in i + 1 .. Len(scar'.lines) : ~ Identified(j)'
      <4> SUFFICES ASSUME NEW j \in i + 1 .. Len(scar'.lines) PROVE ~ Identified(j)'
        OBVIOUS
      <4>1. j = n + 1 \/ j \in i + 1 .. n
        BY <1>0, <1>3
      <4> QED
        BY <1>0, <3>2, <3>4, <3>5, <4>1
    <3> QED
      BY <3>6, <3>7 DEF Recorded
  <2> QED
    BY <2>1, <2>2, <2>3
<1>8. \A q \in Objects : Naming(q)' => overtaken'[q]
  BY <1>5, <1>6
<1> QED
  BY <1>0, <1>7, <1>8 DEF NamedInv

LEMMA NamedStep ==
  ASSUME Types, CallKnows, LedgerChained, WholeInv, NamedInv, NEW o \in Objects, Step(o)
  PROVE  NamedInv'
<1> SUFFICES ASSUME faults' = 0, ~ raced' PROVE NamedInv'
  BY DEF NamedInv
<1>0. /\ faults \in Nat /\ pc \in [Objects -> Places] /\ Others(o)
  BY ObjectStep DEF Types, TypeOK, Places
<1>1. CASE WriteEvent(o)
  BY <1>1, NamedWrite
<1>2. CASE WriteFails(o) \/ StoreFails(o) \/ Crash(o)
  BY <1>0, <1>2 DEF WriteFails, StoreFails, Crash
<1>3. CASE StoreIdentity(o) \/ ReplaceIdentity(o)
  <2>1. /\ pc[o] \in {"create", "replace"} /\ pc'[o] = "verify" /\ call' = call
        /\ identity_file' = call[o].body.key_id
    BY <1>0, <1>3 DEF StoreIdentity, ReplaceFile, ReplaceIdentity, At
  <2>2. Naming(o)'
    BY <2>1 DEF Naming, CallKnows
  <2>3. call'[o].body.key_id = identity_file'
    BY <2>1
  <2> QED
    BY <2>2, <2>3 DEF NamedInv
<1>4. CASE LoadIdentity(o) \/ CreateIdentity(o) \/ BeginRotate(o) \/ BeginIssue(o)
             \/ Verify(o) \/ ReadEvents(o)
  <2>1. faults = 0 /\ ~ raced
    BY <1>4 DEF LoadIdentity, CreateIdentity, BeginRotate, BeginIssue, Verify, ReadEvents, history
  <2>2. /\ UNCHANGED <<scar, identity_file>>
        /\ \A q \in Objects : (Naming(q)' <=> Naming(q))
        /\ \A q \in Objects : Naming(q) =>
             call'[q].body = call[q].body /\ overtaken'[q] = overtaken[q]
    BY <1>4, <2>1, NamingStep
  <2>3. Recorded' <=> Recorded
    BY <2>2 DEF Recorded, Identified
  <2>4. identity_file' # None => Recorded' \/ \E q \in Objects : Naming(q)'
    BY <2>1, <2>2, <2>3 DEF NamedInv
  <2>5. ASSUME NEW q \in Objects, Naming(q)', ~ overtaken'[q]
        PROVE  call'[q].body.key_id = identity_file' \/ \E p \in Objects \ {q} : Naming(p)'
    BY <2>1, <2>2, <2>5 DEF NamedInv
  <2> QED
    BY <2>4, <2>5 DEF NamedInv
<1> QED
  BY <1>1, <1>2, <1>3, <1>4 DEF Step

-----------------------------------------------------------------------------
(* The theorems.                                                           *)

IInv ==
  /\ Types /\ CallKnows /\ LedgerChained /\ LateInv /\ LeaseInv /\ KeptInv
  /\ WholeInv /\ NamedInv

LEMMA Invariant == Spec => []IInv
<1>1. Init => IInv
  <2> SUFFICES ASSUME Init PROVE IInv
    OBVIOUS
  <2>1. scar.lines = <<>> /\ returned = {} /\ \A o \in Objects : pc[o] = "down" /\ identity[o] = None
    BY DEF Init, EmptyLedger
  <2>2. CallKnows /\ LedgerChained /\ LateInv /\ LeaseInv /\ KeptInv
    BY <2>1 DEF CallKnows, LedgerChained, LateInv, LeaseInv, KeptInv
  <2>3. WholeInv /\ NamedInv
    BY <2>1 DEF Init, EmptyLedger, WholeInv, NamedInv, Parses, Naming
  <2> QED
    BY <2>2, <2>3, TypesInit DEF IInv
<1>2. IInv /\ [Next]_vars => IInv'
  <2> SUFFICES ASSUME IInv, [Next]_vars PROVE IInv'
    OBVIOUS
  <2>1. CASE UNCHANGED vars
    <3>1. UNCHANGED <<scar, identity_file, backups, identity, pc, call, returned, overtaken,
                      raced, forked, faults>>
      BY <2>1 DEF vars, fileVars, objectVars, history
    <3>2. Types'
      BY TypesStep DEF IInv
    <3>3. CallKnows' /\ LedgerChained'
      BY <3>1 DEF IInv, CallKnows, LedgerChained
    <3>4. LateInv' /\ LeaseInv' /\ KeptInv'
      BY <3>1 DEF IInv, LateInv, Late, LeaseInv, KeptInv, Kept
    <3>5. WholeInv' /\ NamedInv'
      BY <3>1 DEF IInv, WholeInv, NamedInv, Recorded, Identified, Naming
    <3> QED
      BY <3>2, <3>3, <3>4, <3>5 DEF IInv
  <2>2. ASSUME NEW o \in Objects, Step(o)
        PROVE  IInv'
    BY <2>2, TypesStep, CallKnowsStep, LedgerChainedStep, LateStep, LeaseStep, KeptStep,
       WholeStep, NamedStep DEF IInv
  <2> QED
    BY <2>1, <2>2 DEF Next
<1> QED
  BY <1>1, <1>2, PTL DEF Spec

\* The files, the objects and the locals of their calls keep their shapes
\* (authority.py:56-214).
THEOREM Typed == Spec => []TypeOK
<1>1. IInv => TypeOK
  BY DEF IInv, Types
<1> QED
  BY <1>1, Invariant, PTL

\* As long as no call wrote to a ledger that had changed under it, what parses
\* of the ledger is one chain from genesis and each lease names the sequence of
\* its own event, for any number of objects, crashes and torn writes
\* (authority.py:69-101, 203).
THEOREM ChainKept == Spec => []LedgerChained
<1>1. IInv => LedgerChained
  BY DEF IInv
<1> QED
  BY <1>1, Invariant, PTL

\* A ledger that does not verify gets no line but those of the calls that had
\* verified it before, one for each other object at most (authority.py:86).
THEOREM BrokenIsClosed == Spec => []FailsClosed
<1>1. IInv => FailsClosed
  <2> SUFFICES ASSUME IInv, NEW i \in 1 .. Len(scar.lines), ~ InChain(scar.lines, i)
               PROVE  Len(scar.lines) - i < Cardinality(Objects)
    BY DEF FailsClosed
  <2>1. /\ Cardinality(Objects) \in Nat /\ Cardinality(Late) \in Nat
        /\ Len(scar.lines) \in Nat
    BY AuthorityAssumption, FS_Subset, FS_CardinalityType DEF Late, IInv, Types, TypeOK
  <2>2. Len(scar.lines) - i + Cardinality(Late) < Cardinality(Objects)
    BY DEF IInv, LateInv
  <2> QED
    BY <2>1, <2>2
<1> QED
  BY <1>1, Invariant, PTL

\* A lease that was returned is in the ledger, and every object that holds the
\* identity that signed it accepts it, unless calls raced or a line was cut
\* (authority.py:211-230).
THEOREM LeasesKeep == Spec => []LeasesHonoured
<1>1. IInv => LeasesHonoured
  <2> SUFFICES ASSUME IInv, ~ raced, Parses(scar.lines), NEW lease \in returned
               PROVE  /\ \E i \in 1 .. Len(scar.lines) : scar.lines[i].body = lease
                      /\ \A o \in Objects : identity[o] = lease.key_id => VerifyCapability(o, lease)
    BY DEF LeasesHonoured
  <2>1. PICK i \in 1 .. Len(scar.lines) : scar.lines[i].body = lease
    BY DEF IInv, LeaseInv
  <2>2. \A j \in 1 .. Len(scar.lines) : InChain(scar.lines, j)
    BY DEF IInv, LedgerChained, Parses
  <2>3. lease.lease = i
    BY <2>1 DEF IInv, LeaseInv, LedgerChained, Parses
  <2> QED
    BY <2>1, <2>2, <2>3 DEF VerifyCapability, Verifies
<1> QED
  BY <1>1, Invariant, PTL

\* An identity that signed what the ledger holds is in use or backed up, unless
\* an object replaced an identity it did not hold (authority.py:163-166).
THEOREM SignersOnDisk == Spec => []SignersKept
<1>1. IInv => SignersKept
  BY DEF IInv, KeptInv, Kept, SignersKept
<1> QED
  BY <1>1, Invariant, PTL

\* Between calls, when nothing failed or raced, the identity in use is the one
\* the ledger's last genesis or rotation names (authority.py:132-134, 166-176).
THEOREM OnRecord == Spec => []IdentityOnRecord
<1>1. IInv => IdentityOnRecord
  <2> SUFFICES ASSUME IInv, faults = 0, ~ raced, \A o \in Objects : Idle(o), identity_file # None
               PROVE  Recorded
    BY DEF IdentityOnRecord, Recorded
  <2>1. \A o \in Objects : ~ Naming(o)
    BY DEF Idle, Naming
  <2> QED
    BY <2>1 DEF IInv, NamedInv
<1> QED
  BY <1>1, Invariant, PTL
-----------------------------------------------------------------------------
(* Authority implements TamperEvidentTrail.                                *)

\* The first n lines are in the chain, and the next is not.
VerifiesUpTo(lines, n) ==
  /\ \A i \in 1 .. n : InChain(lines, i)
  /\ n < Len(lines) => ~ InChain(lines, n + 1)

\* There is a first line that is not in the chain, or none.
VerifiedInv == \E n \in 0 .. Len(scar.lines) : VerifiesUpTo(scar.lines, n)

LEMMA VerifiedUpTo ==
  ASSUME NEW lines \in Seq(Line), NEW n \in 0 .. Len(lines), VerifiesUpTo(lines, n)
  PROVE  Verified(lines) = n /\ (Broken(lines) # {} <=> n < Len(lines))
<1>0. Len(lines) \in Nat
  OBVIOUS
<1>1. CASE n = Len(lines)
  <2>1. Broken(lines) = {}
    BY <1>1 DEF Broken, VerifiesUpTo
  <2> QED
    BY <1>1, <2>1 DEF Verified
<1>2. CASE n < Len(lines)
  <2>1. n + 1 \in Broken(lines)
    BY <1>0, <1>2 DEF Broken, VerifiesUpTo
  <2>2. \A j \in Broken(lines) : j \in Nat /\ n + 1 <= j
    BY <1>0 DEF Broken, VerifiesUpTo
  <2> DEFINE first == CHOOSE i \in Broken(lines) : \A j \in Broken(lines) : i <= j
  <2>3. first = n + 1
    <3>1. \A i \in Broken(lines) : (\A j \in Broken(lines) : i <= j) => i = n + 1
      BY <2>1, <2>2
    <3> QED
      BY <2>1, <2>2, <3>1
  <2>4. Verified(lines) = first - 1
    BY <2>1 DEF Verified
  <2> HIDE DEF first
  <2> QED
    BY <1>2, <2>1, <2>3, <2>4
<1> QED
  BY <1>0, <1>1, <1>2

\* A line is added, or the last one is spoiled.
LEMMA TrailWritten ==
  ASSUME Types, Types', VerifiedInv, NEW line \in Line, NEW newline \in BOOLEAN,
         scar' = Written(line, newline)
  PROVE  VerifiedInv' /\ [Evident!Next]_(Evident!vars)
<1> PICK len \in Nat : len = Len(scar.lines)
  BY DEF Types, TypeOK
<1> PICK m \in Nat : m = Len(scar'.lines)
  BY DEF Types, TypeOK
<1>0. scar.lines \in Seq(Line) /\ scar'.lines \in Seq(Line) /\ scar.terminated \in BOOLEAN
  BY DEF Types, TypeOK
<1>1. PICK n \in 0 .. len : VerifiesUpTo(scar.lines, n)
  BY DEF VerifiedInv
<1>2. /\ Closed <=> n < len
      /\ Trail = [i \in 1 .. n |-> scar.lines[i].body]
      /\ Settled = n - (IF n < len \/ scar.terminated THEN 0 ELSE 1)
  BY <1>0, <1>1, VerifiedUpTo DEF Closed, Trail, Settled
<1>3. ASSUME NEW k \in 0 .. m, VerifiesUpTo(scar'.lines, k)
      PROVE  /\ VerifiedInv'
             /\ Closed' <=> k < m
             /\ Trail' = [i \in 1 .. k |-> scar'.lines[i].body]
             /\ Settled' = k - (IF k < m \/ newline THEN 0 ELSE 1)
  <2>1. Verified(scar'.lines) = k /\ (Broken(scar'.lines) # {} <=> k < m)
    BY <1>0, <1>3, VerifiedUpTo
  <2>2. scar'.terminated = newline
    BY DEF Written
  <2>3. VerifiedInv'
    BY <1>3 DEF VerifiedInv
  <2>4. (Closed' <=> k < m) /\ Trail' = [i \in 1 .. k |-> scar'.lines[i].body]
    BY <2>1 DEF Closed, Trail
  <2>5. Settled' = k - (IF k < m \/ newline THEN 0 ELSE 1)
    BY <2>1, <2>2, <2>4 DEF Settled
  <2> QED
    BY <2>3, <2>4, <2>5
<1>4. CASE scar.terminated
  <2>1. scar'.lines = Append(scar.lines, line)
    BY <1>4 DEF Written
  <2>2. m = len + 1 /\ \A i \in 1 .. len : scar'.lines[i] = scar.lines[i]
    BY <1>0, <2>1
  <2>3. ASSUME NEW i \in 1 .. len
        PROVE  InChain(scar'.lines, i) = InChain(scar.lines, i)
    <3>1. i \in Nat \ {0} /\ (i > 1 => i - 1 \in 1 .. len)
      OBVIOUS
    <3>2. /\ scar'.lines[i] = scar.lines[i]
          /\ i > 1 => scar'.lines[i - 1] = scar.lines[i - 1]
      BY <2>2, <3>1
    <3> QED
      BY <3>1, <3>2, InChainKept
  <2>4. CASE n < len
    <3>1. VerifiesUpTo(scar'.lines, n)
      BY <1>1, <2>2, <2>3, <2>4 DEF VerifiesUpTo
    <3>2. \A i \in 1 .. n : scar'.lines[i] = scar.lines[i]
      BY <2>2
    <3>3. VerifiedInv' /\ Closed /\ Closed' /\ Settled = n /\ Settled' = n
      BY <1>2, <1>3, <2>2, <2>4, <3>1
    <3>4. Trail' = Trail
      BY <1>2, <1>3, <2>2, <3>1, <3>2
    <3> QED
      BY <3>3, <3>4 DEF Evident!vars, Closed
  <2>5. CASE n = len /\ InChain(scar'.lines, m)
    <3>1. VerifiesUpTo(scar'.lines, m)
      BY <1>1, <2>2, <2>3, <2>5 DEF VerifiesUpTo
    <3>2. /\ VerifiedInv' /\ ~ Closed /\ ~ Closed' /\ Settled = n
          /\ Settled' \in {n, n + 1}
      BY <1>2, <1>3, <1>4, <2>2, <2>5, <3>1
    <3>3. /\ Trail = [i \in 1 .. n |-> scar.lines[i].body]
          /\ Trail' = [i \in 1 .. n + 1 |-> scar'.lines[i].body]
      BY <1>2, <1>3, <2>2, <2>5, <3>1
    <3>4. Len(Trail) = n /\ Len(Trail') = n + 1 /\ SubSeq(Trail', 1, n) = Trail
      BY <2>2, <2>5, <3>3
    <3>5. Closed' = Closed
      BY <3>2 DEF Closed
    <3>6. Evident!Extend
      BY <3>2, <3>4, <3>5 DEF Evident!Extend
    <3> QED
      BY <3>2, <3>6 DEF Evident!Next
  <2>6. CASE n = len /\ ~ InChain(scar'.lines, m)
    <3>1. VerifiesUpTo(scar'.lines, n)
      BY <1>1, <2>2, <2>3, <2>6 DEF VerifiesUpTo
    <3>2. VerifiedInv' /\ ~ Closed /\ Closed' /\ Settled = n /\ Settled' = n
      BY <1>2, <1>3, <1>4, <2>2, <2>6, <3>1
    <3>3. /\ Trail = [i \in 1 .. n |-> scar.lines[i].body]
          /\ Trail' = [i \in 1 .. n |-> scar'.lines[i].body]
      BY <1>2, <1>3, <2>2, <3>1
    <3>4. Trail' = SubSeq(Trail, 1, n)
      BY <2>2, <2>6, <3>3
    <3> QED
      BY <3>2, <3>4 DEF Evident!Next, Evident!Close, Closed
  <2> QED
    BY <2>4, <2>5, <2>6
<1>5. CASE ~ scar.terminated
  <2>1. scar'.lines = [scar.lines EXCEPT ![len] = Cut] /\ len > 0
    BY <1>5 DEF Written, Types, LedgerInv
  <2>2. /\ m = len /\ scar'.lines[len] = Cut
        /\ \A i \in 1 .. len - 1 : scar'.lines[i] = scar.lines[i]
    BY <1>0, <2>1
  <2>3. ASSUME NEW i \in 1 .. len - 1
        PROVE  InChain(scar'.lines, i) = InChain(scar.lines, i)
    <3>1. i \in Nat \ {0} /\ (i > 1 => i - 1 \in 1 .. len - 1)
      OBVIOUS
    <3>2. /\ scar'.lines[i] = scar.lines[i]
          /\ i > 1 => scar'.lines[i - 1] = scar.lines[i - 1]
      BY <2>2, <3>1
    <3> QED
      BY <3>1, <3>2, InChainKept
  <2>4. ~ InChain(scar'.lines, len)
    BY <2>2, LineTypes DEF InChain
  <2>5. CASE n < len
    <3>1. VerifiesUpTo(scar'.lines, n)
      <4>1. \A i \in 1 .. n : InChain(scar'.lines, i)
        BY <1>1, <2>3, <2>5 DEF VerifiesUpTo
      <4>2. ~ InChain(scar'.lines, n + 1)
        <5>1. CASE n + 1 = len
          BY <2>4, <5>1
        <5>2. CASE n + 1 # len
          <6>1. n + 1 \in 1 .. len - 1
            BY <2>5, <5>2
          <6>2. ~ InChain(scar.lines, n + 1)
            BY <1>1, <2>5 DEF VerifiesUpTo
          <6> QED
            BY <2>3, <6>1, <6>2
        <5> QED
          BY <5>1, <5>2
      <4> QED
        BY <4>1, <4>2 DEF VerifiesUpTo
    <3>2. \A i \in 1 .. n : scar'.lines[i] = scar.lines[i]
      BY <2>2, <2>5
    <3>3. VerifiedInv' /\ Closed /\ Closed' /\ Settled = n /\ Settled' = n
      BY <1>2, <1>3, <2>2, <2>5, <3>1
    <3>4. Trail' = Trail
      BY <1>2, <1>3, <2>2, <3>1, <3>2
    <3> QED
      BY <3>3, <3>4 DEF Evident!vars, Closed
  <2>6. CASE n = len
    <3>1. n - 1 \in 0 .. m
      BY <2>1, <2>2, <2>6
    <3>2. VerifiesUpTo(scar'.lines, n - 1)
      BY <1>1, <2>2, <2>3, <2>4, <2>6 DEF VerifiesUpTo
    <3>3. n - 1 < m /\ ~ n < len
      BY <2>1, <2>2, <2>6
    <3>4. VerifiedInv' /\ Closed' /\ Settled' = n - 1
      BY <1>3, <3>1, <3>2, <3>3
    <3>5. ~ Closed /\ Settled = n - 1
      BY <1>2, <1>5, <3>3
    <3>6. VerifiedInv' /\ ~ Closed /\ Closed' /\ Settled = n - 1 /\ Settled' = n - 1
      BY <3>4, <3>5
    <3>7. /\ Trail = [i \in 1 .. n |-> scar.lines[i].body]
          /\ Trail' = [i \in 1 .. n - 1 |-> scar'.lines[i].body]
      BY <1>2, <1>3, <3>1, <3>2
    <3>8. Trail' = SubSeq(Trail, 1, n - 1)
      BY <2>1, <2>2, <2>6, <3>7
    <3> QED
      BY <3>6, <3>8 DEF Evident!Next, Evident!Close, Closed
  <2> QED
    BY <2>5, <2>6
<1> QED
  BY <1>4, <1>5

LEMMA TrailStep ==
  ASSUME Types, VerifiedInv, [Next]_vars
  PROVE  VerifiedInv' /\ [Evident!Next]_(Evident!vars)
<1>1. CASE UNCHANGED scar
  <2>1. VerifiedInv'
    BY <1>1 DEF VerifiedInv, VerifiesUpTo
  <2>2. UNCHANGED <<Trail, Settled, Closed>>
    BY <1>1 DEF Trail, Settled, Closed
  <2> QED
    BY <2>1, <2>2 DEF Evident!vars
<1>2. ASSUME NEW o \in Objects, Wrote(o)
      PROVE  VerifiedInv' /\ [Evident!Next]_(Evident!vars)
  <2>1. Event(o) \in Line /\ Cut \in Line
    <3>1. call[o].body \in Bodies /\ call[o].lines \in Seq(EventLine)
      BY <1>2 DEF Wrote, Idle, Types, CallInv
    <3> QED
      BY <3>1, EventTypes, LineTypes DEF Event
  <2>2. scar' = scar \/ \E line \in {Cut, Event(o)} : \E newline \in BOOLEAN : scar' = Written(line, newline)
    BY <1>2 DEF Wrote, CutShort
  <2>3. Types'
    BY TypesStep
  <2> QED
    BY <1>1, <2>1, <2>2, <2>3, TrailWritten
<1>3. CASE UNCHANGED vars
  BY <1>1, <1>3 DEF vars, fileVars
<1> QED
  BY <1>1, <1>2, <1>3, LedgerStep DEF Next

\* Through races, crashes and torn writes of any number of objects, what
\* verifies of the ledger is never rewritten, loses no event whose newline was
\* written, and does not grow again once the ledger does not verify
\* (authority.py:57, 69-101).
THEOREM LedgerIsTamperEvident == Spec => ImplementsTrail
<1>1. Init => VerifiedInv /\ Evident!Init
  <2> SUFFICES ASSUME Init PROVE VerifiedInv /\ Evident!Init
    OBVIOUS
  <2>1. scar.lines = <<>> /\ scar.terminated /\ Len(scar.lines) = 0
    BY DEF Init, EmptyLedger
  <2>2. VerifiesUpTo(scar.lines, 0)
    BY <2>1 DEF VerifiesUpTo
  <2>3. Verified(scar.lines) = 0 /\ Broken(scar.lines) = {}
    <3>1. scar.lines \in Seq(Line) /\ 0 \in 0 .. Len(scar.lines)
      BY <2>1
    <3> QED
      <4>1. Verified(scar.lines) = 0 /\ (Broken(scar.lines) # {} <=> 0 < Len(scar.lines))
        BY <2>2, <3>1, VerifiedUpTo
      <4> QED
        BY <2>1, <4>1
  <2>4. Trail = <<>> /\ ~ Closed /\ Settled = 0
    BY <2>1, <2>3 DEF Trail, Closed, Settled
  <2> QED
    BY <2>1, <2>2, <2>3, <2>4 DEF VerifiedInv, Evident!Init, Closed
<1>2. IInv /\ VerifiedInv /\ [Next]_vars => VerifiedInv' /\ [Evident!Next]_(Evident!vars)
  BY TrailStep DEF IInv
<1> QED
  BY <1>1, <1>2, Invariant, PTL DEF Spec, ImplementsTrail, Evident!Spec
=============================================================================
