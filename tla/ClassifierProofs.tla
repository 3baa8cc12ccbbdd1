-------------------------- MODULE ClassifierProofs --------------------------
(***************************************************************************)
(* Proofs about Classifier, for any records, workers, people, backends and *)
(* bounds.  Where two rewrites of one record do not overlap, no verdict    *)
(* overrides a person or another verdict, however late it comes, and note  *)
(* and event stay together.                                                *)
(*                                                                         *)
(* What a step may do to a record depends on what its process read some    *)
(* steps ago.  The inductive invariant says how much of that is still      *)
(* true: a worker that passed the check of apply_update rewrites a note    *)
(* that is still owed a review, the file a rewrite has read has not        *)
(* changed, and between its two writes the note is one change ahead.       *)
(***************************************************************************)
EXTENDS Classifier, TLAPS

(***************************************************************************)
(* Types.                                                                  *)
(***************************************************************************)
LEMMA ClassIsChange == Class \subseteq Change /\ Keep \in Change /\ Unclassified \in Class
BY DEF Class, Change, Keep, Unclassified

LEMMA AppliedIsClass ==
    ASSUME NEW c \in Class, NEW d \in Change PROVE Applied(c, d) \in Class
BY DEF Applied, Change

LEMMA IdleIsProcess == Idle \in Process
BY ClassIsChange DEF Idle, Process, NoEntries

LEMMA ViewIsClass ==
    ASSUME TypeOK, NEW r \in Records PROVE View(r) \in Class
BY DEF TypeOK, View, Class

LEMMA NextIsProcess ==
    ASSUME NEW s \in Process PROVE NextRecord(s) \in Process
BY ClassIsChange DEF NextRecord, Process

LEMMA SkipIsProcess ==
    ASSUME NEW s \in Process, NEW r \in Records
    PROVE  /\ SkipsRecord(s, r) \in Process
           /\ SkipsRecord(s, r).pc = s.pc
           /\ SkipsRecord(s, r).batch \subseteq s.batch
<1>1. s.attempts + 1 \in Nat /\ s.batch \ {r} \in SUBSET Records BY DEF Process
<1>2. CASE s.attempts + 1 >= MaxAttempts
  BY <1>1, <1>2 DEF SkipsRecord, Process
<1>3. CASE ~(s.attempts + 1 >= MaxAttempts)
  BY <1>1, <1>3 DEF SkipsRecord, Process
<1> QED BY <1>2, <1>3

LEMMA FailureIsProcess ==
    ASSUME NEW s \in Process, NEW r \in Records PROVE AfterFailure(s, r) \in Process
<1> DEFINE t == SkipsRecord(s, r)
<1>2. t \in Process BY SkipIsProcess
<1> HIDE DEF t
<1>3. t.failures + 1 \in Nat /\ t.backend + 1 \in Nat BY <1>2 DEF Process
<1>4. Rotates(t) \in Process
  <2>1. CASE t.failures + 1 < MaxFailures BY <1>2, <1>3, <2>1 DEF Rotates, Process
  <2>2. CASE ~(t.failures + 1 < MaxFailures) /\ t.backend = Len(Backends)
    BY <1>2, <2>2 DEF Rotates, Process
  <2>3. CASE ~(t.failures + 1 < MaxFailures) /\ t.backend # Len(Backends)
    BY <1>2, <1>3, <2>3 DEF Rotates, Process
  <2> QED BY <2>1, <2>2, <2>3
<1> QED BY <1>4 DEF AfterFailure, t

LEMMA VerdictIsChange ==
    ASSUME NEW c \in Class, NEW v \in Verdict(c) PROVE v \in Class /\ v.by = "llm"
BY DEF Verdict, Class

LEMMA PersonalIsChange ==
    ASSUME NEW c \in PersonalChange
    PROVE  c \in Change /\ (c = Keep \/ c.by \in {"manual", "none"})
BY DEF PersonalChange, Manual, Change, Class, Unclassified

LEMMA ProcsSplit == ASSUME NEW p \in Procs PROVE p \in Workers <=> p \notin People
BY ClassifierAssumption DEF Procs

Targeted(s) == s.pc \in {"check", "read", "note", "look", "event"} => s.target \in Records

LEMMA StateOf ==
    ASSUME TypeOK, NEW p \in Procs PROVE proc[p] \in Process /\ Targeted(proc[p])
BY DEF TypeOK, Targeted, Rewriting, Target

\* A move of one process to a state of its type.
LEMMA MoveTyped ==
    ASSUME TypeOK, NEW p \in Procs, NEW s \in Process, Targeted(s), Becomes(p, s)
    PROVE  /\ proc' \in [Procs -> Process]
           /\ \A q \in Procs : (proc[q].pc = "check" \/ Rewriting(q, Target(q)))'
                                => (Target(q) \in Records)'
BY DEF TypeOK, Becomes, Targeted, Rewriting, Target

LEMMA GoesTyped ==
    ASSUME TypeOK, NEW p \in Procs, Targeted(proc[p]),
           NEW pc \in {"stamp", "create", "stale", "remove", "begin", "report",
                       "unlock", "read", "look"},
           pc \in {"read", "look"} => proc[p].target \in Records, Goes(p, pc)
    PROVE  \E s \in Process : Targeted(s) /\ Becomes(p, s)
<1>1. [proc[p] EXCEPT !.pc = pc] \in Process BY StateOf DEF Process
<1> QED BY <1>1, StateOf DEF Goes, Targeted, Process

LEMMA IdleTyped == Idle \in Process /\ Targeted(Idle)
BY IdleIsProcess DEF Idle, Targeted

LEMMA NextTyped ==
    ASSUME NEW s \in Process PROVE NextRecord(s) \in Process /\ Targeted(NextRecord(s))
BY NextIsProcess DEF NextRecord, Targeted, Process

\* What a step makes of its process.
LEMMA StepTyped ==
    ASSUME TypeOK, NEW p \in Procs, Step(p)
    PROVE  \E s \in Process : Targeted(s) /\ Becomes(p, s)
<1> DEFINE s0 == proc[p]
<1>0. s0 \in Process /\ Targeted(s0) BY StateOf
<1>1. CASE ReadIndex(p)
  <2> DEFINE e == [r \in Records |-> View(r)]
  <2>1. e \in [Records -> Class] BY ViewIsClass
  <2> HIDE DEF e
  <2>2. [s0 EXCEPT !.entries = e, !.pc = "stamp"] \in Process BY <1>0, <2>1 DEF Process
  <2>3. Becomes(p, [s0 EXCEPT !.entries = e, !.pc = "stamp"]) BY <1>1 DEF ReadIndex, e
  <2>4. Targeted([s0 EXCEPT !.entries = e, !.pc = "stamp"]) BY <1>0 DEF Targeted, Process
  <2> QED BY <2>2, <2>3, <2>4
<1>2. CASE CheckStamp(p) BY <1>2, <1>0, GoesTyped, IdleTyped DEF CheckStamp
<1>3. CASE CreateLock(p) BY <1>3, <1>0, GoesTyped DEF CreateLock
<1>4. CASE CheckStale(p) BY <1>4, <1>0, GoesTyped, IdleTyped DEF CheckStale
<1>5. CASE RemoveLock(p)
  <2>1. Goes(p, "create") BY <1>5 DEF RemoveLock
  <2> QED BY <2>1, <1>0, GoesTyped
<1>6. CASE Begin(p)
  <2>1. CASE Goes(p, "report") BY <2>1, <1>0, GoesTyped
  <2>2. CASE Becomes(p, [s0 EXCEPT !.batch = Batch(s0.entries), !.pc = "ask"])
    <3>1. Batch(s0.entries) \in SUBSET Records BY DEF Batch
    <3>2. [s0 EXCEPT !.batch = Batch(s0.entries), !.pc = "ask"] \in Process
      BY <1>0, <3>1 DEF Process
    <3>3. Targeted([s0 EXCEPT !.batch = Batch(s0.entries), !.pc = "ask"])
      BY <1>0 DEF Targeted, Process
    <3> QED BY <2>2, <3>2, <3>3
  <2> QED BY <1>6, <2>1, <2>2 DEF Begin
<1>7. CASE EndBatch(p)
  <2>1. Goes(p, "report") BY <1>7 DEF EndBatch
  <2> QED BY <2>1, <1>0, GoesTyped
<1>8. ASSUME NEW r \in Records, Judged(p, r)
      PROVE  \E s \in Process : Targeted(s) /\ Becomes(p, s)
  <2>1. s0.entries[r] \in Class BY <1>0 DEF Process
  <2>2. PICK v \in Verdict(s0.entries[r]) :
          Becomes(p, [s0 EXCEPT !.failures = 0, !.target = r, !.change = v, !.pc = "check"])
    BY <1>8 DEF Judged
  <2>3. v \in Change BY <2>1, <2>2, VerdictIsChange, ClassIsChange
  <2> DEFINE s == [s0 EXCEPT !.failures = 0, !.target = r, !.change = v, !.pc = "check"]
  <2>4. s \in Process BY <1>0, <2>3 DEF Process
  <2>5. Targeted(s) BY <1>0 DEF Targeted, Process
  <2> QED BY <2>2, <2>4, <2>5
<1>9. ASSUME NEW r \in Records, CallFails(p, r)
      PROVE  \E s \in Process : Targeted(s) /\ Becomes(p, s)
  <2>1. s0.pc = "ask" /\ Becomes(p, AfterFailure(s0, r)) BY <1>9 DEF CallFails, Asks
  <2>2. AfterFailure(s0, r).pc \in {"ask", "report"}
    <3>1. SkipsRecord(s0, r) \in Process /\ SkipsRecord(s0, r).pc = "ask"
      BY <1>0, <2>1, SkipIsProcess DEF SkipsRecord, Process
    <3> QED BY <3>1 DEF AfterFailure, Rotates, Process
  <2> QED BY <1>0, <2>1, <2>2, FailureIsProcess DEF Targeted
<1>10. CASE CheckNote(p)
  <2>1. CASE Goes(p, "read")
    <3>1. s0.target \in Records BY <1>10, <1>0 DEF CheckNote, Targeted
    <3> QED BY <2>1, <3>1, <1>0, GoesTyped
  <2>2. CASE Becomes(p, NextRecord(s0)) BY <2>2, <1>0, NextTyped
  <2> QED BY <1>10, <2>1, <2>2 DEF CheckNote
<1>11. CASE ReadNote(p)
  <2>1. s0.target \in Records /\ note[s0.target] \in Class
    BY <1>11, <1>0 DEF ReadNote, Targeted, TypeOK
  <2> DEFINE s == [s0 EXCEPT !.base = note[s0.target], !.pc = "note"]
  <2>2. s \in Process /\ Targeted(s) BY <1>0, <2>1 DEF Process, Targeted
  <2> QED BY <2>2, <1>11 DEF ReadNote, Target
<1>12. CASE WriteNote(p)
  <2>1. s0.target \in Records BY <1>12, <1>0 DEF WriteNote, Targeted
  <2> QED BY <1>12, <1>0, <2>1, GoesTyped, IdleTyped, NextTyped DEF WriteNote, Rewritten
<1>13. CASE ReadEvent(p)
  <2>1. s0.target \in Records /\ event[s0.target] \in Class
    BY <1>13, <1>0 DEF ReadEvent, Targeted, TypeOK
  <2> DEFINE s == [s0 EXCEPT !.base = event[s0.target], !.pc = "event"]
  <2>2. s \in Process /\ Targeted(s) BY <1>0, <2>1 DEF Process, Targeted
  <2> QED BY <2>2, <1>13 DEF ReadEvent, Target
<1>14. CASE WriteEvent(p)
  BY <1>14, <1>0, IdleTyped, NextTyped DEF WriteEvent, Rewritten
<1>15. CASE WriteStamp(p)
  <2>1. Goes(p, "unlock") BY <1>15 DEF WriteStamp
  <2> QED BY <2>1, <1>0, GoesTyped
<1>16. CASE Unlock(p) BY <1>16, IdleTyped DEF Unlock
<1> QED
  BY <1>1, <1>2, <1>3, <1>4, <1>5, <1>6, <1>7, <1>8, <1>9, <1>10, <1>11, <1>12,
     <1>13, <1>14, <1>15, <1>16 DEF Step

-----------------------------------------------------------------------------
LEMMA InitTyped == Init => TypeOK
<1> SUFFICES ASSUME Init PROVE TypeOK
  OBVIOUS
<1>1. note \in [Records -> Class] /\ event \in [Records -> Class]
  <2>1. [kind : Kinds \cup {None}, by : {"none", "old"}] \subseteq Class BY DEF Class
  <2> QED BY <2>1 DEF Init
<1>2. \A p \in Procs : proc[p] = Idle BY DEF Init
<1>3. proc \in [Procs -> Process] BY IdleIsProcess DEF Init
<1>4. Idle.pc = "idle" BY DEF Idle
<1>5. retags \in 0..MaxRetags /\ errors \in 0..MaxErrors /\ crashes \in 0..MaxCrashes
  BY ClassifierAssumption DEF Init
<1> QED BY <1>1, <1>2, <1>3, <1>4, <1>5 DEF Init, TypeOK, Rewriting

\* What a step makes of everything but the processes.
Others == /\ note \in [Records -> Class] /\ event \in [Records -> Class]
          /\ lock \in {"absent", "fresh", "stale"} /\ stamped \in BOOLEAN
          /\ retags \in 0..MaxRetags /\ errors \in 0..MaxErrors
          /\ crashes \in 0..MaxCrashes

LEMMA OthersTyped ==
    ASSUME TypeOK, NEW p \in Procs, Step(p) PROVE Others'
<1>1. Others BY DEF TypeOK, Others
<1>2. {MaxRetags, MaxErrors, MaxCrashes} \subseteq Nat BY ClassifierAssumption
<1>3. proc[p] \in Process /\ Targeted(proc[p]) BY StateOf
<1>4. CASE ReadIndex(p) \/ CheckStamp(p) \/ CheckStale(p) \/ EndBatch(p)
           \/ CheckNote(p) \/ ReadNote(p) \/ ReadEvent(p)
  BY <1>1, <1>4 DEF Others, ReadIndex, CheckStamp, CheckStale, EndBatch, CheckNote,
                    ReadNote, ReadEvent, store
<1>5. CASE CreateLock(p) \/ RemoveLock(p) \/ WriteStamp(p) \/ Unlock(p)
  BY <1>1, <1>5 DEF Others, CreateLock, RemoveLock, WriteStamp, Unlock, store
<1>6. CASE Begin(p) \/ \E r \in Records : Judged(p, r) \/ CallFails(p, r)
  <2>1. UNCHANGED <<note, event, stamped, retags, crashes>>
    BY <1>6 DEF Begin, Judged, CallFails, store
  <2>2. lock' \in {lock, "fresh"} BY <1>6 DEF Begin, Judged, CallFails
  <2>3. errors' = errors \/ (errors < MaxErrors /\ errors' = errors + 1)
    BY <1>6 DEF Begin, Judged, CallFails
  <2>4. errors' \in 0..MaxErrors BY <1>1, <1>2, <2>3 DEF Others
  <2> QED BY <1>1, <2>1, <2>2, <2>4 DEF Others
<1>7. CASE WriteNote(p)
  <2>1. Applied(proc[p].base, proc[p].change) \in Class
    BY <1>3, AppliedIsClass DEF Process
  <2>2. note' = [note EXCEPT ![Target(p)] = Applied(proc[p].base, proc[p].change)]
    BY <1>7 DEF WriteNote
  <2>3. note' \in [Records -> Class] BY <1>1, <2>1, <2>2 DEF Others
  <2> QED BY <1>1, <1>7, <2>3 DEF Others, WriteNote
<1>8. CASE WriteEvent(p)
  <2>1. Applied(proc[p].base, proc[p].change) \in Class
    BY <1>3, AppliedIsClass DEF Process
  <2>2. event' = [event EXCEPT ![Target(p)] = Applied(proc[p].base, proc[p].change)]
    BY <1>8 DEF WriteEvent
  <2>3. event' \in [Records -> Class] BY <1>1, <2>1, <2>2 DEF Others
  <2> QED BY <1>1, <1>8, <2>3 DEF Others, WriteEvent
<1> QED BY <1>4, <1>5, <1>6, <1>7, <1>8 DEF Step

\* A run that starts, by hand or by a hook.
Started(auto) == [Idle EXCEPT !.pc = "index", !.auto = auto]

LEMMA StartMoves ==
    ASSUME NEW p \in Workers, HookStop(p) \/ Classify(p)
    PROVE  /\ p \in Procs
           /\ \E auto \in BOOLEAN : Becomes(p, Started(auto))
           /\ proc[p].pc = "idle" /\ UNCHANGED <<store, lock, stamped, retags, errors, crashes>>
<1>1. [Idle EXCEPT !.pc = "index"] = Started(FALSE)
  <2>1. Idle.auto = FALSE BY DEF Idle
  <2> QED BY <2>1, IdleIsProcess DEF Started, Process
<1>2. CASE HookStop(p)
  <2>1. Becomes(p, Started(TRUE)) BY <1>2 DEF HookStop, Started
  <2> QED BY <1>2, <2>1 DEF HookStop, Procs
<1>3. CASE Classify(p)
  <2>1. Becomes(p, Started(FALSE)) BY <1>1, <1>3 DEF Classify
  <2> QED BY <1>3, <2>1 DEF Classify, Procs
<1> QED BY <1>2, <1>3

LEMMA StartedTyped ==
    ASSUME NEW auto \in BOOLEAN
    PROVE  /\ Started(auto) \in Process /\ Targeted(Started(auto))
           /\ Started(auto).pc = "index" /\ Started(auto).batch = {}
<1>1. Started(auto) \in Process BY IdleIsProcess DEF Started, Process
<1>2. Started(auto).pc = "index" /\ Started(auto).batch = {} BY DEF Started, Idle
<1> QED BY <1>1, <1>2 DEF Targeted

LEMMA TypeStep == TypeOK /\ [Next]_vars => TypeOK'
<1> SUFFICES ASSUME TypeOK, [Next]_vars PROVE TypeOK'
  OBVIOUS
<1>1. Others BY DEF TypeOK, Others
<1>2. {MaxRetags, MaxErrors, MaxCrashes} \subseteq Nat BY ClassifierAssumption
<1>3. ASSUME NEW p \in Procs, NEW s \in Process, Targeted(s), Becomes(p, s), Others'
      PROVE  TypeOK'
  BY <1>3, MoveTyped DEF TypeOK, Others
<1>4. CASE UNCHANGED vars
  BY <1>4 DEF vars, TypeOK, Rewriting, Target
<1>5. ASSUME NEW p \in Workers, HookStop(p) \/ Classify(p) PROVE TypeOK'
  <2>1. Others' BY <1>1, <1>5, StartMoves DEF Others, store
  <2>2. PICK auto \in BOOLEAN : Becomes(p, Started(auto)) BY <1>5, StartMoves
  <2>3. p \in Procs BY <1>5, StartMoves
  <2> QED BY <1>3, <2>1, <2>2, <2>3, StartedTyped
<1>6. ASSUME NEW p \in People, NEW r \in Records, Retag(p, r) PROVE TypeOK'
  <2>1. PICK c \in PersonalChange :
          Becomes(p, [Idle EXCEPT !.target = r, !.change = c, !.pc = "read"])
    BY <1>6 DEF Retag
  <2> DEFINE s == [Idle EXCEPT !.target = r, !.change = c, !.pc = "read"]
  <2>2. c \in Change BY PersonalIsChange
  <2>3. s \in Process /\ Targeted(s) BY <2>2, IdleIsProcess DEF Process, Targeted
  <2>4. Others' BY <1>1, <1>2, <1>6 DEF Others, Retag, store
  <2> QED BY <1>3, <2>1, <2>3, <2>4 DEF Procs
<1>7. ASSUME NEW p \in Procs, Step(p) PROVE TypeOK'
  BY <1>3, <1>7, StepTyped, OthersTyped
<1>8. ASSUME NEW p \in Procs, RewriteFails(p) \/ Crash(p) PROVE TypeOK'
  <2>1. Others' BY <1>1, <1>2, <1>8 DEF Others, RewriteFails, Crash, store
  <2>2. Becomes(p, Idle) \/ Becomes(p, NextRecord(proc[p]))
    BY <1>8 DEF RewriteFails, Crash, Rewritten
  <2>3. proc[p] \in Process BY StateOf
  <2> QED BY <1>3, <2>1, <2>2, <2>3, IdleTyped, NextTyped
<1>9. CASE LockAges \/ StampAges
  BY <1>9 DEF LockAges, StampAges, store, TypeOK, Rewriting, Target
<1> QED BY <1>4, <1>5, <1>6, <1>7, <1>8, <1>9 DEF Next

\* Every variable keeps its type, and whoever judges or rewrites has a record.
THEOREM ClassifierTypes == Spec => []TypeOK
BY InitTyped, TypeStep, PTL DEF Spec

-----------------------------------------------------------------------------
(***************************************************************************)
(* What a process knows of its own run.                                    *)
(***************************************************************************)
InRewrite == {"read", "note", "look", "event"}

Role(p, s) ==
    /\ p \in People => /\ s.pc \in {"idle"} \cup InRewrite
                       /\ s.pc \in InRewrite => s.change \in PersonalChange
    /\ p \in Workers /\ s.pc \in {"check"} \cup InRewrite =>
                       /\ s.change.by = "llm"
                       /\ Owed(s.entries[s.target])
    /\ s.pc = "index" => s.batch = {}
    /\ \A r \in s.batch : Owed(s.entries[r])

Roles == \A p \in Procs : Role(p, proc[p])

LEMMA IdleRole == ASSUME NEW p \in Procs PROVE Role(p, Idle)
BY DEF Role, Idle, InRewrite

LEMMA NextRole ==
    ASSUME NEW p \in Workers, NEW s \in Process, Role(p, s)
    PROVE  Role(p, NextRecord(s))
BY ClassifierAssumption DEF Role, NextRecord, InRewrite, Process

LEMMA StepRole ==
    ASSUME TypeOK, Roles, NEW p \in Procs, Step(p)
    PROVE  \E s \in Process : Becomes(p, s) /\ Role(p, s)
<1> DEFINE s0 == proc[p]
<1>0. s0 \in Process /\ Targeted(s0) /\ Role(p, s0) BY StateOf DEF Roles
<1>a. p \in Workers <=> p \notin People BY ProcsSplit
<1>b. ASSUME NEW pc \in {"stamp", "create", "stale", "remove", "begin", "report",
                         "unlock"}, Goes(p, pc), s0.pc # "idle", s0.pc \notin InRewrite
      PROVE  \E s \in Process : Becomes(p, s) /\ Role(p, s)
  <2> DEFINE s == [s0 EXCEPT !.pc = pc]
  <2>1. s \in Process BY <1>0 DEF Process
  <2>2. Role(p, s) BY <1>0, <1>a, <1>b DEF Role, InRewrite, Process
  <2> QED BY <1>b, <2>1, <2>2 DEF Goes
<1>c. Idle \in Process /\ Role(p, Idle) BY IdleIsProcess, IdleRole
<1>d. p \in Workers => NextRecord(s0) \in Process /\ Role(p, NextRecord(s0))
  BY <1>0, NextRole, NextIsProcess
<1>1. CASE ReadIndex(p)
  <2> DEFINE e == [r \in Records |-> View(r)]
             s == [s0 EXCEPT !.entries = e, !.pc = "stamp"]
  <2>1. e \in [Records -> Class] BY ViewIsClass
  <2> HIDE DEF e
  <2>2. s \in Process BY <1>0, <2>1 DEF Process
  <2>3. s0.pc = "index" /\ s0.batch = {} BY <1>0, <1>1 DEF ReadIndex, Role
  <2>4. Role(p, s) BY <1>0, <1>a, <2>3 DEF Role, InRewrite, Process
  <2>5. Becomes(p, s) BY <1>1 DEF ReadIndex, e
  <2> QED BY <2>2, <2>4, <2>5
<1>2. CASE CheckStamp(p) \/ CreateLock(p) \/ CheckStale(p) \/ RemoveLock(p)
           \/ EndBatch(p) \/ WriteStamp(p) \/ Unlock(p)
  BY <1>2, <1>b, <1>c DEF CheckStamp, CreateLock, CheckStale, RemoveLock, EndBatch,
                          WriteStamp, Unlock, InRewrite
<1>3. CASE Begin(p)
  <2>1. CASE Goes(p, "report") BY <1>3, <2>1, <1>b DEF Begin, InRewrite
  <2>2. CASE Becomes(p, [s0 EXCEPT !.batch = Batch(s0.entries), !.pc = "ask"])
    <3> DEFINE s == [s0 EXCEPT !.batch = Batch(s0.entries), !.pc = "ask"]
    <3>1. Batch(s0.entries) \in SUBSET Records BY DEF Batch
    <3>2. \A r \in Batch(s0.entries) : Owed(s0.entries[r]) BY DEF Batch
    <3>3. s \in Process BY <1>0, <3>1 DEF Process
    <3>4. s0.pc = "begin" BY <1>3 DEF Begin
    <3>5. Role(p, s) BY <1>0, <1>a, <3>2, <3>4 DEF Role, InRewrite, Process
    <3> QED BY <2>2, <3>3, <3>5
  <2> QED BY <1>3, <2>1, <2>2 DEF Begin
<1>4. ASSUME NEW r \in Records, Judged(p, r)
      PROVE  \E s \in Process : Becomes(p, s) /\ Role(p, s)
  <2>1. s0.entries[r] \in Class BY <1>0 DEF Process
  <2>2. PICK v \in Verdict(s0.entries[r]) :
          Becomes(p, [s0 EXCEPT !.failures = 0, !.target = r, !.change = v, !.pc = "check"])
    BY <1>4 DEF Judged
  <2>3. v \in Change /\ v.by = "llm" BY <2>1, <2>2, VerdictIsChange, ClassIsChange
  <2> DEFINE s == [s0 EXCEPT !.failures = 0, !.target = r, !.change = v, !.pc = "check"]
  <2>4. s \in Process BY <1>0, <2>3 DEF Process
  <2>5. s0.pc = "ask" /\ r \in s0.batch BY <1>4 DEF Judged, Asks
  <2>6. s.change.by = "llm" /\ s.target = r /\ s.batch = s0.batch
        /\ s.entries = s0.entries /\ s.pc = "check"
    BY <1>0, <2>3 DEF Process
  <2>7. Role(p, s)
    <3>1. p \in Workers BY <1>0, <1>a, <2>5 DEF Role, InRewrite
    <3> QED BY <1>0, <1>a, <2>5, <2>6, <3>1 DEF Role
  <2> QED BY <2>2, <2>4, <2>7
<1>5. ASSUME NEW r \in Records, CallFails(p, r)
      PROVE  \E s \in Process : Becomes(p, s) /\ Role(p, s)
  <2> DEFINE t == SkipsRecord(s0, r)
             s == AfterFailure(s0, r)
  <2>1. s0.pc = "ask" /\ Becomes(p, s) BY <1>5 DEF CallFails, Asks
  <2>2. t \in Process /\ t.pc = "ask" /\ t.batch \subseteq s0.batch
    BY <1>0, <2>1, SkipIsProcess
  <2>3. t.entries = s0.entries BY <1>0 DEF SkipsRecord, Process
  <2>4. s \in Process BY <1>0, FailureIsProcess
  <2> HIDE DEF t
  <2>5. s.pc \in {"ask", "report"} /\ s.batch = t.batch /\ s.entries = t.entries
    BY <2>2 DEF AfterFailure, Rotates, Process, t
  <2>6. Role(p, s)
    <3>1. p \in Workers BY <1>0, <1>a, <2>1 DEF Role, InRewrite
    <3> QED BY <1>0, <1>a, <2>2, <2>3, <2>5, <3>1 DEF Role, InRewrite
  <2> QED BY <2>1, <2>4, <2>6
<1>6. CASE CheckNote(p)
  <2>1. p \in Workers BY <1>0, <1>a, <1>6 DEF CheckNote, Role, InRewrite
  <2>2. CASE Goes(p, "read")
    <3> DEFINE s == [s0 EXCEPT !.pc = "read"]
    <3>1. s \in Process BY <1>0 DEF Process
    <3>2. Role(p, s) BY <1>0, <1>a, <1>6, <2>1 DEF Role, CheckNote, InRewrite, Process
    <3> QED BY <2>2, <3>1, <3>2 DEF Goes
  <2>3. CASE Becomes(p, NextRecord(s0)) BY <2>1, <2>3, <1>d
  <2> QED BY <1>6, <2>2, <2>3 DEF CheckNote
<1>7. CASE ReadNote(p) \/ ReadEvent(p)
  <2>1. PICK c \in Class, pc \in {"note", "event"} :
          Becomes(p, [s0 EXCEPT !.base = c, !.pc = pc])
    BY <1>0, <1>7 DEF ReadNote, ReadEvent, Targeted, TypeOK, Target
  <2> DEFINE s == [s0 EXCEPT !.base = c, !.pc = pc]
  <2>2. s \in Process BY <1>0 DEF Process
  <2>3. s0.pc \in InRewrite BY <1>7 DEF ReadNote, ReadEvent, InRewrite
  <2>4. Role(p, s) BY <1>0, <1>a, <2>3 DEF Role, InRewrite, Process
  <2> QED BY <2>1, <2>2, <2>4
<1>8. CASE WriteNote(p) \/ WriteEvent(p)
  <2>1. CASE Goes(p, "look") /\ s0.pc = "note"
    <3> DEFINE s == [s0 EXCEPT !.pc = "look"]
    <3>1. s \in Process BY <1>0 DEF Process
    <3>2. Role(p, s) BY <1>0, <1>a, <2>1 DEF Role, InRewrite, Process
    <3> QED BY <2>1, <3>1, <3>2 DEF Goes
  <2>2. CASE Rewritten(p) BY <2>2, <1>a, <1>c, <1>d DEF Rewritten
  <2> QED BY <1>8, <2>1, <2>2 DEF WriteNote, WriteEvent
<1> QED BY <1>1, <1>2, <1>3, <1>4, <1>5, <1>6, <1>7, <1>8 DEF Step

-----------------------------------------------------------------------------
LEMMA RoleMove ==
    ASSUME Roles, proc \in [Procs -> Process], NEW p \in Procs, NEW s, Becomes(p, s), Role(p, s)
    PROVE  Roles'
BY DEF Roles, Becomes, Role

LEMMA RolesStep == TypeOK /\ Roles /\ [Next]_vars => Roles'
<1> SUFFICES ASSUME TypeOK, Roles, [Next]_vars PROVE Roles'
  OBVIOUS
<1>0. proc \in [Procs -> Process] BY DEF TypeOK
<1>1. CASE UNCHANGED proc BY <1>1 DEF Roles, Role
<1>2. ASSUME NEW p \in Workers, HookStop(p) \/ Classify(p) PROVE Roles'
  <2>1. p \in Procs /\ p \notin People BY ClassifierAssumption DEF Procs
  <2>2. PICK auto \in BOOLEAN : Becomes(p, Started(auto)) BY <1>2, StartMoves
  <2>3. Role(p, Started(auto)) BY <2>1, StartedTyped DEF Role, InRewrite
  <2> QED BY <1>0, <2>1, <2>2, <2>3, RoleMove
<1>3. ASSUME NEW p \in People, NEW r \in Records, Retag(p, r) PROVE Roles'
  <2>1. PICK c \in PersonalChange :
          Becomes(p, [Idle EXCEPT !.target = r, !.change = c, !.pc = "read"])
    BY <1>3 DEF Retag
  <2> DEFINE s == [Idle EXCEPT !.target = r, !.change = c, !.pc = "read"]
  <2>2. p \in Procs /\ p \notin Workers BY ClassifierAssumption DEF Procs
  <2>3. Role(p, s) BY <2>2 DEF Role, Idle, InRewrite
  <2> HIDE DEF s
  <2> QED BY <1>0, <2>1, <2>2, <2>3, RoleMove DEF s
<1>4. ASSUME NEW p \in Procs, Step(p) PROVE Roles'
  BY <1>0, <1>4, StepRole, RoleMove
<1>5. ASSUME NEW p \in Procs, RewriteFails(p) \/ Crash(p) PROVE Roles'
  <2>1. Becomes(p, Idle) \/ (p \in Workers /\ Becomes(p, NextRecord(proc[p])))
    BY <1>5, ProcsSplit DEF RewriteFails, Crash, Rewritten
  <2>2. proc[p] \in Process /\ Role(p, proc[p]) BY StateOf DEF Roles
  <2> QED BY <1>0, <2>1, <2>2, IdleRole, NextRole, RoleMove
<1> QED BY <1>1, <1>2, <1>3, <1>4, <1>5 DEF Next, LockAges, StampAges, vars

(***************************************************************************)
(* What a process knows of the files of the record it rewrites.            *)
(***************************************************************************)
Bases == \A p \in Procs :
    /\ p \in Workers /\ proc[p].pc \in {"read", "note"} => Owed(note[proc[p].target])
    /\ proc[p].pc = "note" => proc[p].base = note[proc[p].target]
    /\ proc[p].pc = "event" => proc[p].base = event[proc[p].target]
    /\ proc[p].pc \in {"look", "event"} => proc[p].target \in Paired

Serial == \A p, q \in Procs :
    /\ proc[p].pc \in InRewrite /\ proc[q].pc \in InRewrite
    /\ proc[p].target = proc[q].target
    => p = q

\* Process p has written the note of r and has the event before it.
Between(p, r) == proc[p].pc \in {"look", "event"} /\ proc[p].target = r

Ahead == crashes = 0 => \A r \in Paired :
    /\ (\A p \in Procs : ~Between(p, r)) => note[r] = event[r]
    /\ \A p \in Procs : Between(p, r) => note[r] = Applied(event[r], proc[p].change)

IInv == TypeOK /\ Roles /\ Bases /\ Serial /\ Ahead

LEMMA InitInv == Init => IInv
<1> SUFFICES ASSUME Init PROVE IInv
  OBVIOUS
<1>1. \A p \in Procs : proc[p] = Idle BY DEF Init
<1>2. Idle.pc = "idle" BY DEF Idle
<1>3. Roles BY <1>1, IdleRole DEF Roles
<1>4. Bases /\ Serial /\ (\A p \in Procs : \A r : ~Between(p, r))
  BY <1>1, <1>2 DEF Bases, Serial, Between, InRewrite
<1>5. Ahead BY <1>4 DEF Ahead, Init
<1> QED BY InitTyped, <1>3, <1>4, <1>5 DEF IInv

\* Where a rewrite leads.
LEMMA Leaves ==
    ASSUME NEW s \in Process
    PROVE  Idle.pc \notin InRewrite /\ NextRecord(s).pc \notin InRewrite
BY DEF Idle, NextRecord, InRewrite, Process

\* A process outside of a rewrite stays outside, or leaves it by a failure.
LEMMA Outside ==
    ASSUME IInv, NEW p \in Procs, NEW s, Becomes(p, s), s.pc \notin InRewrite,
           UNCHANGED store,
           \/ UNCHANGED crashes /\ proc[p].pc \notin {"look", "event"}
           \/ crashes' # 0
    PROVE  Bases' /\ Serial' /\ Ahead'
<1>1. proc' = [proc EXCEPT ![p] = s] /\ proc \in [Procs -> Process]
  BY DEF Becomes, IInv, TypeOK
<1>2. \A q \in Procs : proc'[q] = IF q = p THEN s ELSE proc[q] BY <1>1
<1>3. Bases' BY <1>2 DEF IInv, Bases, InRewrite, store
<1>4. Serial' BY <1>2 DEF IInv, Serial
<1>5. Ahead'
  <2>1. CASE crashes' # 0 BY <2>1 DEF Ahead
  <2>2. CASE UNCHANGED crashes /\ proc[p].pc \notin {"look", "event"}
    <3>1. \A q \in Procs : \A r : /\ Between(q, r)' <=> Between(q, r)
                                  /\ Between(q, r) => proc'[q] = proc[q]
      BY <1>2, <2>2 DEF Between, InRewrite
    <3> QED BY <2>2, <3>1 DEF IInv, Ahead, store
  <2> QED BY <2>1, <2>2
<1> QED BY <1>3, <1>4, <1>5

\* A process enters a rewrite of r that nobody else is in.
LEMMA Enters ==
    ASSUME IInv, ~MayOverlap, NEW p \in Procs, NEW r \in Records, NEW s, Becomes(p, s),
           MayRewrite(p, r), s.pc = "read", s.target = r, UNCHANGED <<store, crashes>>,
           proc[p].pc \notin {"look", "event"}, p \in Workers => Owed(note[r])
    PROVE  Bases' /\ Serial' /\ Ahead'
<1>1. proc' = [proc EXCEPT ![p] = s] /\ proc \in [Procs -> Process]
  BY DEF Becomes, IInv, TypeOK
<1>2. \A q \in Procs : proc'[q] = IF q = p THEN s ELSE proc[q] BY <1>1
<1>3. \A q \in Procs \ {p} : ~(proc[q].pc \in InRewrite /\ proc[q].target = r)
  BY DEF MayRewrite, Rewriting, Target, InRewrite
<1>4. Bases' BY <1>2 DEF IInv, Bases, store
<1>5. Serial' BY <1>2, <1>3 DEF IInv, Serial
<1>6. \A q \in Procs : \A o : /\ Between(q, o)' <=> Between(q, o)
                              /\ Between(q, o) => proc'[q] = proc[q]
  BY <1>2 DEF Between
<1>7. Ahead' BY <1>6 DEF IInv, Ahead, store
<1> QED BY <1>4, <1>5, <1>7

-----------------------------------------------------------------------------
\* The steps of a rewrite.
LEMMA Rewrites ==
    ASSUME IInv, NEW p \in Procs,
           ReadNote(p) \/ WriteNote(p) \/ ReadEvent(p) \/ WriteEvent(p)
    PROVE  Bases' /\ Serial' /\ Ahead'
<1> DEFINE s0 == proc[p]
           r  == s0.target
<1>1. s0 \in Process /\ Targeted(s0) /\ Role(p, s0)
  BY StateOf DEF IInv, Roles
<1>2. s0.pc \in InRewrite /\ r \in Records
  BY <1>1 DEF ReadNote, WriteNote, ReadEvent, WriteEvent, InRewrite, Targeted
<1>3. proc \in [Procs -> Process] /\ note \in [Records -> Class]
      /\ event \in [Records -> Class]
  BY DEF IInv, TypeOK
<1>4. \A q \in Procs \ {p} : proc[q].pc \in InRewrite => proc[q].target # r
  BY <1>2 DEF IInv, Serial
<1>5. ASSUME NEW s, Becomes(p, s), s.target = r \/ s.pc \notin InRewrite
      PROVE  /\ \A q \in Procs : proc'[q] = IF q = p THEN s ELSE proc[q]
             /\ Serial'
  <2>1. \A q \in Procs : proc'[q] = IF q = p THEN s ELSE proc[q]
    BY <1>3, <1>5 DEF Becomes
  <2> QED BY <1>2, <1>5, <2>1 DEF IInv, Serial
<1>6. CASE ReadNote(p)
  <2> DEFINE s == [s0 EXCEPT !.base = note[r], !.pc = "note"]
  <2>1. Becomes(p, s) /\ s0.pc = "read" /\ UNCHANGED <<store, crashes>>
    BY <1>6 DEF ReadNote, Target
  <2>2. s.target = r /\ s.pc = "note" /\ s.base = note[r] BY <1>1 DEF Process
  <2> HIDE DEF s
  <2>3. Serial' /\ \A q \in Procs : proc'[q] = IF q = p THEN s ELSE proc[q]
    BY <1>5, <2>1, <2>2
  <2>4. Bases' BY <2>1, <2>2, <2>3 DEF IInv, Bases, store
  <2>5. \A q \in Procs : \A o : /\ Between(q, o)' <=> Between(q, o)
                                /\ Between(q, o) => proc'[q] = proc[q]
    BY <2>1, <2>2, <2>3 DEF Between
  <2> QED BY <2>1, <2>3, <2>4, <2>5 DEF IInv, Ahead, store
<1>7. CASE ReadEvent(p)
  <2> DEFINE s == [s0 EXCEPT !.base = event[r], !.pc = "event"]
  <2>1. Becomes(p, s) /\ s0.pc = "look" /\ UNCHANGED <<store, crashes>>
    BY <1>7 DEF ReadEvent, Target
  <2>2. /\ s.target = r /\ s.pc = "event" /\ s.base = event[r]
        /\ s.change = s0.change
    BY <1>1 DEF Process
  <2> HIDE DEF s
  <2>3. Serial' /\ \A q \in Procs : proc'[q] = IF q = p THEN s ELSE proc[q]
    BY <1>5, <2>1, <2>2
  <2>4. Bases' BY <2>1, <2>2, <2>3 DEF IInv, Bases, store
  <2>5. \A q \in Procs : \A o : /\ Between(q, o)' <=> Between(q, o)
                                /\ Between(q, o) => proc'[q].change = proc[q].change
    BY <2>1, <2>2, <2>3 DEF Between
  <2> QED BY <2>1, <2>3, <2>4, <2>5 DEF IInv, Ahead, store
<1>8. CASE WriteNote(p)
  <2> DEFINE c == Applied(s0.base, s0.change)
  <2>1. /\ s0.pc = "note" /\ note' = [note EXCEPT ![r] = c]
        /\ UNCHANGED <<event, crashes>>
    BY <1>8 DEF WriteNote, Target
  <2>2. PICK s : /\ Becomes(p, s)
                 /\ \/ r \in Paired /\ s.pc = "look" /\ s.target = r
                       /\ s.change = s0.change
                    \/ r \notin Paired /\ s.pc \notin InRewrite
    <3>1. CASE r \in Paired
      <4>1. Becomes(p, [s0 EXCEPT !.pc = "look"]) BY <1>8, <3>1 DEF WriteNote, Target, Goes
      <4> QED BY <1>1, <3>1, <4>1 DEF Process
    <3>2. CASE r \notin Paired
      <4>1. Becomes(p, Idle) \/ Becomes(p, NextRecord(s0))
        BY <1>8, <3>2 DEF WriteNote, Target, Rewritten
      <4> QED BY <1>1, <3>2, <4>1, Leaves
    <3> QED BY <3>1, <3>2
  <2>3. Serial' /\ \A q \in Procs : proc'[q] = IF q = p THEN s ELSE proc[q]
    BY <1>5, <2>2
  <2>4. \A o \in Records : note'[o] = IF o = r THEN c ELSE note[o] BY <1>3, <2>1
  <2>5. s0.base = note[r] BY <2>1 DEF IInv, Bases
  <2> HIDE DEF c
  <2>6. Bases'
    <3>1. \A q \in Procs : proc[q].pc \in InRewrite => proc[q].target \in Records
      BY StateOf DEF IInv, Targeted, InRewrite
    <3>2. \A q \in Procs \ {p} : proc[q].pc \in InRewrite
             => note'[proc[q].target] = note[proc[q].target]
      BY <1>4, <2>4, <3>1
    <3> QED BY <2>1, <2>2, <2>3, <3>2 DEF IInv, Bases, InRewrite
  <2>7. ASSUME crashes' = 0, NEW o \in Paired
        PROVE  /\ (\A q \in Procs : ~Between(q, o)') => note'[o] = event'[o]
               /\ \A q \in Procs : Between(q, o)' =>
                     note'[o] = Applied(event'[o], proc'[q].change)
    <3>0. o \in Records BY ClassifierAssumption
    <3>1. CASE o = r
      <4>1. \A q \in Procs : ~Between(q, r)
        BY <1>4, <2>1 DEF Between, InRewrite
      <4>2. note[r] = event[r] BY <2>1, <2>7, <3>1, <4>1 DEF IInv, Ahead
      <4>3. \A q \in Procs : Between(q, r)' <=> q = p
        BY <2>2, <2>3, <3>1, <4>1 DEF Between
      <4> QED BY <2>1, <2>2, <2>3, <2>4, <2>5, <3>0, <3>1, <4>2, <4>3 DEF c
    <3>2. CASE o # r
      <4>1. \A q \in Procs : /\ Between(q, o)' <=> Between(q, o)
                             /\ Between(q, o) => proc'[q] = proc[q]
        BY <2>1, <2>2, <2>3, <3>2 DEF Between, InRewrite
      <4> QED BY <2>1, <2>4, <2>7, <3>0, <3>2, <4>1 DEF IInv, Ahead
    <3> QED BY <3>1, <3>2
  <2> QED BY <2>3, <2>6, <2>7 DEF Ahead
<1>9. CASE WriteEvent(p)
  <2> DEFINE c == Applied(s0.base, s0.change)
  <2>1. /\ s0.pc = "event" /\ event' = [event EXCEPT ![r] = c]
        /\ UNCHANGED <<note, crashes>>
    BY <1>9 DEF WriteEvent, Target
  <2>2. PICK s : Becomes(p, s) /\ s.pc \notin InRewrite
    <3>1. Becomes(p, Idle) \/ Becomes(p, NextRecord(s0))
      BY <1>9 DEF WriteEvent, Rewritten
    <3> QED BY <1>1, <3>1, Leaves
  <2>3. Serial' /\ \A q \in Procs : proc'[q] = IF q = p THEN s ELSE proc[q]
    BY <1>5, <2>2
  <2>4. \A o \in Records : event'[o] = IF o = r THEN c ELSE event[o] BY <1>3, <2>1
  <2>5. s0.base = event[r] BY <2>1 DEF IInv, Bases
  <2> HIDE DEF c
  <2>6. Bases'
    <3>1. \A q \in Procs : proc[q].pc \in InRewrite => proc[q].target \in Records
      BY StateOf DEF IInv, Targeted, InRewrite
    <3>2. \A q \in Procs \ {p} : proc[q].pc \in InRewrite
             => event'[proc[q].target] = event[proc[q].target]
      BY <1>4, <2>4, <3>1
    <3> QED BY <2>1, <2>2, <2>3, <3>2 DEF IInv, Bases, InRewrite
  <2>7. ASSUME crashes' = 0, NEW o \in Paired
        PROVE  /\ (\A q \in Procs : ~Between(q, o)') => note'[o] = event'[o]
               /\ \A q \in Procs : Between(q, o)' =>
                     note'[o] = Applied(event'[o], proc'[q].change)
    <3>0. o \in Records BY ClassifierAssumption
    <3>1. CASE o = r
      <4>1. Between(p, r) BY <2>1 DEF Between
      <4>2. note[r] = c BY <2>1, <2>5, <2>7, <3>1, <4>1 DEF IInv, Ahead, c
      <4>3. \A q \in Procs : ~Between(q, o)'
        BY <1>4, <2>2, <2>3, <3>1 DEF Between, InRewrite
      <4> QED BY <2>1, <2>4, <3>0, <3>1, <4>2, <4>3
    <3>2. CASE o # r
      <4>1. \A q \in Procs : /\ Between(q, o)' <=> Between(q, o)
                             /\ Between(q, o) => proc'[q] = proc[q]
        BY <2>1, <2>2, <2>3, <3>2 DEF Between, InRewrite
      <4> QED BY <2>1, <2>4, <2>7, <3>0, <3>2, <4>1 DEF IInv, Ahead
    <3> QED BY <3>1, <3>2
  <2> QED BY <2>3, <2>6, <2>7 DEF Ahead
<1> QED BY <1>6, <1>7, <1>8, <1>9

-----------------------------------------------------------------------------
(***************************************************************************)
(* The theorems.                                                           *)
(***************************************************************************)
LEMMA InvStep == ~MayOverlap /\ IInv /\ [Next]_vars => IInv'
<1> SUFFICES ASSUME ~MayOverlap, IInv, [Next]_vars PROVE IInv'
  OBVIOUS
<1>1. TypeOK' /\ Roles' BY TypeStep, RolesStep DEF IInv
<1>2. Bases' /\ Serial' /\ Ahead'
  <2>0. crashes \in Nat BY ClassifierAssumption DEF IInv, TypeOK
  <2>1. CASE UNCHANGED <<store, proc, crashes>>
    BY <2>1 DEF IInv, Bases, Serial, Ahead, Between, store
  <2>2. ASSUME NEW p \in Workers, HookStop(p) \/ Classify(p)
        PROVE  Bases' /\ Serial' /\ Ahead'
    <3>1. proc[p].pc = "idle" /\ UNCHANGED <<store, crashes>> /\ p \in Procs
      BY <2>2, StartMoves
    <3>2. PICK auto \in BOOLEAN : Becomes(p, Started(auto)) BY <2>2, StartMoves
    <3>3. Started(auto).pc = "index" BY StartedTyped
    <3> QED BY <3>1, <3>2, <3>3, Outside DEF InRewrite
  <2>3. ASSUME NEW p \in People, NEW r \in Records, Retag(p, r)
        PROVE  Bases' /\ Serial' /\ Ahead'
    <3>1. PICK c : Becomes(p, [Idle EXCEPT !.target = r, !.change = c, !.pc = "read"])
      BY <2>3 DEF Retag
    <3> DEFINE s == [Idle EXCEPT !.target = r, !.change = c, !.pc = "read"]
    <3>2. s.pc = "read" /\ s.target = r BY DEF Idle
    <3>3. proc[p].pc = "idle" /\ UNCHANGED <<store, crashes>> /\ MayRewrite(p, r)
      BY <2>3 DEF Retag
    <3>4. p \in Procs /\ p \notin Workers BY ClassifierAssumption DEF Procs
    <3> QED BY <3>1, <3>2, <3>3, <3>4, Enters
  <2>4. ASSUME NEW p \in Procs, RewriteFails(p) \/ Crash(p)
        PROVE  Bases' /\ Serial' /\ Ahead'
    <3>1. proc[p] \in Process BY StateOf DEF IInv
    <3>2. PICK s : Becomes(p, s) /\ s.pc \notin InRewrite
      <4>1. Becomes(p, Idle) \/ Becomes(p, NextRecord(proc[p]))
        BY <2>4 DEF RewriteFails, Crash, Rewritten
      <4> QED BY <3>1, <4>1, Leaves
    <3>3. crashes' # 0 /\ UNCHANGED store
      BY <2>0, <2>4 DEF RewriteFails, Crash
    <3> QED BY <3>2, <3>3, Outside
  <2>5. ASSUME NEW p \in Procs, Step(p)
        PROVE  Bases' /\ Serial' /\ Ahead'
    <3>0. proc[p] \in Process /\ Targeted(proc[p]) /\ Role(p, proc[p])
      BY StateOf DEF IInv, Roles
    <3>1. CASE ReadNote(p) \/ WriteNote(p) \/ ReadEvent(p) \/ WriteEvent(p)
      BY <3>1, Rewrites
    <3>2. CASE CheckNote(p)
      <4> DEFINE r == proc[p].target
      <4>1. proc[p].pc = "check" /\ r \in Records /\ UNCHANGED <<store, crashes>>
        BY <3>0, <3>2 DEF CheckNote, Targeted
      <4>2. CASE note[r] = proc[p].entries[r]
        <5>1. MayRewrite(p, r) /\ Becomes(p, [proc[p] EXCEPT !.pc = "read"])
          BY <3>2, <4>2 DEF CheckNote, StillJudged, Target, Goes
        <5>2. p \in Workers => Owed(note[r]) BY <3>0, <4>1, <4>2 DEF Role
        <5>3. [proc[p] EXCEPT !.pc = "read"].pc = "read"
              /\ [proc[p] EXCEPT !.pc = "read"].target = r
          BY <3>0 DEF Process
        <5> QED BY <4>1, <5>1, <5>2, <5>3, Enters
      <4>3. CASE note[r] # proc[p].entries[r]
        <5>1. Becomes(p, NextRecord(proc[p]))
          BY <3>2, <4>3 DEF CheckNote, StillJudged, Target
        <5>2. NextRecord(proc[p]).pc = "ask" BY <3>0 DEF NextRecord, Process
        <5> QED BY <4>1, <5>1, <5>2, Outside DEF InRewrite
      <4> QED BY <4>2, <4>3
    <3>3. CASE \/ ReadIndex(p) \/ CheckStamp(p) \/ CreateLock(p) \/ CheckStale(p)
               \/ RemoveLock(p) \/ Begin(p) \/ EndBatch(p) \/ WriteStamp(p) \/ Unlock(p)
      <4>1. proc[p].pc \notin {"look", "event"} /\ UNCHANGED <<store, crashes>>
        BY <3>3 DEF ReadIndex, CheckStamp, CreateLock, CheckStale, RemoveLock, Begin,
                    EndBatch, WriteStamp, Unlock
      <4>2. ASSUME NEW pc \in {"stamp", "create", "stale", "remove", "begin", "report",
                               "unlock"}, Goes(p, pc)
            PROVE  Bases' /\ Serial' /\ Ahead'
        <5>1. [proc[p] EXCEPT !.pc = pc].pc = pc BY <3>0 DEF Process
        <5> QED BY <4>1, <4>2, <5>1, Outside DEF Goes, InRewrite
      <4>3. ASSUME Becomes(p, Idle) PROVE Bases' /\ Serial' /\ Ahead'
        BY <3>0, <4>1, <4>3, Leaves, Outside
      <4>4. CASE ReadIndex(p)
        <5> DEFINE s == [proc[p] EXCEPT !.entries = [r \in Records |-> View(r)], !.pc = "stamp"]
        <5>1. s.pc = "stamp" BY <3>0 DEF Process
        <5>2. Becomes(p, s) BY <4>4 DEF ReadIndex
        <5> HIDE DEF s
        <5> QED BY <4>1, <5>1, <5>2, Outside DEF InRewrite
      <4>5. CASE Begin(p)
        <5>1. CASE Goes(p, "report") BY <4>2, <5>1
        <5>2. CASE Becomes(p, [proc[p] EXCEPT !.batch = Batch(proc[p].entries), !.pc = "ask"])
          <6>1. [proc[p] EXCEPT !.batch = Batch(proc[p].entries), !.pc = "ask"].pc = "ask"
            BY <3>0 DEF Process
          <6> QED BY <4>1, <5>2, <6>1, Outside DEF InRewrite
        <5> QED BY <4>5, <5>1, <5>2 DEF Begin
      <4> QED BY <3>3, <4>2, <4>3, <4>4, <4>5
              DEF CheckStamp, CreateLock, CheckStale, RemoveLock, EndBatch, WriteStamp, Unlock
    <3>4. ASSUME NEW r \in Records, Judged(p, r) \/ CallFails(p, r)
          PROVE  Bases' /\ Serial' /\ Ahead'
      <4>1. proc[p].pc = "ask" /\ UNCHANGED <<store, crashes>>
        BY <3>4 DEF Judged, CallFails, Asks
      <4>2. PICK s : Becomes(p, s) /\ s.pc \notin InRewrite
        <5>1. CASE Judged(p, r)
          <6>1. PICK v : Becomes(p, [proc[p] EXCEPT !.failures = 0, !.target = r,
                                                    !.change = v, !.pc = "check"])
            BY <5>1 DEF Judged
          <6>2. [proc[p] EXCEPT !.failures = 0, !.target = r, !.change = v, !.pc = "check"].pc
                = "check"
            BY <3>0 DEF Process
          <6> QED BY <6>1, <6>2 DEF InRewrite
        <5>2. CASE CallFails(p, r)
          <6>1. SkipsRecord(proc[p], r) \in Process /\ SkipsRecord(proc[p], r).pc = "ask"
            BY <3>0, <4>1, SkipIsProcess
          <6>2. AfterFailure(proc[p], r).pc \in {"ask", "report"}
            BY <6>1 DEF AfterFailure, Rotates, Process
          <6> QED BY <5>2, <6>2 DEF CallFails, InRewrite
        <5> QED BY <3>4, <5>1, <5>2
      <4> QED BY <4>1, <4>2, Outside
    <3> QED BY <2>5, <3>1, <3>2, <3>3, <3>4 DEF Step
  <2> QED BY <2>1, <2>2, <2>3, <2>4, <2>5 DEF Next, LockAges, StampAges, vars, store
<1> QED BY <1>1, <1>2 DEF IInv

LEMMA Invariant == ASSUME ~MayOverlap PROVE Spec => []IInv
BY InitInv, InvStep, PTL DEF Spec

\* Only a rewrite writes a note, and what a worker writes over is owed a review.
LEMMA NoteStep ==
    ASSUME IInv, [Next]_vars, NEW r \in Records
    PROVE  ~Overridden(r) /\ ~JudgedAgain(r)
<1>1. CASE note' = note BY <1>1 DEF Overridden, JudgedAgain
<1>2. CASE \E p \in Procs : WriteNote(p)
  <2>1. PICK p \in Procs : WriteNote(p) BY <1>2
  <2> DEFINE s == proc[p]
  <2>2. /\ s.pc = "note"
        /\ note' = [note EXCEPT ![s.target] = Applied(s.base, s.change)]
    BY <2>1 DEF WriteNote, Target
  <2>3. note \in [Records -> Class] BY DEF IInv, TypeOK
  <2>4. s.base = note[s.target] /\ Role(p, s) BY <2>2 DEF IInv, Bases, Roles
  <2>5. CASE p \in Workers
    <3>1. Owed(note[s.target]) BY <2>2, <2>5 DEF IInv, Bases
    <3>2. r # s.target => note'[r] = note[r] BY <2>2, <2>3
    <3> QED BY <3>1, <3>2 DEF Owed, Overridden, JudgedAgain
  <2>6. CASE p \in People
    <3>1. s.change \in PersonalChange BY <2>2, <2>4, <2>6 DEF Role, InRewrite
    <3>2. Applied(s.base, s.change) = s.base \/ Applied(s.base, s.change).by \in {"manual", "none"}
      BY <3>1, PersonalIsChange DEF Applied
    <3>3. note'[r] = note[r] \/ note'[r].by \in {"manual", "none"}
      BY <2>2, <2>3, <2>4, <3>2
    <3> QED BY <3>3 DEF Overridden, JudgedAgain
  <2> QED BY <2>5, <2>6 DEF Procs
<1> QED
  BY <1>1, <1>2 DEF Next, Step, vars, store, HookStop, Classify, Retag, RewriteFails, Crash,
     LockAges, StampAges, ReadIndex, CheckStamp, CreateLock, CheckStale, RemoveLock, Begin,
     EndBatch, Judged, CallFails, CheckNote, ReadNote, ReadEvent, WriteEvent, WriteStamp, Unlock

\* No verdict overrides a kind that a person gave, where a retag does not
\* overlap the worker's own rewrite of that record.
THEOREM ManualKindsAreKept == ASSUME ~MayOverlap PROVE Spec => ManualIsKept
<1>1. IInv /\ [Next]_vars => [\A r \in Records : ~Overridden(r)]_vars
  BY NoteStep
<1> QED BY <1>1, Invariant, PTL DEF Spec, ManualIsKept

\* No verdict replaces another one of the current version, although workers
\* queue the same records and may run at the same time.
THEOREM VerdictsAreFinal == ASSUME ~MayOverlap PROVE Spec => JudgedOnce
<1>1. IInv /\ [Next]_vars => [\A r \in Records : ~JudgedAgain(r)]_vars
  BY NoteStep
<1> QED BY <1>1, Invariant, PTL DEF Spec, JudgedOnce

\* Without crashes and failed writes, note and event of a record at rest agree.
THEOREM CopiesAgree == ASSUME ~MayOverlap PROVE Spec => []PairsAgree
<1>1. IInv => PairsAgree
  <2> SUFFICES ASSUME IInv, crashes = 0, NEW r \in Paired,
                      \A p \in Procs : ~Rewriting(p, r)
               PROVE  note[r] = event[r]
    BY DEF PairsAgree
  <2>1. \A p \in Procs : ~Between(p, r) BY DEF Rewriting, Target, Between
  <2> QED BY <2>1 DEF IInv, Ahead
<1> QED BY <1>1, Invariant, PTL

=============================================================================
