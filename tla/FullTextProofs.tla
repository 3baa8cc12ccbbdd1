--------------------------- MODULE FullTextProofs ---------------------------
(***************************************************************************)
(* Type correctness of FullText, and that an undisturbed manifest names    *)
(* the corpus of the documents, for every number of processes.             *)
(***************************************************************************)
EXTENDS FullText, TLAPS

\* Whoever rebuilds holds the lock.
RebuildIsLocked ==
    \A p \in Procs : proc[p].pc \in {"commit", "manifest"} => lock = p

DocumentsHaveDirectory == dir.docs # None => dir.made

PublishingIsExact ==
    Undisturbed => \A p \in Procs : Publishing(p) => dir.docs = proc[p].want

\* The constants differ as the assumption says.
LEMMA Distinct ==
    /\ \A c \in Corpus : c # None /\ c # Empty /\ c # Old
    /\ \A p \in Procs : p # None
    /\ None # Empty /\ None # Old
BY FullTextAssumption

-----------------------------------------------------------------------------
LEMMA FirstIsCorpus == First \in Corpus
BY FullTextAssumption DEF First, Corpus, View

LEMMA IdleIsProcess == Idle \in Process
BY FirstIsCorpus DEF Idle, Process, Control, Role

\* A process that goes on, answers or starts is a process.
LEMMA GoneIsProcess ==
    ASSUME NEW s \in Process, NEW pc \in Control, NEW got \in Corpus \cup {None, Empty}
    PROVE  /\ [s EXCEPT !.pc = pc] \in Process
           /\ [s EXCEPT !.pc = pc, !.got = got] \in Process
BY DEF Process

LEMMA StartedIsProcess ==
    ASSUME NEW pc \in Control, NEW role \in Role, NEW want \in Corpus
    PROVE  [Idle EXCEPT !.pc = pc, !.role = role, !.want = want] \in Process
BY IdleIsProcess DEF Process

\* The types hold initially.
LEMMA InitType == Init => TypeOK
<1> SUFFICES ASSUME Init PROVE TypeOK
    OBVIOUS
<1>1. dir \in Directory
  <2>1. CASE dir = Absent
    BY <2>1 DEF Absent, Directory
  <2>2. CASE dir = Built(First)
    BY <2>2, FirstIsCorpus DEF Built, Directory
  <2>3. CASE dir = [Built(First) EXCEPT !.manifest = Old]
    BY <2>3, FirstIsCorpus DEF Built, Directory
  <2>. QED BY <2>1, <2>2, <2>3 DEF Init
<1>2. current \in 0..MaxVersion /\ faults \in 0..MaxFaults
    BY FullTextAssumption DEF Init
<1>. QED BY <1>1, <1>2, IdleIsProcess DEF Init, TypeOK

\* What Degrades leaves is well typed.
LEMMA DegradesType ==
    ASSUME TypeOK, NEW p \in Procs, Degrades(p)
    PROVE  proc' \in [Procs -> Process] /\ lock' \in Procs \cup {None}
<1>1. [proc[p] EXCEPT !.pc = "done", !.got = None] \in Process
    BY GoneIsProcess DEF TypeOK, Control
<1>. QED BY <1>1, IdleIsProcess DEF TypeOK, Degrades, Becomes, Unlock

\* Every step keeps the types.
LEMMA NextType == TypeOK /\ [Next]_vars => TypeOK'
<1> SUFFICES ASSUME TypeOK, [Next]_vars PROVE TypeOK'
    OBVIOUS
<1> USE DEF TypeOK, Becomes, Goto, Unlock
<1>0. ASSUME NEW p \in Procs, NEW pc \in Control, NEW got \in Corpus \cup {None, Empty}
      PROVE  /\ [proc[p] EXCEPT !.pc = pc] \in Process
             /\ [proc[p] EXCEPT !.pc = pc, !.got = got] \in Process
    BY GoneIsProcess
<1>1. ASSUME NEW p \in Procs, NEW view \in View, SearchStart(p, view) PROVE TypeOK'
  <2>1. [version |-> current, view |-> view] \in Corpus
    BY DEF Corpus
  <2>. QED BY <1>1, <2>1, StartedIsProcess DEF SearchStart, Starts, Control, Role
<1>2. ASSUME NEW p \in Procs, RefreshStart(p) PROVE TypeOK'
  <2>1. [version |-> current, view |-> "all"] \in Corpus
    BY DEF Corpus, View
  <2>. QED BY <1>2, <2>1, StartedIsProcess DEF RefreshStart, Starts, Control, Role
<1>3. ASSUME NEW p \in Procs, HookStart(p) PROVE TypeOK'
  <2>1. [version |-> current, view |-> "all"] \in Corpus
    BY DEF Corpus, View
  <2>. QED BY <1>3, <2>1, StartedIsProcess DEF HookStart, Starts, Control, Role
<1>4. ASSUME NEW p \in Procs, Open(p) PROVE TypeOK'
  <2>1. "clear" \in Control /\ "create" \in Control
    BY DEF Control
  <2>2. dir' \in Directory
    BY <1>4 DEF Open, Directory
  <2>. QED BY <1>0, <1>4, <2>1, <2>2 DEF Open
<1>5. ASSUME NEW p \in Procs, Clear(p) PROVE TypeOK'
  <2>1. CASE dir.made
    <3>1. "create" \in Control /\ Absent \in Directory
      BY DEF Control, Absent, Directory
    <3>. QED BY <1>0, <1>5, <2>1, <3>1 DEF Clear
  <2>2. CASE ~dir.made
    BY <1>5, <2>2, DegradesType DEF Clear
  <2>. QED BY <2>1, <2>2
<1>6. ASSUME NEW p \in Procs, Create(p) PROVE TypeOK'
  <2>1. dir' \in Directory
    BY <1>6 DEF Create, Directory
  <2>2. "check" \in Control
    BY DEF Control
  <2>. QED BY <1>0, <1>6, <2>1, <2>2 DEF Create
<1>7. ASSUME NEW p \in Procs, Check(p) PROVE TypeOK'
  <2>1. "query" \in Control /\ "commit" \in Control
    BY DEF Control
  <2>2. CASE IsFresh(dir, proc[p].want) \/ lock \in {None, p}
    BY <1>0, <1>7, <2>1, <2>2, IdleIsProcess DEF Check
  <2>3. CASE ~(IsFresh(dir, proc[p].want) \/ lock \in {None, p})
    BY <1>7, <2>3, DegradesType DEF Check
  <2>. QED BY <2>2, <2>3
<1>8. ASSUME NEW p \in Procs, Commit(p) PROVE TypeOK'
  <2>1. CASE dir.made
    <3>1. "manifest" \in Control
      BY DEF Control
    <3>2. dir' \in Directory
      BY <1>8, <2>1 DEF Commit, Directory, Process
    <3>. QED BY <1>0, <1>8, <2>1, <3>1, <3>2 DEF Commit
  <2>2. CASE ~dir.made
    BY <1>8, <2>2, DegradesType DEF Commit
  <2>. QED BY <2>1, <2>2
<1>9. ASSUME NEW p \in Procs, CommitFails(p) PROVE TypeOK'
  <2>1. faults' \in 0..MaxFaults
    BY <1>9, FullTextAssumption DEF CommitFails
  <2>. QED BY <1>9, <2>1, DegradesType DEF CommitFails
<1>10. ASSUME NEW p \in Procs, WriteManifest(p) PROVE TypeOK'
  <2>1. CASE dir.made
    <3>1. "query" \in Control
      BY DEF Control
    <3>2. dir' \in Directory
      BY <1>10, <2>1 DEF WriteManifest, Directory, Process
    <3>. QED BY <1>0, <1>10, <2>1, <3>1, <3>2, IdleIsProcess DEF WriteManifest
  <2>2. CASE ~dir.made
    BY <1>10, <2>2, DegradesType DEF WriteManifest
  <2>. QED BY <2>1, <2>2
<1>11. ASSUME NEW p \in Procs, Query(p) PROVE TypeOK'
  <2>1. CASE dir.docs = None
    BY <1>11, <2>1, DegradesType DEF Query
  <2>2. CASE dir.docs # None
    <3>1. "done" \in Control /\ dir.docs \in Corpus \cup {None, Empty}
      BY DEF Control, Directory
    <3>. QED BY <1>0, <1>11, <2>2, <3>1 DEF Query
  <2>. QED BY <2>1, <2>2
<1>12. ASSUME NEW p \in Procs, Finish(p) PROVE TypeOK'
    BY <1>12, IdleIsProcess DEF Finish
<1>13. CASE RecordsChange
    BY <1>13, FullTextAssumption DEF RecordsChange
<1>14. ASSUME NEW p \in Procs, Crash(p) PROVE TypeOK'
  <2>1. faults' \in 0..MaxFaults
    BY <1>14, FullTextAssumption DEF Crash
  <2>. QED BY <1>14, <2>1, IdleIsProcess DEF Crash
<1>15. CASE UNCHANGED vars
    BY <1>15 DEF vars
<1>16. ASSUME NEW p \in Procs, Step(p) PROVE TypeOK'
    BY <1>4, <1>5, <1>6, <1>7, <1>8, <1>10, <1>11, <1>12, <1>16 DEF Step
<1>. QED BY <1>1, <1>2, <1>3, <1>9, <1>13, <1>14, <1>15, <1>16 DEF Next

\* Every state reached is well typed.
THEOREM TypeCorrect == Spec => []TypeOK
<1>1. Init => TypeOK BY InitType
<1>2. TypeOK /\ [Next]_vars => TypeOK' BY NextType
<1> QED BY <1>1, <1>2, PTL DEF Spec

-----------------------------------------------------------------------------
\* The part of the invariant that says more than the types.
Exact == /\ RebuildIsLocked /\ DocumentsHaveDirectory
         /\ PublishingIsExact /\ SettledIsExact

LEMMA InitExact == Init => Exact
<1> SUFFICES ASSUME Init PROVE Exact
    OBVIOUS
<1>1. \A p \in Procs : proc[p].pc = "idle"
    BY DEF Init, Idle
<1>2. dir.docs # None => dir.made
    BY DEF Init, Absent, Built
<1>3. Usable(dir) => dir.docs = dir.manifest
    BY DEF Init, Absent, Built, Usable
<1>. QED BY <1>1, <1>2, <1>3 DEF Exact, RebuildIsLocked, DocumentsHaveDirectory,
        PublishingIsExact, SettledIsExact, Publishing

\* A step that leaves the directory alone, takes no lock from a rebuild and
\* lets none begin or end keeps it exact.
LEMMA AsideKeepsExact ==
    ASSUME TypeOK, Exact, NEW p \in Procs,
           UNCHANGED <<dir, cleared>>, Undisturbed' => Undisturbed,
           \A q \in Procs \ {p} : proc'[q] = proc[q],
           proc'[p].pc \notin {"commit", "manifest"},
           lock' = lock \/ lock \in {None, p},
           proc[p].pc = "manifest" => ~Undisturbed'
    PROVE  Exact'
<1>1. RebuildIsLocked'
  <2>1. ASSUME NEW q \in Procs, proc'[q].pc \in {"commit", "manifest"} PROVE lock' = q
    <3>1. q # p /\ lock = q
      BY <2>1 DEF Exact, RebuildIsLocked
    <3>. QED BY <3>1, Distinct
  <2>. QED BY <2>1 DEF RebuildIsLocked
<1>2. ASSUME Undisturbed' PROVE \A q \in Procs : Publishing(q)' <=> Publishing(q)
    BY <1>2 DEF Publishing
<1>3. PublishingIsExact'
    BY <1>2 DEF Exact, PublishingIsExact, Publishing
<1>4. SettledIsExact'
    BY <1>2 DEF Exact, SettledIsExact, Usable
<1>. QED BY <1>1, <1>3, <1>4 DEF Exact, DocumentsHaveDirectory

\* Giving up is such a step, unless its process was about to publish.
LEMMA DegradesKeepsExact ==
    ASSUME TypeOK, Exact, NEW p \in Procs, Degrades(p), UNCHANGED <<dir, cleared>>,
           Undisturbed' => Undisturbed, proc[p].pc = "manifest" => ~Undisturbed'
    PROVE  Exact'
<1>1. \A q \in Procs \ {p} : proc'[q] = proc[q]
    BY DEF Degrades, Becomes, TypeOK
<1>2. proc'[p].pc \in {"done", "idle"}
    BY DEF Degrades, Becomes, TypeOK, Process, Idle
<1>3. lock' = lock \/ lock \in {None, p}
    BY DEF Degrades, Unlock
<1>. QED BY <1>1, <1>2, <1>3, AsideKeepsExact

\* Every step keeps it exact.
LEMMA NextExact == TypeOK /\ Exact /\ [Next]_vars => Exact'
<1> SUFFICES ASSUME TypeOK, Exact, [Next]_vars PROVE Exact'
    OBVIOUS
<1>0. ASSUME NEW p \in Procs, NEW s, Becomes(p, s)
      PROVE  proc'[p] = s /\ \A q \in Procs \ {p} : proc'[q] = proc[q]
    BY <1>0 DEF Becomes, TypeOK
<1>00. ASSUME NEW p \in Procs, NEW pc, Goto(p, pc)
       PROVE  /\ proc'[p].pc = pc /\ proc'[p].want = proc[p].want
              /\ \A q \in Procs \ {p} : proc'[q] = proc[q]
    BY <1>00 DEF Goto, Becomes, TypeOK, Process
<1>1. ASSUME NEW p \in Procs, NEW view \in View, SearchStart(p, view) PROVE Exact'
  <2>1. proc'[p].pc = "open"
    BY <1>1 DEF SearchStart, Starts, Becomes, Idle, TypeOK
  <2>2. proc[p].pc = "idle" /\ \A q \in Procs \ {p} : proc'[q] = proc[q]
    BY <1>1 DEF SearchStart, Starts, Becomes, TypeOK
  <2>3. UNCHANGED <<dir, cleared, faults>> /\ (lock' = lock \/ lock \in {None, p})
    BY <1>1 DEF SearchStart
  <2>. QED BY <2>1, <2>2, <2>3, AsideKeepsExact DEF Undisturbed
<1>2. ASSUME NEW p \in Procs, RefreshStart(p) PROVE Exact'
  <2>1. proc'[p].pc = "open"
    BY <1>2 DEF RefreshStart, Starts, Becomes, Idle, TypeOK
  <2>2. proc[p].pc = "idle" /\ \A q \in Procs \ {p} : proc'[q] = proc[q]
    BY <1>2 DEF RefreshStart, Starts, Becomes, TypeOK
  <2>3. UNCHANGED <<dir, cleared, faults>> /\ (lock' = lock \/ lock \in {None, p})
    BY <1>2 DEF RefreshStart
  <2>. QED BY <2>1, <2>2, <2>3, AsideKeepsExact DEF Undisturbed
<1>3. ASSUME NEW p \in Procs, HookStart(p) PROVE Exact'
  <2>1. proc'[p].pc = "query"
    BY <1>3 DEF HookStart, Starts, Becomes, Idle, TypeOK
  <2>2. proc[p].pc = "idle" /\ \A q \in Procs \ {p} : proc'[q] = proc[q]
    BY <1>3 DEF HookStart, Starts, Becomes, TypeOK
  <2>3. UNCHANGED <<dir, cleared, faults>> /\ (lock' = lock \/ lock \in {None, p})
    BY <1>3 DEF HookStart
  <2>. QED BY <2>1, <2>2, <2>3, AsideKeepsExact DEF Undisturbed
<1>4. ASSUME NEW p \in Procs, Open(p) PROVE Exact'
  <2>1. /\ proc'[p].pc \in {"clear", "create"} /\ proc[p].pc = "open"
        /\ \A q \in Procs \ {p} : proc'[q] = proc[q]
    BY <1>00, <1>4 DEF Open
  <2>2. dir'.docs = dir.docs /\ dir'.manifest = dir.manifest /\ dir'.made
    BY <1>4 DEF Open, TypeOK, Directory
  <2>3. \A q \in Procs : Publishing(q)' <=> Publishing(q)
    BY <2>1 DEF Publishing
  <2>. QED BY <1>4, <2>1, <2>2, <2>3 DEF Open, Exact, RebuildIsLocked, DocumentsHaveDirectory,
        PublishingIsExact, SettledIsExact, Publishing, Undisturbed, Usable
<1>5. ASSUME NEW p \in Procs, Clear(p) PROVE Exact'
  <2>1. CASE dir.made
    <3>1. /\ proc'[p].pc = "create" /\ \A q \in Procs \ {p} : proc'[q] = proc[q]
          /\ ~Undisturbed' /\ dir'.docs = None /\ lock' = lock
      BY <1>00, <1>5, <2>1 DEF Clear, Undisturbed, Absent
    <3>. QED BY <3>1 DEF Exact, RebuildIsLocked, DocumentsHaveDirectory, PublishingIsExact,
          SettledIsExact
  <2>2. CASE ~dir.made
    BY <1>5, <2>2, DegradesKeepsExact DEF Clear, Undisturbed
  <2>. QED BY <2>1, <2>2
<1>6. ASSUME NEW p \in Procs, Create(p) PROVE Exact'
  <2>1. CASE dir.docs # None
    <3>1. proc'[p].pc = "check"
      BY <1>00, <1>6 DEF Create
    <3>. QED BY <1>00, <1>6, <2>1, <3>1, AsideKeepsExact DEF Create, Undisturbed
  <2>2. CASE dir.docs = None
    <3>1. /\ proc'[p].pc = "check" /\ \A q \in Procs \ {p} : proc'[q] = proc[q]
          /\ proc[p].pc = "create" /\ lock' = lock
          /\ Undisturbed' <=> Undisturbed
      BY <1>00, <1>6 DEF Create, Undisturbed
    <3>2. dir'.made /\ dir'.manifest = dir.manifest
      BY <1>6, <2>2 DEF Create, TypeOK, Directory
    <3>3. Undisturbed => \A q \in Procs : ~Publishing(q)
      BY <2>2, Distinct DEF Exact, PublishingIsExact, TypeOK, Process
    <3>4. Undisturbed => ~Usable(dir)
      BY <2>2, <3>3 DEF Exact, SettledIsExact, Usable
    <3>5. RebuildIsLocked'
      BY <3>1 DEF Exact, RebuildIsLocked
    <3>6. PublishingIsExact'
      BY <3>1, <3>3 DEF PublishingIsExact, Publishing
    <3>7. SettledIsExact'
      BY <3>1, <3>2, <3>4 DEF SettledIsExact, Usable
    <3>. QED BY <3>2, <3>5, <3>6, <3>7 DEF Exact, DocumentsHaveDirectory
  <2>. QED BY <2>1, <2>2
<1>7. ASSUME NEW p \in Procs, Check(p) PROVE Exact'
  <2>1. CASE IsFresh(dir, proc[p].want)
    <3>1. proc'[p].pc \in {"query", "idle"} /\ \A q \in Procs \ {p} : proc'[q] = proc[q]
      <4>1. CASE proc[p].role = "refresh"
        BY <1>0, <1>7, <2>1, <4>1 DEF Check, Idle
      <4>2. CASE proc[p].role # "refresh"
        BY <1>00, <1>7, <2>1, <4>2 DEF Check
      <4>. QED BY <4>1, <4>2
    <3>. QED BY <1>7, <2>1, <3>1, AsideKeepsExact DEF Check, Unlock, Undisturbed
  <2>2. CASE ~IsFresh(dir, proc[p].want) /\ lock \in {None, p}
    <3>1. /\ proc'[p].pc = "commit" /\ proc[p].pc = "check" /\ lock' = p
          /\ \A q \in Procs \ {p} : proc'[q] = proc[q]
      BY <1>00, <1>7, <2>2 DEF Check
    <3>2. \A q \in Procs \ {p} : proc[q].pc \notin {"commit", "manifest"}
      BY <2>2, Distinct DEF Exact, RebuildIsLocked
    <3>3. \A q \in Procs : Publishing(q)' <=> Publishing(q)
      BY <3>1 DEF Publishing
    <3>. QED BY <1>7, <3>1, <3>2, <3>3 DEF Check, Exact, RebuildIsLocked, DocumentsHaveDirectory,
          PublishingIsExact, SettledIsExact, Undisturbed, Usable, Publishing
  <2>3. CASE ~IsFresh(dir, proc[p].want) /\ lock \notin {None, p}
    BY <1>7, <2>3, DegradesKeepsExact DEF Check, Undisturbed
  <2>. QED BY <2>1, <2>2, <2>3
<1>8. ASSUME NEW p \in Procs, Commit(p) PROVE Exact'
  <2>1. lock = p /\ \A q \in Procs \ {p} : proc[q].pc \notin {"commit", "manifest"}
    BY <1>8 DEF Commit, Exact, RebuildIsLocked
  <2>2. CASE dir.made
    <3>1. /\ proc'[p].pc = "manifest" /\ proc'[p].want = proc[p].want /\ lock' = p
          /\ \A q \in Procs \ {p} : proc'[q] = proc[q]
      BY <1>00, <1>8, <2>1, <2>2 DEF Commit
    <3>2. dir'.docs = proc[p].want /\ dir'.made
      BY <1>8, <2>2 DEF Commit, TypeOK, Directory
    <3>. QED BY <2>1, <3>1, <3>2 DEF Exact, RebuildIsLocked, DocumentsHaveDirectory,
          PublishingIsExact, SettledIsExact, Publishing
  <2>3. CASE ~dir.made
    BY <1>8, <2>3, DegradesKeepsExact DEF Commit, Undisturbed
  <2>. QED BY <2>2, <2>3
<1>9. ASSUME NEW p \in Procs, CommitFails(p) PROVE Exact'
  <2>1. ~Undisturbed'
    BY <1>9 DEF CommitFails, Undisturbed, TypeOK
  <2>. QED BY <1>9, <2>1, DegradesKeepsExact DEF CommitFails
<1>10. ASSUME NEW p \in Procs, WriteManifest(p) PROVE Exact'
  <2>1. lock = p /\ \A q \in Procs \ {p} : proc[q].pc \notin {"commit", "manifest"}
    BY <1>10 DEF WriteManifest, Exact, RebuildIsLocked
  <2>2. CASE dir.made
    <3>1. proc'[p].pc \in {"query", "idle"} /\ \A q \in Procs \ {p} : proc'[q] = proc[q]
      <4>1. CASE proc[p].role = "refresh"
        BY <1>0, <1>10, <2>2, <4>1 DEF WriteManifest, Idle
      <4>2. CASE proc[p].role # "refresh"
        BY <1>00, <1>10, <2>2, <4>2 DEF WriteManifest
      <4>. QED BY <4>1, <4>2
    <3>2. dir'.manifest = proc[p].want /\ dir'.docs = dir.docs /\ dir'.made
      BY <1>10, <2>2 DEF WriteManifest, TypeOK, Directory
    <3>3. Undisturbed => dir.docs = proc[p].want
      BY <1>10 DEF WriteManifest, Exact, PublishingIsExact, Publishing
    <3>4. \A q \in Procs : ~Publishing(q)' /\ proc'[q].pc # "commit"
      BY <2>1, <3>1 DEF Publishing
    <3>5. Undisturbed' => Undisturbed
      BY <1>10 DEF WriteManifest, Undisturbed
    <3>. QED BY <3>2, <3>3, <3>4, <3>5 DEF Exact, RebuildIsLocked, DocumentsHaveDirectory,
          PublishingIsExact, SettledIsExact, Publishing
  <2>3. CASE ~dir.made
    <3>1. dir.docs = None
      BY <2>3 DEF Exact, DocumentsHaveDirectory
    <3>2. proc[p].want # None
      BY Distinct DEF TypeOK, Process
    <3>3. ~Undisturbed
      BY <1>10, <3>1, <3>2 DEF WriteManifest, Exact, PublishingIsExact, Publishing
    <3>4. Degrades(p) /\ UNCHANGED <<dir, cleared, faults>>
      BY <1>10, <2>3 DEF WriteManifest
    <3>5. ~Undisturbed'
      BY <3>3, <3>4 DEF Undisturbed
    <3>. QED BY <3>4, <3>5, DegradesKeepsExact
  <2>. QED BY <2>2, <2>3
<1>11. ASSUME NEW p \in Procs, Query(p) PROVE Exact'
  <2>1. CASE dir.docs = None
    BY <1>11, <2>1, DegradesKeepsExact DEF Query, Undisturbed
  <2>2. CASE dir.docs # None
    <3>1. Becomes(p, [proc[p] EXCEPT !.pc = "done", !.got = dir.docs])
      BY <1>11, <2>2 DEF Query
    <3>2. [proc[p] EXCEPT !.pc = "done", !.got = dir.docs].pc = "done"
      BY DEF TypeOK, Process
    <3>3. proc'[p].pc = "done" /\ \A q \in Procs \ {p} : proc'[q] = proc[q]
      BY <1>0, <3>1, <3>2
    <3>4. UNCHANGED <<dir, cleared, faults, lock>> /\ proc[p].pc = "query"
      BY <1>11, <2>2 DEF Query
    <3>. QED BY <3>3, <3>4, AsideKeepsExact DEF Undisturbed
  <2>. QED BY <2>1, <2>2
<1>12. ASSUME NEW p \in Procs, Finish(p) PROVE Exact'
  <2>1. proc'[p].pc = "idle" /\ \A q \in Procs \ {p} : proc'[q] = proc[q]
    BY <1>0, <1>12 DEF Finish, Idle
  <2>. QED BY <1>12, <2>1, AsideKeepsExact DEF Finish, Undisturbed
<1>13. CASE RecordsChange
    BY <1>13 DEF RecordsChange, Exact, RebuildIsLocked, DocumentsHaveDirectory,
       PublishingIsExact, SettledIsExact, Publishing, Undisturbed, Usable
<1>14. ASSUME NEW p \in Procs, Crash(p) PROVE Exact'
  <2>1. proc'[p].pc = "idle" /\ \A q \in Procs \ {p} : proc'[q] = proc[q]
    BY <1>0, <1>14 DEF Crash, Idle
  <2>2. ~Undisturbed'
    BY <1>14 DEF Crash, Undisturbed, TypeOK
  <2>. QED BY <1>14, <2>1, <2>2, AsideKeepsExact DEF Crash, Unlock
<1>15. CASE UNCHANGED vars
    BY <1>15 DEF vars, Exact, RebuildIsLocked, DocumentsHaveDirectory, PublishingIsExact,
       SettledIsExact, Publishing, Undisturbed, Usable
<1>16. ASSUME NEW p \in Procs, Step(p) PROVE Exact'
    BY <1>4, <1>5, <1>6, <1>7, <1>8, <1>10, <1>11, <1>12, <1>16 DEF Step
<1>. QED BY <1>1, <1>2, <1>3, <1>9, <1>13, <1>14, <1>15, <1>16 DEF Next

\* As long as nobody dies or starts the directory anew, the manifest names the
\* corpus of the documents: searches and refreshes with different corpora never
\* publish one's manifest over the other's documents.
THEOREM ManifestIsExact == Spec => []SettledIsExact
<1>1. Init => TypeOK /\ Exact BY InitType, InitExact
<1>2. TypeOK /\ Exact /\ [Next]_vars => (TypeOK /\ Exact)' BY NextType, NextExact
<1>3. TypeOK /\ Exact => SettledIsExact BY DEF Exact
<1> QED BY <1>1, <1>2, <1>3, PTL DEF Spec

=============================================================================
