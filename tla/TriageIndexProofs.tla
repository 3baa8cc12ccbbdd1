------------------------- MODULE TriageIndexProofs -------------------------
(***************************************************************************)
(* Proofs about TriageIndex for any number of records and processes.       *)
(*                                                                         *)
(* The lock excludes, however often its file is removed and created:       *)
(* LockInv is inductive relative to TypeOK, and an owner's file is the one *)
(* at the path.  On a mount that does not flicker a generation that calls  *)
(* itself complete is exact: ViewInv says of a rebuild that the rows read  *)
(* so far are those of the fingerprint it took first, unless a warning or  *)
(* a lasting change of the view (Spoiled) will keep it from publishing.    *)
(* And no rebuild forgets: Covers carries the merge with the previous      *)
(* generation to the moment of publishing, which needs the lock.           *)
(***************************************************************************)
EXTENDS TriageIndex, TLAPS

ProcTyped ==
    /\ proc \in [Procs -> Process]
    /\ \A p \in Procs : FileOpen(proc[p])

Looks(s) == s.kind = "check" /\ s.pc \in {"l_view", "l_read"}

Holding == Building \cup {"k_verify", "u_verify", "u_unlink", "l_view", "l_read"}
Placed(s) ==
    /\ Looks(s) \/ s.pc \in {"k_verify", "u_verify"} => s.locked
    /\ s.locked => s.pc \in Holding

\* An owner has locked the file at the path; a file has one lock; only a read
\* looks at the index without the lock; and who opens a lock file holds no other.
LockInv ==
    /\ \A p \in Procs : Owns(proc[p]) => proc[p].locked /\ proc[p].fd = path
    /\ \A p, q \in Procs :
          proc[p].locked /\ proc[q].locked /\ proc[p].fd = proc[q].fd => p = q
    /\ \A p \in Procs : Placed(proc[p])

-----------------------------------------------------------------------------
(* Types of the values that steps compute.                                 *)

LEMMA ListedType ==
    ASSUME files \in Fingerprint, NEW r \in Records, NEW k \in {"note", "event"}, NEW hide
    PROVE  Listed(r, k, hide) \in Version
BY IndexAssumption DEF Listed, Fingerprint, Version

LEMMA ViewType ==
    ASSUME files \in Fingerprint, NEW hide
    PROVE  View(hide) \in Fingerprint
<1>1. \A r \in Records : Listed(r, "note", hide) \in Version /\ Listed(r, "event", hide) \in Version
  BY ListedType
<1> QED BY <1>1 DEF View, Fingerprint

LEMMA RowType ==
    ASSUME NEW note \in Version, NEW event \in Version
    PROVE  RowOf(note, event) \in Row
BY IndexAssumption DEF RowOf, Row, NoRow, Version

LEMMA IdleType == Idle \in Process /\ FileOpen(Idle) /\ ~Idle.locked /\ NoView \in Fingerprint /\ NoRow \in Row
<1>1. NoView \in Fingerprint /\ NoRow \in Row
  BY IndexAssumption DEF NoView, Fingerprint, Version, NoRow, Row
<1>2. Empty \in Rows
  BY <1>1 DEF Empty, Rows
<1>3. 0 \in 0..MaxInodes
  BY IndexAssumption
<1> QED BY <1>1, <1>2, <1>3 DEF Idle, Process, Control, Acquiring, Building, Pruning, FileOpen

LEMMA UnlockedType ==
    ASSUME NEW s \in Process
    PROVE  Unlocked(s) \in Process /\ ~Unlocked(s).locked
<1>1. 0 \in 0..MaxInodes
  BY IndexAssumption
<1> QED BY <1>1 DEF Unlocked, Process

LEMMA MergedType ==
    ASSUME cache \in Generation \cup {<<>>}, NEW rows \in Rows
    PROVE  Merged(rows) \in Rows
<1>1. CASE cache = <<>> BY <1>1 DEF Merged
<1>2. CASE cache # <<>>
  <2>1. cache.rows \in Rows BY <1>2 DEF Generation
  <2> QED BY <1>2, <2>1 DEF Merged, Rows
<1> QED BY <1>1, <1>2

\* One process takes a step; what is left to show is about its new state only.
LEMMA BecomesTyped ==
    ASSUME ProcTyped, NEW p \in Procs, NEW s \in Process, FileOpen(s),
           Becomes(p, s)
    PROVE  ProcTyped'
BY DEF ProcTyped, Becomes

LEMMA ReturnsTyped ==
    ASSUME ProcTyped, NEW p \in Procs, NEW rows \in Rows, NEW warned \in BOOLEAN,
           Returns(p, rows, warned)
    PROVE  ProcTyped'
<1> DEFINE s == IF proc[p].kind # "load" THEN Idle
               ELSE [Idle EXCEPT !.pc = "done", !.kind = "load", !.rows = rows,
                                 !.warned = warned, !.owed = proc[p].owed]
<1>1. proc[p].owed \in SUBSET Records
  BY DEF ProcTyped, Process
<1>2. s \in Process /\ FileOpen(s)
  BY <1>1, IdleType DEF Process, Control, Idle, FileOpen
<1>3. Becomes(p, s)
  BY DEF Returns
<1> QED BY <1>2, <1>3, BecomesTyped

-----------------------------------------------------------------------------
(* The type invariant.                                                     *)

\* What a step of a process leaves alone.
Rest == <<files, hidden, cache, path, inodes, retried, faults>>

LEMMA TypeOfProc ==
    ASSUME TypeOK, ProcTyped', UNCHANGED Rest
    PROVE  TypeOK'
BY DEF TypeOK, ProcTyped, Rest, Fingerprint, FileName, Generation

LEMMA StartType ==
    ASSUME TypeOK, NEW p \in Procs, Start(p)
    PROVE  TypeOK'
<1> USE DEF mount, lock, Rest
<1>1. ProcTyped BY DEF TypeOK, ProcTyped
<1>2. CASE LoadStart(p)
  <2> DEFINE owed == {r \in Records : View(hidden)[r].note > 0}
  <2> DEFINE s == [Idle EXCEPT !.pc = "l_view", !.kind = "load", !.owed = owed]
  <2>1. owed \in SUBSET Records OBVIOUS
  <2> HIDE DEF owed
  <2>2. s \in Process /\ FileOpen(s)
    BY <2>1, IdleType DEF Process, Control, Idle, FileOpen
  <2>3. Becomes(p, s) BY <1>2 DEF LoadStart, owed
  <2> HIDE DEF s
  <2>4. ProcTyped' BY <1>1, <2>2, <2>3, BecomesTyped
  <2> QED BY <1>2, <2>4, TypeOfProc DEF LoadStart
<1>3. ASSUME NEW kind \in {"check", "refresh"}, RefreshStart(p, kind) PROVE TypeOK'
  <2> DEFINE s == [Idle EXCEPT !.pc = "k_open", !.kind = kind]
  <2>1. s \in Process /\ FileOpen(s)
    BY IdleType DEF Process, Control, Acquiring, Idle, FileOpen
  <2>2. Becomes(p, s) BY <1>3 DEF RefreshStart
  <2> HIDE DEF s
  <2>3. ProcTyped' BY <1>1, <2>1, <2>2, BecomesTyped
  <2> QED BY <1>3, <2>3, TypeOfProc DEF RefreshStart
<1>4. CASE PruneStart(p)
  <2> DEFINE s == [Idle EXCEPT !.pc = "u_open", !.kind = "prune"]
  <2>1. s \in Process /\ FileOpen(s)
    BY IdleType DEF Process, Control, Pruning, Idle, FileOpen
  <2>2. Becomes(p, s) BY <1>4 DEF PruneStart
  <2> HIDE DEF s
  <2>3. ProcTyped' BY <1>1, <2>1, <2>2, BecomesTyped
  <2> QED BY <1>4, <2>3, TypeOfProc DEF PruneStart
<1> QED BY <1>2, <1>3, <1>4 DEF Start

LEMMA LoadType ==
    ASSUME TypeOK, NEW p \in Procs, LoadView(p) \/ LoadRead(p) \/ LoadEnd(p)
    PROVE  TypeOK'
<1> USE DEF mount, lock, Rest
<1>1. ProcTyped /\ proc[p] \in Process /\ FileOpen(proc[p])
  BY DEF TypeOK, ProcTyped
<1>2. CASE LoadView(p)
  <2> DEFINE s == [proc[p] EXCEPT !.view = View(hidden), !.pc = "l_read"]
  <2>1. s \in Process /\ FileOpen(s)
    BY <1>1, ViewType DEF TypeOK, Process, Control, FileOpen
  <2>2. Becomes(p, s) BY <1>2 DEF LoadView
  <2> HIDE DEF s
  <2>3. ProcTyped' BY <1>1, <2>1, <2>2, BecomesTyped
  <2> QED BY <1>2, <2>3, TypeOfProc DEF LoadView
<1>3. CASE LoadRead(p)
  <2>1. ProcTyped' /\ retried' \in BOOLEAN
    <3>1. CASE /\ IsFresh(proc[p].view)
               /\ Returns(p, cache.rows, ~cache.complete)
               /\ UNCHANGED retried
      <4>1. cache.rows \in Rows
        BY <3>1 DEF IsFresh, TypeOK, Generation
      <4>2. (~cache.complete) \in BOOLEAN
        BY Zenon
      <4> QED BY <1>1, <3>1, <4>1, <4>2, ReturnsTyped DEF TypeOK
    <3>2. CASE Becomes(p, [proc[p] EXCEPT !.view = NoView, !.pc = "b_start"]) /\ retried' = TRUE
      <4> DEFINE s == [proc[p] EXCEPT !.view = NoView, !.pc = "b_start"]
      <4>1. s \in Process /\ FileOpen(s)
        BY <1>1, IdleType DEF Process, Control, Building, FileOpen
      <4> HIDE DEF s
      <4> QED BY <1>1, <3>2, <4>1, BecomesTyped DEF s
    <3>3. CASE /\ Becomes(p, [proc[p] EXCEPT !.view = NoView,
                              !.pc = IF proc[p].locked THEN "b_start" ELSE "k_open"])
               /\ UNCHANGED retried
      <4> DEFINE s == [proc[p] EXCEPT !.view = NoView,
                         !.pc = IF proc[p].locked THEN "b_start" ELSE "k_open"]
      <4>1. s \in Process /\ FileOpen(s)
        BY <1>1, IdleType DEF Process, Control, Building, Acquiring, FileOpen
      <4> HIDE DEF s
      <4> QED BY <1>1, <3>3, <4>1, BecomesTyped DEF s, TypeOK
    <3> QED BY <1>3, <3>1, <3>2, <3>3 DEF LoadRead
  <2> QED BY <1>3, <2>1 DEF LoadRead, TypeOK, ProcTyped, FileName, Fingerprint, Generation
<1>4. CASE LoadEnd(p)
  <2>1. ProcTyped' BY <1>1, <1>4, IdleType, BecomesTyped DEF LoadEnd
  <2> QED BY <1>4, <2>1, TypeOfProc DEF LoadEnd
<1> QED BY <1>2, <1>3, <1>4

LEMMA LockType ==
    ASSUME TypeOK, NEW p \in Procs, LockOpen(p) \/ LockTry(p) \/ LockVerify(p)
    PROVE  TypeOK'
<1> USE DEF mount, lock, Rest
<1>1. ProcTyped /\ proc[p] \in Process /\ FileOpen(proc[p])
  BY DEF TypeOK, ProcTyped
<1>2. CASE LockOpen(p)
  <2>1. CASE path # 0
    <3> DEFINE s == [proc[p] EXCEPT !.fd = path, !.pc = "k_try"]
    <3>1. s \in Process /\ FileOpen(s)
      BY <1>1, <2>1 DEF TypeOK, Process, Control, Acquiring, FileOpen
    <3>2. Becomes(p, s) /\ UNCHANGED Rest BY <1>2, <2>1 DEF LockOpen, Opens
    <3> HIDE DEF s
    <3>3. ProcTyped' BY <1>1, <3>1, <3>2, BecomesTyped
    <3> QED BY <3>2, <3>3, TypeOfProc
  <2>2. CASE path = 0
    <3> DEFINE n == inodes + 1
    <3> DEFINE s == [proc[p] EXCEPT !.fd = n, !.pc = "k_try"]
    <3>1. n \in 0..MaxInodes /\ n # 0
      BY <1>2, <2>2, IndexAssumption DEF LockOpen, Opens, TypeOK
    <3> HIDE DEF n
    <3>2. s \in Process /\ FileOpen(s)
      BY <1>1, <3>1 DEF Process, Control, Acquiring, FileOpen
    <3> USE DEF n
    <3>3. Becomes(p, s) /\ inodes' = inodes + 1 /\ path' = inodes + 1
      BY <1>2, <2>2 DEF LockOpen, Opens
    <3> HIDE DEF s
    <3>4. ProcTyped' BY <1>1, <3>2, <3>3, BecomesTyped
    <3> QED BY <1>2, <3>1, <3>3, <3>4
         DEF LockOpen, TypeOK, ProcTyped, FileName, Fingerprint, Generation
  <2> QED BY <2>1, <2>2
<1>3. CASE LockTry(p)
  <2>1. CASE Becomes(p, [proc[p] EXCEPT !.locked = TRUE, !.pc = "k_verify"])
    <3> DEFINE s == [proc[p] EXCEPT !.locked = TRUE, !.pc = "k_verify"]
    <3>1. s \in Process /\ FileOpen(s)
      BY <1>1, <1>3 DEF Process, Control, Acquiring, FileOpen, LockTry
    <3> HIDE DEF s
    <3>2. ProcTyped' BY <1>1, <2>1, <3>1, BecomesTyped DEF s
    <3> QED BY <1>3, <3>2, TypeOfProc DEF LockTry
  <2>2. CASE Becomes(p, [Unlocked(proc[p]) EXCEPT !.contended = (proc[p].kind = "load"),
                         !.pc = "k_open"])
    <3> DEFINE c == proc[p].kind = "load"
    <3> DEFINE s == [Unlocked(proc[p]) EXCEPT !.contended = c, !.pc = "k_open"]
    <3>1. c \in BOOLEAN
      BY Zenon
    <3> HIDE DEF c
    <3>2. s \in Process /\ FileOpen(s)
      BY <1>1, <3>1, UnlockedType DEF Process, Control, Acquiring, FileOpen
    <3> USE DEF c
    <3>3. ProcTyped' BY <1>1, <2>2, <3>2, BecomesTyped DEF s
    <3> QED BY <1>3, <3>3, TypeOfProc DEF LockTry
  <2>3. CASE cache # <<>> /\ Returns(p, cache.rows, TRUE)
    <3>1. cache.rows \in Rows
      BY <2>3 DEF TypeOK, Generation
    <3>2. ProcTyped' BY <1>1, <2>3, <3>1, ReturnsTyped
    <3> QED BY <1>3, <3>2, TypeOfProc DEF LockTry
  <2>4. CASE Becomes(p, Idle)
    <3>1. ProcTyped' BY <1>1, <2>4, IdleType, BecomesTyped
    <3> QED BY <1>3, <3>1, TypeOfProc DEF LockTry
  <2> QED BY <1>3, <2>1, <2>2, <2>3, <2>4 DEF LockTry
<1>4. CASE LockVerify(p)
  <2> DEFINE t == [Unlocked(proc[p]) EXCEPT !.pc = "k_open"]
  <2> DEFINE u == [proc[p] EXCEPT !.contended = FALSE, !.pc = "l_view"]
  <2> DEFINE v == [proc[p] EXCEPT !.pc = "b_start"]
  <2>1. t \in Process /\ FileOpen(t)
    BY <1>1, UnlockedType DEF Process, Control, Acquiring, FileOpen
  <2>2. u \in Process /\ FileOpen(u)
    BY <1>1 DEF Process, Control, FileOpen
  <2>3. v \in Process /\ FileOpen(v)
    BY <1>1 DEF Process, Control, Building, FileOpen
  <2>4. Becomes(p, t) \/ Becomes(p, u) \/ Becomes(p, v)
    BY <1>4 DEF LockVerify
  <2> HIDE DEF t, u, v
  <2>5. ProcTyped' BY <1>1, <2>1, <2>2, <2>3, <2>4, BecomesTyped
  <2> QED BY <1>4, <2>5, TypeOfProc DEF LockVerify
<1> QED BY <1>2, <1>3, <1>4

LEMMA BuildType ==
    ASSUME TypeOK, NEW p \in Procs,
           \/ BuildStart(p) \/ BuildAfter(p) \/ BuildPublish(p)
           \/ \E r \in Records : BuildRead(p, r)
    PROVE  TypeOK'
<1> USE DEF mount, lock, Rest
<1>1. ProcTyped /\ proc[p] \in Process /\ FileOpen(proc[p])
  BY DEF TypeOK, ProcTyped
<1>2. CASE BuildStart(p)
  <2> DEFINE seen == View(hidden)
             todo == {r \in Records : seen[r].note > 0}
             s == [proc[p] EXCEPT !.view = seen, !.pc = "b_read", !.warned = FALSE,
                                  !.todo = todo]
  <2>1. seen \in Fingerprint /\ todo \in SUBSET Records
    BY ViewType DEF TypeOK
  <2>2. Becomes(p, s) BY <1>2 DEF BuildStart
  <2> HIDE DEF seen, todo
  <2>3. s \in Process /\ FileOpen(s)
    BY <1>1, <2>1 DEF Process, Control, Building, FileOpen
  <2> HIDE DEF s
  <2>4. ProcTyped' BY <1>1, <2>2, <2>3, BecomesTyped
  <2> QED BY <1>2, <2>4, TypeOfProc DEF BuildStart
<1>3. ASSUME NEW r \in Records, BuildRead(p, r) PROVE TypeOK'
  <2> DEFINE note  == Listed(r, "note", hidden)
             event == Listed(r, "event", hidden)
             s(row, failed) == [proc[p] EXCEPT !.todo = @ \ {r}, !.rows[r] = row,
                                               !.warned = proc[p].warned \/ failed]
  <2>1. RowOf(note, event) \in Row /\ NoRow \in Row /\ RowOf(note, 0) \in Row
    <3>1. note \in Version /\ event \in Version /\ 0 \in Version
      BY ListedType, IndexAssumption DEF TypeOK, Version
    <3> QED BY <3>1, RowType, IdleType
  <2>2. PICK row \in Row, failed \in BOOLEAN : Becomes(p, s(row, failed))
    <3>1. (note = 0) \in BOOLEAN BY Zenon
    <3> QED BY <1>3, <2>1, <3>1 DEF BuildRead
  <2>3. s(row, failed) \in Process /\ FileOpen(s(row, failed))
    <3> DEFINE w == proc[p].warned \/ failed
               rows == [proc[p].rows EXCEPT ![r] = row]
               todo == proc[p].todo \ {r}
    <3>1. w \in BOOLEAN BY Zenon
    <3>2. rows \in Rows BY <1>1, <2>2 DEF Process, Rows
    <3>3. todo \in SUBSET Records BY <1>1 DEF Process
    <3>4. s(row, failed) = [proc[p] EXCEPT !.todo = todo, !.rows = rows, !.warned = w]
      BY <1>1 DEF Process
    <3> HIDE DEF w, rows, todo, s
    <3> QED BY <1>1, <3>1, <3>2, <3>3, <3>4 DEF Process, FileOpen
  <2> HIDE DEF s
  <2>4. ProcTyped' BY <1>1, <2>2, <2>3, BecomesTyped
  <2> QED BY <1>3, <2>4, TypeOfProc DEF BuildRead
<1>4. CASE BuildAfter(p)
  <2> DEFINE after == View(hidden)
             rows == Merged(proc[p].rows)
             w == proc[p].warned \/ rows # proc[p].rows
             s == [proc[p] EXCEPT !.view = after, !.rows = rows, !.pc = "b_publish",
                                  !.warned = w]
  <2>1. after \in Fingerprint /\ rows \in Rows
    BY <1>1, ViewType, MergedType DEF TypeOK, Process
  <2>2. w \in BOOLEAN BY Zenon
  <2>3. \/ Becomes(p, s)
        \/ cache # <<>> /\ Returns(p, cache.rows, TRUE)
        \/ Becomes(p, Idle)
    BY <1>4 DEF BuildAfter
  <2> HIDE DEF after, rows, w
  <2>4. s \in Process /\ FileOpen(s)
    BY <1>1, <2>1, <2>2 DEF Process, Control, Building, FileOpen
  <2> HIDE DEF s
  <2>5. cache # <<>> => cache.rows \in Rows
    BY DEF TypeOK, Generation
  <2>6. ProcTyped' BY <1>1, <2>3, <2>4, <2>5, IdleType, BecomesTyped, ReturnsTyped
  <2> QED BY <1>4, <2>6, TypeOfProc DEF BuildAfter
<1>5. CASE BuildPublish(p)
  <2> DEFINE c == ~proc[p].warned
             w == proc[p].warned
  <2>1. c \in BOOLEAN BY Zenon
  <2>2. w \in BOOLEAN BY <1>1 DEF Process
  <2>3. cache' = [fingerprint |-> proc[p].view, rows |-> proc[p].rows, complete |-> c]
    BY <1>5 DEF BuildPublish
  <2>4. Returns(p, proc[p].rows, w) BY <1>5 DEF BuildPublish
  <2> HIDE DEF c, w
  <2>5. proc[p].rows \in Rows /\ proc[p].view \in Fingerprint
    BY <1>1 DEF Process
  <2>6. cache' \in Generation BY <2>1, <2>3, <2>5 DEF Generation
  <2>7. ProcTyped' BY <1>1, <2>2, <2>4, <2>5, ReturnsTyped
  <2> QED BY <1>5, <2>6, <2>7 DEF BuildPublish, TypeOK, ProcTyped, FileName, Fingerprint, Generation
<1> QED BY <1>2, <1>3, <1>4, <1>5

LEMMA PruneType ==
    ASSUME TypeOK, NEW p \in Procs,
           PruneOpen(p) \/ PruneTry(p) \/ PruneVerify(p) \/ PruneUnlink(p)
    PROVE  TypeOK'
<1> USE DEF mount, lock, Rest
<1>1. ProcTyped /\ proc[p] \in Process /\ FileOpen(proc[p])
  BY DEF TypeOK, ProcTyped
<1>2. CASE Becomes(p, Idle)
  <2>1. ProcTyped' BY <1>1, <1>2, IdleType, BecomesTyped
  <2>2. path' \in 0..MaxInodes
    BY IndexAssumption DEF TypeOK, PruneOpen, PruneTry, PruneVerify, PruneUnlink
  <2> QED BY <2>1, <2>2
       DEF PruneOpen, PruneTry, PruneVerify, PruneUnlink, TypeOK, ProcTyped, FileName,
           Fingerprint, Generation
<1>3. CASE PruneOpen(p) /\ ~Becomes(p, Idle)
  <2> DEFINE s == [proc[p] EXCEPT !.fd = path, !.pc = "u_try"]
  <2>1. path # 0 /\ Becomes(p, s) BY <1>3 DEF PruneOpen
  <2>2. s \in Process /\ FileOpen(s)
    BY <1>1, <2>1 DEF TypeOK, Process, Control, Pruning, FileOpen
  <2> HIDE DEF s
  <2>3. ProcTyped' BY <1>1, <2>1, <2>2, BecomesTyped
  <2> QED BY <1>3, <2>3, TypeOfProc DEF PruneOpen
<1>4. CASE PruneTry(p) /\ ~Becomes(p, Idle)
  <2> DEFINE s == [proc[p] EXCEPT !.locked = TRUE, !.pc = "u_verify"]
  <2>1. Becomes(p, s) BY <1>4 DEF PruneTry
  <2>2. s \in Process /\ FileOpen(s)
    BY <1>1, <1>4 DEF Process, Control, Pruning, FileOpen, PruneTry
  <2> HIDE DEF s
  <2>3. ProcTyped' BY <1>1, <2>1, <2>2, BecomesTyped
  <2> QED BY <1>4, <2>3, TypeOfProc DEF PruneTry
<1>5. CASE PruneVerify(p) /\ ~Becomes(p, Idle)
  <2> DEFINE s == [proc[p] EXCEPT !.pc = "u_unlink"]
  <2>1. Becomes(p, s) BY <1>5 DEF PruneVerify
  <2>2. s \in Process /\ FileOpen(s)
    BY <1>1 DEF Process, Control, Pruning, FileOpen
  <2> HIDE DEF s
  <2>3. ProcTyped' BY <1>1, <2>1, <2>2, BecomesTyped
  <2> QED BY <1>5, <2>3, TypeOfProc DEF PruneVerify
<1>6. PruneUnlink(p) => Becomes(p, Idle)
  BY DEF PruneUnlink
<1> QED BY <1>2, <1>3, <1>4, <1>5, <1>6

LEMMA EnvironmentType ==
    ASSUME TypeOK, Environment
    PROVE  TypeOK'
<1> USE DEF mount, lock
<1>1. ASSUME NEW r \in Records, NEW k \in {"note", "event"}, Arrive(r, k) PROVE TypeOK'
  <2>1. files[r] \in [note : Version, event : Version]
    BY DEF TypeOK, Fingerprint
  <2>2. files[r][k] \in Version /\ files[r][k] + 1 \in Version
    BY <1>1, <2>1, IndexAssumption DEF Arrive, Version
  <2> DEFINE n == files[r][k] + 1
             both == [files[r] EXCEPT ![k] = n]
  <2>3. files' = [files EXCEPT ![r] = both] BY <1>1 DEF Arrive
  <2> HIDE DEF n
  <2>4. both \in [note : Version, event : Version]
    <3>1. CASE k = "note" BY <2>1, <2>2, <3>1 DEF n
    <3>2. CASE k = "event" BY <2>1, <2>2, <3>2 DEF n
    <3> QED BY <3>1, <3>2
  <2> HIDE DEF both
  <2>5. files' \in Fingerprint BY <2>3, <2>4 DEF TypeOK, Fingerprint
  <2> QED BY <1>1, <2>5 DEF Arrive, TypeOK, FileName, Generation, Fingerprint
<1>2. ASSUME NEW f \in FileName, Hide(f) PROVE TypeOK'
  <2>1. ASSUME NEW p \in Procs
        PROVE  proc'[p] \in Process /\ FileOpen(proc'[p])
    <3> DEFINE owed == proc[p].owed \ {f[1]}
    <3>1. proc[p] \in Process /\ FileOpen(proc[p]) BY DEF TypeOK
    <3>2. owed \in SUBSET Records BY <3>1 DEF Process
    <3>3. proc'[p] = [proc[p] EXCEPT !.owed = owed] BY <1>2, <3>1 DEF Hide, Process
    <3> HIDE DEF owed
    <3> QED BY <3>1, <3>2, <3>3 DEF Process, FileOpen
  <2>2. proc' = [p \in Procs |-> proc'[p]] BY <1>2 DEF Hide
  <2>3. proc' \in [Procs -> Process] BY <2>1, <2>2
  <2>4. hidden' \subseteq FileName BY <1>2 DEF Hide, TypeOK
  <2> QED BY <1>2, <2>1, <2>3, <2>4 DEF Hide, TypeOK, FileName, Generation, Fingerprint
<1>3. ASSUME NEW f \in FileName, Show(f) PROVE TypeOK'
  BY <1>3 DEF Show, TypeOK, FileName, Generation, Fingerprint
<1>4. CASE RetryAges
  BY <1>4 DEF RetryAges, TypeOK, FileName, Generation, Fingerprint
<1>5. ASSUME NEW p \in Procs, Dies(p) PROVE TypeOK'
  <2>1. ProcTyped' BY <1>5, IdleType, BecomesTyped DEF TypeOK, ProcTyped, Dies
  <2>2. faults' \in 0..MaxFaults BY <1>5, IndexAssumption DEF Dies, TypeOK
  <2> QED BY <1>5, <2>1, <2>2 DEF Dies, TypeOK, ProcTyped, FileName, Generation, Fingerprint
<1> QED BY <1>1, <1>2, <1>3, <1>4, <1>5 DEF Environment

LEMMA TypeInit == Init => TypeOK
<1> SUFFICES ASSUME Init PROVE TypeOK
  OBVIOUS
<1>1. 0 \in 0..MaxInodes /\ 0 \in 0..MaxFaults
  BY IndexAssumption
<1> QED BY <1>1, IdleType DEF Init, TypeOK

LEMMA TypeStep ==
    ASSUME TypeOK, [Next]_vars
    PROVE  TypeOK'
<1>1. CASE UNCHANGED vars
  BY <1>1 DEF vars, TypeOK, FileName, Fingerprint, Generation
<1>2. CASE Environment BY <1>2, EnvironmentType
<1>3. ASSUME NEW p \in Procs, Start(p) PROVE TypeOK'
  BY <1>3, StartType
<1>4. ASSUME NEW p \in Procs, Step(p) PROVE TypeOK'
  <2>1. CASE LoadView(p) \/ LoadRead(p) \/ LoadEnd(p) BY <2>1, LoadType
  <2>2. CASE LockOpen(p) \/ LockTry(p) \/ LockVerify(p) BY <2>2, LockType
  <2>3. CASE \/ BuildStart(p) \/ BuildAfter(p) \/ BuildPublish(p)
             \/ \E r \in Records : BuildRead(p, r)
    BY <2>3, BuildType
  <2>4. CASE PruneOpen(p) \/ PruneTry(p) \/ PruneVerify(p) \/ PruneUnlink(p)
    BY <2>4, PruneType
  <2> QED BY <1>4, <2>1, <2>2, <2>3, <2>4 DEF Step
<1> QED BY <1>1, <1>2, <1>3, <1>4 DEF Next

\* Every variable of the triage index keeps its type, and every lock is on an
\* open file, in every behaviour.
THEOREM TriageTypeCorrect == Spec => []TypeOK
<1>1. TypeOK /\ [Next]_vars => TypeOK'
  BY TypeStep
<1> QED BY <1>1, TypeInit, PTL DEF Spec

-----------------------------------------------------------------------------
(* The lock.                                                               *)

\* A step that takes no lock and becomes an owner only with the file at the path.
LEMMA KeepsLock ==
    ASSUME TypeOK, LockInv, NEW p \in Procs, NEW s, Becomes(p, s), UNCHANGED path,
           s.locked => proc[p].locked /\ s.fd = proc[p].fd,
           Owns(s) => s.locked /\ s.fd = path,
           Placed(s)
    PROVE  LockInv'
<1>1. \A q \in Procs : proc'[q] = IF q = p THEN s ELSE proc[q]
  BY DEF Becomes, TypeOK
<1> QED BY <1>1 DEF LockInv, Owns, Building, Placed

\* A step that takes the lock of a file nobody has locked, without owning it yet.
LEMMA TakesLock ==
    ASSUME TypeOK, LockInv, NEW p \in Procs, NEW s, Becomes(p, s), UNCHANGED path,
           ~Owns(s), Placed(s), ~Held(s.fd)
    PROVE  LockInv'
<1>1. \A q \in Procs : proc'[q] = IF q = p THEN s ELSE proc[q]
  BY DEF Becomes, TypeOK
<1>2. \A q \in Procs : proc[q].locked => proc[q].fd # s.fd
  BY DEF Held
<1> QED BY <1>1, <1>2 DEF LockInv, Owns, Building, Placed

LEMMA EndsUnlocked ==
    ASSUME TypeOK, LockInv, NEW p \in Procs, UNCHANGED path, NEW rows, NEW warned,
           Becomes(p, Idle) \/ Returns(p, rows, warned)
    PROVE  LockInv'
<1> DEFINE d == [Idle EXCEPT !.pc = "done", !.kind = "load", !.rows = rows,
                             !.warned = warned, !.owed = proc[p].owed]
<1>1. Becomes(p, Idle) \/ Becomes(p, d)
  BY DEF Returns
<1>2. ~Idle.locked /\ ~Owns(Idle) /\ Placed(Idle)
  BY DEF Idle, Owns, Building, Looks, Placed
<1>3. ~d.locked /\ ~Owns(d) /\ Placed(d)
  BY DEF Idle, Owns, Building, Looks, Placed
<1> HIDE DEF d
<1> QED BY <1>1, <1>2, <1>3, KeepsLock

LEMMA StartLock ==
    ASSUME TypeOK, LockInv, NEW p \in Procs, Start(p)
    PROVE  LockInv'
<1>1. UNCHANGED path
  BY DEF Start, LoadStart, RefreshStart, PruneStart, lock
<1>2. CASE LoadStart(p)
  <2> DEFINE s == [Idle EXCEPT !.pc = "l_view", !.kind = "load",
                     !.owed = {r \in Records : View(hidden)[r].note > 0}]
  <2>1. Becomes(p, s) BY <1>2 DEF LoadStart
  <2>2. ~s.locked /\ ~Owns(s) /\ Placed(s) BY DEF Idle, Owns, Building, Looks, Placed
  <2> HIDE DEF s
  <2> QED BY <1>1, <2>1, <2>2, KeepsLock
<1>3. ASSUME NEW kind \in {"check", "refresh"}, RefreshStart(p, kind) PROVE LockInv'
  <2> DEFINE s == [Idle EXCEPT !.pc = "k_open", !.kind = kind]
  <2>1. Becomes(p, s) BY <1>3 DEF RefreshStart
  <2>2. ~s.locked /\ ~Owns(s) /\ Placed(s) BY DEF Idle, Owns, Building, Looks, Placed
  <2> HIDE DEF s
  <2> QED BY <1>1, <2>1, <2>2, KeepsLock
<1>4. CASE PruneStart(p)
  <2> DEFINE s == [Idle EXCEPT !.pc = "u_open", !.kind = "prune"]
  <2>1. Becomes(p, s) BY <1>4 DEF PruneStart
  <2>2. ~s.locked /\ ~Owns(s) /\ Placed(s) BY DEF Idle, Owns, Building, Looks, Placed
  <2> HIDE DEF s
  <2> QED BY <1>1, <2>1, <2>2, KeepsLock
<1> QED BY <1>2, <1>3, <1>4 DEF Start

LEMMA LoadLock ==
    ASSUME TypeOK, LockInv, NEW p \in Procs, LoadView(p) \/ LoadRead(p) \/ LoadEnd(p)
    PROVE  LockInv'
<1>1. UNCHANGED path
  BY DEF LoadView, LoadRead, LoadEnd, lock
<1>2. proc[p] \in Process BY DEF TypeOK
<1>3. CASE LoadEnd(p) \/ (LoadRead(p) /\ Returns(p, cache.rows, ~cache.complete))
  BY <1>1, <1>3, EndsUnlocked DEF LoadEnd
<1>4. CASE LoadView(p) \/ (LoadRead(p) /\ ~Returns(p, cache.rows, ~cache.complete))
  <2>1. PICK pc \in {"l_read", "b_start", "k_open"},
              view \in {View(hidden), NoView, proc[p].view} :
           /\ Becomes(p, [proc[p] EXCEPT !.view = view, !.pc = pc])
           /\ pc = "b_start" => proc[p].locked
           /\ pc = "k_open" => ~proc[p].locked
    <3>1. CASE LoadView(p) BY <3>1 DEF LoadView
    <3>2. CASE LoadRead(p) /\ ~Returns(p, cache.rows, ~cache.complete)
      BY <3>2 DEF LoadRead, LockInv, Placed, Looks
    <3> QED BY <1>4, <3>1, <3>2
  <2>2. proc[p].locked => proc[p].fd = path
    BY <1>4 DEF LockInv, Owns, LoadView, LoadRead
  <2>3. LoadView(p) \/ LoadRead(p) => proc[p].pc \in {"l_view", "l_read"}
    BY DEF LoadView, LoadRead
  <2>4. proc[p].kind = "check" => proc[p].locked
    BY <1>4, <2>3 DEF LockInv, Placed, Looks
  <2> DEFINE s == [proc[p] EXCEPT !.view = view, !.pc = pc]
  <2>5. /\ s.locked => proc[p].locked /\ s.fd = proc[p].fd
        /\ Owns(s) => s.locked /\ s.fd = path
        /\ Placed(s)
    BY <1>2, <2>1, <2>2, <2>4 DEF Owns, Building, Placed, Holding, Looks, Process
  <2> QED BY <1>1, <2>1, <2>5, KeepsLock
<1> QED BY <1>3, <1>4

\* A lock file is opened: nobody owns one when the path has none.
LEMMA OpenLock ==
    ASSUME TypeOK, LockInv, NEW p \in Procs, LockOpen(p)
    PROVE  LockInv'
<1>1. proc[p] \in Process BY DEF TypeOK
<1>2. PICK fd : Becomes(p, [proc[p] EXCEPT !.fd = fd, !.pc = "k_try"])
  BY DEF LockOpen, Opens
<1> DEFINE s == [proc[p] EXCEPT !.fd = fd, !.pc = "k_try"]
<1>3. ~s.locked /\ ~Owns(s) /\ Placed(s)
  BY <1>1 DEF Process, Owns, Building, Placed, Holding, Looks, LockInv, LockOpen
<1>4. CASE path # 0
  <2>1. UNCHANGED path BY <1>4 DEF LockOpen, Opens, lock
  <2> QED BY <1>2, <1>3, <2>1, KeepsLock
<1>5. CASE path = 0
  <2>1. \A q \in Procs : ~Owns(proc[q])
    BY <1>5 DEF TypeOK, LockInv, FileOpen
  <2>2. \A q \in Procs : proc'[q] = IF q = p THEN s ELSE proc[q]
    BY <1>2 DEF Becomes, TypeOK
  <2> HIDE DEF s
  <2>3. \A q \in Procs : ~Owns(proc'[q]) /\ (proc'[q].locked => q # p /\ proc[q].locked)
    BY <1>3, <2>1, <2>2
  <2>4. \A q \in Procs : Placed(proc'[q])
    BY <1>3, <2>2 DEF LockInv
  <2>5. \A q, r \in Procs : proc'[q].locked /\ proc'[r].locked /\ proc'[q].fd = proc'[r].fd => q = r
    BY <2>2, <2>3 DEF LockInv
  <2> QED BY <2>3, <2>4, <2>5 DEF LockInv, Owns, Placed, Looks
<1> QED BY <1>4, <1>5

LEMMA AcquireLock ==
    ASSUME TypeOK, LockInv, NEW p \in Procs, LockTry(p) \/ LockVerify(p)
    PROVE  LockInv'
<1>1. proc[p] \in Process BY DEF TypeOK
<1>2. UNCHANGED path BY DEF LockTry, LockVerify, lock
<1>3. Unlocked(proc[p]) \in Process /\ ~Unlocked(proc[p]).locked
  BY <1>1, UnlockedType
<1>4. CASE LockTry(p)
  <2>1. CASE ~Held(proc[p].fd) /\ Becomes(p, [proc[p] EXCEPT !.locked = TRUE, !.pc = "k_verify"])
    <3> DEFINE s == [proc[p] EXCEPT !.locked = TRUE, !.pc = "k_verify"]
    <3>1. s.fd = proc[p].fd /\ ~Owns(s) /\ Placed(s)
      BY <1>1 DEF Process, Owns, Building, Placed, Looks, Holding
    <3> HIDE DEF s
    <3>2. Becomes(p, s) BY <2>1 DEF s
    <3> QED BY <1>2, <2>1, <3>1, <3>2, TakesLock
  <2>2. CASE \E c : Becomes(p, [Unlocked(proc[p]) EXCEPT !.contended = c, !.pc = "k_open"])
    <3>1. PICK c : Becomes(p, [Unlocked(proc[p]) EXCEPT !.contended = c, !.pc = "k_open"])
      BY <2>2
    <3> DEFINE s == [Unlocked(proc[p]) EXCEPT !.contended = c, !.pc = "k_open"]
    <3>2. ~s.locked /\ ~Owns(s) /\ Placed(s)
      BY <1>3 DEF Process, Owns, Building, Placed, Looks, Holding
    <3> HIDE DEF s
    <3>3. Becomes(p, s) BY <3>1 DEF s
    <3> QED BY <1>2, <3>2, <3>3, KeepsLock
  <2>3. CASE Becomes(p, Idle) \/ Returns(p, cache.rows, TRUE)
    BY <1>2, <2>3, EndsUnlocked
  <2> QED BY <1>4, <2>1, <2>2, <2>3 DEF LockTry
<1>5. CASE LockVerify(p)
  <2> DEFINE t == [Unlocked(proc[p]) EXCEPT !.pc = "k_open"]
  <2> DEFINE u == [proc[p] EXCEPT !.contended = FALSE, !.pc = "l_view"]
  <2> DEFINE v == [proc[p] EXCEPT !.pc = "b_start"]
  <2>1. \/ Becomes(p, t)
        \/ (Becomes(p, u) \/ Becomes(p, v)) /\ proc[p].fd = path
    BY <1>5 DEF LockVerify, PathMatches
  <2>2. ~t.locked /\ ~Owns(t) /\ Placed(t)
    BY <1>3 DEF Process, Owns, Building, Placed, Looks, Holding
  <2>3. proc[p].locked
    BY <1>5 DEF LockVerify, LockInv, Placed
  <2>4. u.locked /\ u.fd = proc[p].fd /\ Placed(u) /\ v.locked /\ v.fd = proc[p].fd /\ Placed(v)
    BY <1>1, <2>3 DEF Process, Building, Placed, Looks, Holding
  <2> HIDE DEF t, u, v
  <2> QED BY <1>2, <2>1, <2>2, <2>3, <2>4, KeepsLock
<1> QED BY <1>4, <1>5

LEMMA BuildLock ==
    ASSUME TypeOK, LockInv, NEW p \in Procs,
           \/ BuildStart(p) \/ BuildAfter(p) \/ BuildPublish(p)
           \/ \E r \in Records : BuildRead(p, r)
    PROVE  LockInv'
<1>1. proc[p] \in Process BY DEF TypeOK
<1>2. UNCHANGED path BY DEF BuildStart, BuildRead, BuildAfter, BuildPublish, lock
<1>3. proc[p].locked /\ proc[p].fd = path
  BY DEF BuildStart, BuildRead, BuildAfter, BuildPublish, LockInv, Owns, Building
<1>4. ASSUME NEW s, Becomes(p, s), s.pc \in Building, s.fd = proc[p].fd, s.locked = proc[p].locked
      PROVE  LockInv'
  <2>1. Owns(s) /\ Placed(s) BY <1>3, <1>4 DEF Owns, Building, Placed, Looks, Holding
  <2> QED BY <1>2, <1>3, <1>4, <2>1, KeepsLock
<1>5. CASE BuildStart(p)
  <2> DEFINE s == [proc[p] EXCEPT !.view = View(hidden), !.pc = "b_read", !.warned = FALSE,
                     !.todo = {r \in Records : View(hidden)[r].note > 0}]
  <2>1. Becomes(p, s) BY <1>5 DEF BuildStart
  <2>2. s.pc \in Building /\ s.fd = proc[p].fd /\ s.locked = proc[p].locked
    BY <1>1 DEF Process, Building
  <2> HIDE DEF s
  <2> QED BY <1>4, <2>1, <2>2
<1>6. ASSUME NEW r \in Records, BuildRead(p, r) PROVE LockInv'
  <2> DEFINE s(row, failed) == [proc[p] EXCEPT !.todo = @ \ {r}, !.rows[r] = row,
                                               !.warned = proc[p].warned \/ failed]
  <2>1. PICK row, failed : Becomes(p, s(row, failed))
    BY <1>6 DEF BuildRead
  <2>2. /\ s(row, failed).pc \in Building
        /\ s(row, failed).fd = proc[p].fd /\ s(row, failed).locked = proc[p].locked
    BY <1>1, <1>6 DEF Process, Building, BuildRead
  <2> HIDE DEF s
  <2> QED BY <1>4, <2>1, <2>2
<1>7. CASE BuildAfter(p)
  <2> DEFINE s == [proc[p] EXCEPT !.view = View(hidden), !.rows = Merged(proc[p].rows),
                     !.pc = "b_publish",
                     !.warned = proc[p].warned \/ Merged(proc[p].rows) # proc[p].rows]
  <2>1. Becomes(p, s) \/ Becomes(p, Idle) \/ Returns(p, cache.rows, TRUE)
    BY <1>7 DEF BuildAfter
  <2>2. s.pc \in Building /\ s.fd = proc[p].fd /\ s.locked = proc[p].locked
    BY <1>1 DEF Process, Building
  <2> HIDE DEF s
  <2> QED BY <1>2, <1>4, <2>1, <2>2, EndsUnlocked
<1>8. CASE BuildPublish(p)
  BY <1>2, <1>8, EndsUnlocked DEF BuildPublish
<1> QED BY <1>5, <1>6, <1>7, <1>8

\* The lock file is removed by the one process that owns it.
LEMMA PruneLock ==
    ASSUME TypeOK, LockInv, NEW p \in Procs,
           PruneOpen(p) \/ PruneTry(p) \/ PruneVerify(p) \/ PruneUnlink(p)
    PROVE  LockInv'
<1>1. proc[p] \in Process BY DEF TypeOK
<1>2. ~PruneUnlink(p) => UNCHANGED path BY DEF PruneOpen, PruneTry, PruneVerify, lock
<1>3. CASE Becomes(p, Idle) /\ UNCHANGED path
  BY <1>3, EndsUnlocked
<1>4. CASE PruneOpen(p) /\ ~Becomes(p, Idle)
  <2> DEFINE s == [proc[p] EXCEPT !.fd = path, !.pc = "u_try"]
  <2>1. Becomes(p, s) /\ UNCHANGED path BY <1>4 DEF PruneOpen, lock
  <2>2. ~s.locked /\ ~Owns(s) /\ Placed(s)
    BY <1>1, <1>4 DEF Process, PruneOpen, Owns, Building, Placed, Looks, Holding, LockInv
  <2> HIDE DEF s
  <2> QED BY <2>1, <2>2, KeepsLock
<1>5. CASE PruneTry(p) /\ ~Becomes(p, Idle)
  <2> DEFINE s == [proc[p] EXCEPT !.locked = TRUE, !.pc = "u_verify"]
  <2>1. Becomes(p, s) /\ ~Held(proc[p].fd) /\ UNCHANGED path BY <1>5 DEF PruneTry, lock
  <2>2. s.fd = proc[p].fd /\ ~Owns(s) /\ Placed(s)
    BY <1>1 DEF Process, Owns, Building, Placed, Looks, Holding
  <2> HIDE DEF s
  <2> QED BY <2>1, <2>2, TakesLock
<1>6. CASE PruneVerify(p) /\ ~Becomes(p, Idle)
  <2> DEFINE s == [proc[p] EXCEPT !.pc = "u_unlink"]
  <2>1. Becomes(p, s) /\ proc[p].fd = path /\ UNCHANGED path
    BY <1>6 DEF PruneVerify, lock
  <2>2. proc[p].locked BY <1>6 DEF PruneVerify, LockInv, Placed
  <2>3. s.locked /\ s.fd = proc[p].fd /\ Owns(s) /\ Placed(s)
    BY <1>1, <2>2 DEF Process, Owns, Building, Placed, Looks, Holding
  <2> HIDE DEF s
  <2> QED BY <2>1, <2>2, <2>3, KeepsLock
<1>7. CASE PruneUnlink(p)
  <2>1. proc[p].locked /\ proc[p].fd = path
    BY <1>7 DEF PruneUnlink, LockInv, Owns
  <2>2. \A q \in Procs : q # p => ~Owns(proc[q])
    BY <2>1 DEF LockInv
  <2>3. \A q \in Procs : proc'[q] = IF q = p THEN Idle ELSE proc[q]
    BY <1>7 DEF PruneUnlink, Becomes, TypeOK
  <2>4. ~Idle.locked /\ ~Owns(Idle) /\ Placed(Idle)
    BY DEF Idle, Owns, Building, Placed, Looks
  <2>5. \A q \in Procs : ~Owns(proc'[q]) /\ Placed(proc'[q])
    BY <2>2, <2>3, <2>4 DEF LockInv
  <2>6. \A q, r \in Procs : proc'[q].locked /\ proc'[r].locked /\ proc'[q].fd = proc'[r].fd => q = r
    BY <2>3, <2>4 DEF LockInv
  <2> QED BY <2>5, <2>6 DEF LockInv, Owns, Placed, Looks
<1> QED
  <2>1. CASE PruneUnlink(p) BY <1>7, <2>1
  <2>2. CASE ~PruneUnlink(p) BY <1>2, <1>3, <1>4, <1>5, <1>6, <2>2
  <2> QED BY <2>1, <2>2

LEMMA LockStep ==
    ASSUME TypeOK, LockInv, [Next]_vars
    PROVE  LockInv'
<1>1. ASSUME UNCHANGED <<proc, path>> PROVE LockInv'
  BY <1>1 DEF LockInv
<1>2. ASSUME NEW f \in FileName, Hide(f) PROVE LockInv'
  <2>1. \A p \in Procs : /\ proc'[p].pc = proc[p].pc /\ proc'[p].kind = proc[p].kind
                         /\ proc'[p].fd = proc[p].fd /\ proc'[p].locked = proc[p].locked
    BY <1>2 DEF Hide, TypeOK, Process
  <2>2. \A p \in Procs : /\ Owns(proc'[p]) <=> Owns(proc[p])
                         /\ Placed(proc'[p]) <=> Placed(proc[p])
    BY <2>1 DEF Owns, Placed, Looks
  <2>3. UNCHANGED path BY <1>2 DEF Hide, lock
  <2> QED BY <2>1, <2>2, <2>3 DEF LockInv, Owns, Placed, Looks
<1>3. ASSUME NEW p \in Procs, Dies(p) PROVE LockInv'
  BY <1>3, EndsUnlocked DEF Dies, lock
<1>4. CASE Environment
  BY <1>1, <1>2, <1>3, <1>4 DEF Environment, Arrive, Show, RetryAges, lock
<1>5. ASSUME NEW p \in Procs, Start(p) \/ Step(p) PROVE LockInv'
  BY <1>5, StartLock, LoadLock, OpenLock, AcquireLock, BuildLock, PruneLock DEF Step
<1> QED BY <1>1, <1>4, <1>5 DEF Next, vars

\* At most one process rebuilds the index, or removes its lock file, at any
\* time, for any number of processes and of lock files.
THEOREM RebuildLockIsExclusive == Spec => []LockIsExclusive
<1>1. Init => LockInv
  BY DEF Init, LockInv, Idle, Owns, Building, Placed, Looks
<1>2. TypeOK /\ LockInv /\ [Next]_vars => LockInv'
  BY LockStep
<1>3. LockInv => LockIsExclusive
  BY DEF LockInv, LockIsExclusive
<1> QED BY <1>1, <1>2, <1>3, TriageTypeCorrect, PTL DEF Spec

-----------------------------------------------------------------------------
(* What a rebuild has seen of the mount.                                   *)

\* A file of the record is no longer what the view says.
Spoiled(r, view) == \/ Listed(r, "note", hidden) # view[r].note
                    \/ Listed(r, "event", hidden) # view[r].event

\* Whoever is owed a record was, and is, shown its note.
OwedIsListed(s) ==
    /\ \A r \in s.owed : View(hidden)[r].note > 0
    /\ s.pc \in {"l_read", "b_read", "b_publish"} => \A r \in s.owed : s.view[r].note > 0
    /\ s.pc = "done" /\ ~s.warned => \A r \in s.owed : s.rows[r].version > 0

\* The rows of a rebuild are those of its view, except where the second
\* fingerprint will differ from it.
RowsAreOfView(s) ==
    /\ s.pc = "b_read" =>
          /\ \A r \in Records : /\ s.view[r].note <= files[r].note
                                /\ s.view[r].event <= files[r].event
          /\ ~s.warned => \A r \in Records \ s.todo :
                s.rows[r] = RowOf(s.view[r].note, s.view[r].event) \/ Spoiled(r, s.view)
    /\ s.pc = "b_publish" /\ ~s.warned => s.rows = RowsOf(s.view)
    /\ s.pc \notin {"b_read", "b_publish", "done"} => s.rows = Empty

Good(s) == OwedIsListed(s) /\ RowsAreOfView(s)

ViewInv == CompleteIsExact /\ \A p \in Procs : Good(proc[p])

LEMMA ViewValue == \A r \in Records : /\ View(hidden)[r].note = Listed(r, "note", hidden)
                                      /\ View(hidden)[r].event = Listed(r, "event", hidden)
BY DEF View

LEMMA RowShown ==
    ASSUME NEW fp \in Fingerprint, NEW r \in Records, fp[r].note > 0
    PROVE  RowsOf(fp)[r].version > 0
<1>1. fp[r].note \in Nat /\ fp[r].event \in Nat
  BY DEF Fingerprint, Version
<1> QED BY <1>1 DEF RowsOf, RowOf

\* A step of one process, with the store as it is.
LEMMA GoodAside ==
    ASSUME TypeOK, ViewInv, NEW p \in Procs, NEW s, Becomes(p, s), Good(s),
           UNCHANGED mount, CompleteIsExact'
    PROVE  ViewInv'
<1>1. \A q \in Procs : proc'[q] = IF q = p THEN s ELSE proc[q]
  BY DEF Becomes, TypeOK
<1>2. \A q \in Procs : Good(proc'[q])
  BY <1>1 DEF ViewInv
<1>3. UNCHANGED <<files, hidden>>
  BY DEF mount
<1>4. \A q \in Procs : Good(proc[q])'
  BY <1>2, <1>3 DEF Good, OwedIsListed, RowsAreOfView, Spoiled, Listed, View
<1> QED BY <1>4 DEF ViewInv

\* Where nothing was read yet.
LEMMA QuietIsGood ==
    ASSUME TypeOK, ViewInv, NEW p \in Procs, NEW s,
           s.pc \notin {"l_read", "b_read", "b_publish", "done"},
           s.rows = Empty, s.owed \subseteq proc[p].owed
    PROVE  Good(s)
BY DEF ViewInv, Good, OwedIsListed, RowsAreOfView

LEMMA IdleIsGood == Good(Idle) /\ Idle.rows = Empty /\ Idle.owed = {}
BY DEF Good, Idle, OwedIsListed, RowsAreOfView

LEMMA ReturnsGood ==
    ASSUME TypeOK, ViewInv, NEW p \in Procs, NEW rows \in Rows, NEW warned \in BOOLEAN,
           Returns(p, rows, warned), UNCHANGED mount, CompleteIsExact',
           ~warned => \A r \in proc[p].owed : rows[r].version > 0
    PROVE  ViewInv'
<1> DEFINE d == [Idle EXCEPT !.pc = "done", !.kind = "load", !.rows = rows,
                             !.warned = warned, !.owed = proc[p].owed]
<1>1. Becomes(p, Idle) \/ Becomes(p, d)
  BY DEF Returns
<1>2. d.pc = "done" /\ d.rows = rows /\ d.warned = warned /\ d.owed = proc[p].owed
  BY DEF Idle
<1> HIDE DEF d
<1>3. Good(d)
  BY <1>2 DEF Good, OwedIsListed, RowsAreOfView, ViewInv
<1> QED BY <1>1, <1>3, IdleIsGood, GoodAside

LEMMA StartGood ==
    ASSUME TypeOK, ViewInv, NEW p \in Procs, Start(p)
    PROVE  ViewInv'
<1>1. UNCHANGED mount /\ CompleteIsExact'
  BY DEF Start, LoadStart, RefreshStart, PruneStart, ViewInv, CompleteIsExact, RowsOf
<1>2. CASE LoadStart(p)
  <2> DEFINE owed == {r \in Records : View(hidden)[r].note > 0}
             s == [Idle EXCEPT !.pc = "l_view", !.kind = "load", !.owed = owed]
  <2>1. Becomes(p, s) BY <1>2 DEF LoadStart
  <2>2. s.pc = "l_view" /\ s.rows = Empty /\ s.owed = owed
    BY DEF Idle
  <2> HIDE DEF s
  <2>3. Good(s)
    BY <2>2 DEF Good, OwedIsListed, RowsAreOfView
  <2> QED BY <1>1, <2>1, <2>3, GoodAside
<1>3. ASSUME NEW kind, NEW pc \in {"k_open", "u_open"},
             Becomes(p, [Idle EXCEPT !.pc = pc, !.kind = kind])
      PROVE  ViewInv'
  <2> DEFINE s == [Idle EXCEPT !.pc = pc, !.kind = kind]
  <2>1. s.pc = pc /\ s.rows = Empty /\ s.owed = {}
    BY DEF Idle
  <2> HIDE DEF s
  <2>2. Good(s) BY <2>1, QuietIsGood
  <2>3. Becomes(p, s) BY <1>3 DEF s
  <2> QED BY <1>1, <2>2, <2>3, GoodAside
<1> QED BY <1>2, <1>3 DEF Start, RefreshStart, PruneStart

LEMMA LoadGood ==
    ASSUME TypeOK, ViewInv, NEW p \in Procs, LoadView(p) \/ LoadRead(p) \/ LoadEnd(p)
    PROVE  ViewInv'
<1>1. UNCHANGED mount /\ CompleteIsExact'
  BY DEF LoadView, LoadRead, LoadEnd, ViewInv, CompleteIsExact, RowsOf
<1>2. proc[p] \in Process /\ Good(proc[p])
  BY DEF TypeOK, ViewInv
<1>3. CASE LoadView(p)
  <2> DEFINE s == [proc[p] EXCEPT !.view = View(hidden), !.pc = "l_read"]
  <2>1. Becomes(p, s) /\ proc[p].pc = "l_view" BY <1>3 DEF LoadView
  <2>2. /\ s.pc = "l_read" /\ s.rows = proc[p].rows /\ s.owed = proc[p].owed
        /\ s.view = View(hidden)
    BY <1>2 DEF Process
  <2> HIDE DEF s
  <2>3. Good(s)
    BY <1>2, <2>1, <2>2 DEF Good, OwedIsListed, RowsAreOfView
  <2> QED BY <1>1, <2>1, <2>3, GoodAside
<1>4. CASE LoadRead(p)
  <2>1. proc[p].pc = "l_read" /\ proc[p].rows = Empty
    BY <1>2, <1>4 DEF LoadRead, Good, RowsAreOfView
  <2>2. CASE IsFresh(proc[p].view) /\ Returns(p, cache.rows, ~cache.complete)
    <3>1. cache \in Generation /\ cache.rows \in Rows /\ cache.complete \in BOOLEAN
      BY <2>2 DEF IsFresh, TypeOK, Generation
    <3>2. cache.complete => cache.rows = RowsOf(proc[p].view)
      BY <2>2 DEF IsFresh, ViewInv, CompleteIsExact
    <3>3. proc[p].view \in Fingerprint /\ proc[p].owed \subseteq Records
      BY <1>2 DEF Process
    <3>4. \A r \in proc[p].owed : proc[p].view[r].note > 0
      BY <1>2, <2>1 DEF Good, OwedIsListed
    <3>5. cache.complete => \A r \in proc[p].owed : cache.rows[r].version > 0
      BY <3>2, <3>3, <3>4, RowShown
    <3>6. (~cache.complete) \in BOOLEAN
      BY Zenon
    <3> QED BY <1>1, <2>2, <3>1, <3>5, <3>6, ReturnsGood
  <2>3. ASSUME NEW pc \in {"b_start", "k_open"},
               Becomes(p, [proc[p] EXCEPT !.view = NoView, !.pc = pc])
        PROVE  ViewInv'
    <3> DEFINE s == [proc[p] EXCEPT !.view = NoView, !.pc = pc]
    <3>1. s.pc = pc /\ s.rows = Empty /\ s.owed = proc[p].owed
      BY <1>2, <2>1 DEF Process
    <3> HIDE DEF s
    <3>2. Good(s) BY <3>1, QuietIsGood
    <3>3. Becomes(p, s) BY <2>3 DEF s
    <3> QED BY <1>1, <3>2, <3>3, GoodAside
  <2>4. \/ IsFresh(proc[p].view) /\ Returns(p, cache.rows, ~cache.complete)
        \/ \E pc \in {"b_start", "k_open"} :
              Becomes(p, [proc[p] EXCEPT !.view = NoView, !.pc = pc])
    BY <1>4 DEF LoadRead
  <2> QED BY <2>2, <2>3, <2>4
<1>5. CASE LoadEnd(p)
  BY <1>1, <1>5, IdleIsGood, GoodAside DEF LoadEnd
<1> QED BY <1>3, <1>4, <1>5

LEMMA LockGood ==
    ASSUME TypeOK, ViewInv, NEW p \in Procs, LockOpen(p) \/ LockTry(p) \/ LockVerify(p)
    PROVE  ViewInv'
<1>1. UNCHANGED mount /\ CompleteIsExact'
  BY DEF LockOpen, LockTry, LockVerify, ViewInv, CompleteIsExact, RowsOf
<1>2. proc[p] \in Process /\ Good(proc[p]) /\ proc[p].rows = Empty
  BY DEF TypeOK, ViewInv, Good, RowsAreOfView, LockOpen, LockTry, LockVerify
<1>3. ASSUME NEW s, Becomes(p, s), s.pc \in {"k_open", "k_try", "k_verify", "l_view", "b_start"},
             s.rows = proc[p].rows, s.owed = proc[p].owed
      PROVE  ViewInv'
  <2>1. Good(s) BY <1>2, <1>3, QuietIsGood
  <2> QED BY <1>1, <1>3, <2>1, GoodAside
<1>4. CASE LockOpen(p)
  <2>1. PICK fd : Becomes(p, [proc[p] EXCEPT !.fd = fd, !.pc = "k_try"])
    BY <1>4 DEF LockOpen, Opens
  <2> DEFINE s == [proc[p] EXCEPT !.fd = fd, !.pc = "k_try"]
  <2>2. s.pc = "k_try" /\ s.rows = proc[p].rows /\ s.owed = proc[p].owed
    BY <1>2 DEF Process
  <2> QED BY <1>3, <2>1, <2>2
<1>5. CASE LockTry(p)
  <2>1. CASE Becomes(p, [proc[p] EXCEPT !.locked = TRUE, !.pc = "k_verify"])
    <3> DEFINE s == [proc[p] EXCEPT !.locked = TRUE, !.pc = "k_verify"]
    <3>1. s.pc = "k_verify" /\ s.rows = proc[p].rows /\ s.owed = proc[p].owed
      BY <1>2 DEF Process
    <3> QED BY <1>3, <2>1, <3>1
  <2>2. ASSUME NEW c, Becomes(p, [Unlocked(proc[p]) EXCEPT !.contended = c, !.pc = "k_open"])
        PROVE  ViewInv'
    <3> DEFINE s == [Unlocked(proc[p]) EXCEPT !.contended = c, !.pc = "k_open"]
    <3>1. s.pc = "k_open" /\ s.rows = proc[p].rows /\ s.owed = proc[p].owed
      BY <1>2 DEF Process, Unlocked
    <3> QED BY <1>3, <2>2, <3>1
  <2>3. CASE cache # <<>> /\ Returns(p, cache.rows, TRUE)
    <3>1. cache.rows \in Rows BY <2>3 DEF TypeOK, Generation
    <3> QED BY <1>1, <2>3, <3>1, ReturnsGood
  <2>4. CASE Becomes(p, Idle)
    BY <1>1, <2>4, IdleIsGood, GoodAside
  <2> QED BY <1>5, <2>1, <2>2, <2>3, <2>4 DEF LockTry
<1>6. CASE LockVerify(p)
  <2> DEFINE t == [Unlocked(proc[p]) EXCEPT !.pc = "k_open"]
             u == [proc[p] EXCEPT !.contended = FALSE, !.pc = "l_view"]
             v == [proc[p] EXCEPT !.pc = "b_start"]
  <2>1. Becomes(p, t) \/ Becomes(p, u) \/ Becomes(p, v)
    BY <1>6 DEF LockVerify
  <2>2. /\ t.pc = "k_open" /\ t.rows = proc[p].rows /\ t.owed = proc[p].owed
        /\ u.pc = "l_view" /\ u.rows = proc[p].rows /\ u.owed = proc[p].owed
        /\ v.pc = "b_start" /\ v.rows = proc[p].rows /\ v.owed = proc[p].owed
    BY <1>2 DEF Process, Unlocked
  <2> HIDE DEF t, u, v
  <2> QED BY <1>3, <2>1, <2>2
<1> QED BY <1>4, <1>5, <1>6

LEMMA PruneGood ==
    ASSUME TypeOK, ViewInv, NEW p \in Procs,
           PruneOpen(p) \/ PruneTry(p) \/ PruneVerify(p) \/ PruneUnlink(p)
    PROVE  ViewInv'
<1>1. UNCHANGED mount /\ CompleteIsExact'
  BY DEF PruneOpen, PruneTry, PruneVerify, PruneUnlink, ViewInv, CompleteIsExact, RowsOf
<1>2. proc[p] \in Process /\ Good(proc[p]) /\ proc[p].rows = Empty
  BY DEF TypeOK, ViewInv, Good, RowsAreOfView, PruneOpen, PruneTry, PruneVerify, PruneUnlink
<1> DEFINE t == [proc[p] EXCEPT !.fd = path, !.pc = "u_try"]
           u == [proc[p] EXCEPT !.locked = TRUE, !.pc = "u_verify"]
           v == [proc[p] EXCEPT !.pc = "u_unlink"]
<1>3. Becomes(p, Idle) \/ Becomes(p, t) \/ Becomes(p, u) \/ Becomes(p, v)
  BY DEF PruneOpen, PruneTry, PruneVerify, PruneUnlink
<1>4. /\ t.pc = "u_try" /\ t.rows = Empty /\ t.owed = proc[p].owed
      /\ u.pc = "u_verify" /\ u.rows = Empty /\ u.owed = proc[p].owed
      /\ v.pc = "u_unlink" /\ v.rows = Empty /\ v.owed = proc[p].owed
  BY <1>2 DEF Process
<1> HIDE DEF t, u, v
<1>5. Good(t) /\ Good(u) /\ Good(v) /\ Good(Idle)
  BY <1>4, QuietIsGood, IdleIsGood
<1> QED BY <1>1, <1>3, <1>5, GoodAside

\* A rebuild begins with empty rows, which is all there is to say about the
\* records that are not listed.
LEMMA BuildStartGood ==
    ASSUME TypeOK, ViewInv, NEW p \in Procs, BuildStart(p)
    PROVE  ViewInv'
<1>1. UNCHANGED mount /\ CompleteIsExact'
  BY DEF BuildStart, ViewInv, CompleteIsExact, RowsOf
<1>2. proc[p] \in Process /\ Good(proc[p]) /\ proc[p].rows = Empty
  BY DEF TypeOK, ViewInv, Good, RowsAreOfView, BuildStart
<1> DEFINE seen == View(hidden)
           todo == {r \in Records : seen[r].note > 0}
           s == [proc[p] EXCEPT !.view = seen, !.pc = "b_read", !.warned = FALSE, !.todo = todo]
<1>3. Becomes(p, s) BY DEF BuildStart
<1>4. /\ s.pc = "b_read" /\ s.rows = Empty /\ s.owed = proc[p].owed /\ s.view = seen
      /\ s.todo = todo
  BY <1>2 DEF Process
<1> HIDE DEF s
<1>9. \A r \in Records : /\ seen[r].note = Listed(r, "note", hidden)
                         /\ seen[r].event = Listed(r, "event", hidden)
  BY ViewValue
<1>10. seen \in Fingerprint
  BY ViewType DEF TypeOK
<1> HIDE DEF seen
<1>5. ASSUME NEW r \in Records
      PROVE  seen[r].note <= files[r].note /\ seen[r].event <= files[r].event
  <2>1. files[r].note \in Nat /\ files[r].event \in Nat
    BY DEF TypeOK, Fingerprint, Version
  <2>2. seen[r].note \in {0, files[r].note} /\ seen[r].event \in {0, files[r].event}
    BY <1>9 DEF Listed
  <2> QED BY <2>1, <2>2
<1>6. \A r \in Records \ todo : Empty[r] = RowOf(seen[r].note, seen[r].event)
  <2>1. \A r \in Records : seen[r].note \in Nat
    BY <1>10 DEF Fingerprint, Version
  <2>2. ASSUME NEW r \in Records \ todo PROVE seen[r].note = 0
    <3>1. ~(seen[r].note > 0)
      OBVIOUS
    <3> QED BY <2>1, <3>1
  <2> QED BY <2>2 DEF RowOf, Empty
<1>7. \A r \in s.owed : seen[r].note > 0
  BY <1>2, <1>4 DEF Good, OwedIsListed, seen
<1> HIDE DEF todo
<1>8. Good(s)
  BY <1>4, <1>5, <1>6, <1>7, <1>2 DEF Good, OwedIsListed, RowsAreOfView
<1> QED BY <1>1, <1>3, <1>8, GoodAside

LEMMA BuildReadGood ==
    ASSUME TypeOK, ViewInv, NEW p \in Procs, NEW r \in Records, BuildRead(p, r)
    PROVE  ViewInv'
<1>1. UNCHANGED mount /\ CompleteIsExact'
  BY DEF BuildRead, ViewInv, CompleteIsExact, RowsOf
<1>2. proc[p] \in Process /\ Good(proc[p]) /\ proc[p].pc = "b_read"
  BY DEF TypeOK, ViewInv, BuildRead
<1> DEFINE note  == Listed(r, "note", hidden)
           event == Listed(r, "event", hidden)
           s(row, failed) == [proc[p] EXCEPT !.todo = @ \ {r}, !.rows[r] = row,
                                             !.warned = proc[p].warned \/ failed]
<1>3. PICK row \in Row, failed \in BOOLEAN :
         Becomes(p, s(row, failed)) /\ (~failed => row = RowOf(note, event))
  <2> DEFINE missing == note = 0
  <2>1. missing \in BOOLEAN BY Zenon
  <2>2. RowOf(note, event) \in Row /\ NoRow \in Row /\ RowOf(note, 0) \in Row
    <3>1. note \in Version /\ event \in Version /\ 0 \in Version
      BY ListedType, IndexAssumption DEF TypeOK, Version
    <3> QED BY <3>1, RowType, IdleType
  <2>3. \/ Becomes(p, s(RowOf(note, event), missing))
        \/ Becomes(p, s(NoRow, TRUE)) \/ Becomes(p, s(RowOf(note, 0), TRUE))
    BY Zenon DEF BuildRead
  <2> HIDE DEF s, note, event, missing
  <2> QED BY <2>1, <2>2, <2>3
<1> DEFINE t == s(row, failed)
<1>4. /\ t.pc = "b_read" /\ t.owed = proc[p].owed /\ t.view = proc[p].view
      /\ t.todo = proc[p].todo \ {r}
      /\ t.rows = [proc[p].rows EXCEPT ![r] = row]
      /\ ~t.warned => ~proc[p].warned /\ ~failed
  BY <1>2 DEF Process
<1>5. Becomes(p, t) BY <1>3
<1> HIDE DEF t, s
<1>6. ~failed => \/ row = RowOf(proc[p].view[r].note, proc[p].view[r].event)
                 \/ Spoiled(r, proc[p].view)
  BY <1>3 DEF Spoiled
<1>7. \A q \in Records : t.rows[q] = IF q = r THEN row ELSE proc[p].rows[q]
  BY <1>2, <1>4 DEF Process, Rows
<1>8. RowsAreOfView(t)
  <2>1. ASSUME ~t.warned, NEW q \in Records \ t.todo
        PROVE  t.rows[q] = RowOf(t.view[q].note, t.view[q].event) \/ Spoiled(q, t.view)
    <3>1. CASE q = r BY <1>4, <1>6, <1>7, <2>1, <3>1
    <3>2. CASE q # r
      <4>1. q \in Records \ proc[p].todo /\ ~proc[p].warned BY <1>4, <2>1, <3>2
      <4>2. \/ proc[p].rows[q] = RowOf(proc[p].view[q].note, proc[p].view[q].event)
            \/ Spoiled(q, proc[p].view)
        BY <1>2, <4>1 DEF Good, RowsAreOfView
      <4> QED BY <4>2, <1>4, <1>7, <3>2
    <3> QED BY <3>1, <3>2
  <2>2. \A q \in Records : t.view[q].note <= files[q].note /\ t.view[q].event <= files[q].event
    BY <1>2, <1>4 DEF Good, RowsAreOfView
  <2> QED BY <2>1, <2>2, <1>4 DEF RowsAreOfView
<1>9. OwedIsListed(t)
  BY <1>2, <1>4 DEF Good, OwedIsListed
<1> QED BY <1>1, <1>5, <1>8, <1>9, GoodAside DEF Good

\* The second fingerprint is the view: nothing is spoiled, so every row is of
\* the view; and a merge that changes a row is a warning.
LEMMA BuildAfterGood ==
    ASSUME TypeOK, ViewInv, NEW p \in Procs, BuildAfter(p)
    PROVE  ViewInv'
<1>1. UNCHANGED mount /\ CompleteIsExact'
  BY DEF BuildAfter, ViewInv, CompleteIsExact, RowsOf
<1>2. proc[p] \in Process /\ Good(proc[p]) /\ proc[p].pc = "b_read" /\ proc[p].todo = {}
  BY DEF TypeOK, ViewInv, BuildAfter
<1> DEFINE after == View(hidden)
           rows == Merged(proc[p].rows)
           s == [proc[p] EXCEPT !.view = after, !.rows = rows, !.pc = "b_publish",
                                !.warned = proc[p].warned \/ rows # proc[p].rows]
<1>3. CASE proc[p].view = after /\ Becomes(p, s)
  <2>1. /\ s.pc = "b_publish" /\ s.owed = proc[p].owed /\ s.view = after /\ s.rows = rows
        /\ ~s.warned => ~proc[p].warned /\ rows = proc[p].rows
    BY <1>2 DEF Process
  <2> HIDE DEF s
  <2>2. ASSUME ~proc[p].warned PROVE proc[p].rows = RowsOf(after)
    <3>1. \A r \in Records : ~Spoiled(r, after)
      BY ViewValue DEF Spoiled
    <3>2. \A r \in Records : proc[p].rows[r] = RowOf(after[r].note, after[r].event)
      BY <1>2, <1>3, <2>2, <3>1 DEF Good, RowsAreOfView
    <3>3. proc[p].rows \in Rows
      BY <1>2 DEF Process
    <3> QED BY <3>2, <3>3 DEF Rows, RowsOf
  <2>3. \A r \in proc[p].owed : after[r].note > 0
    BY <1>2 DEF Good, OwedIsListed
  <2> HIDE DEF after, rows
  <2>4. Good(s)
    BY <2>1, <2>2, <2>3 DEF Good, OwedIsListed, RowsAreOfView, after
  <2> QED BY <1>1, <1>3, <2>4, GoodAside
<1>4. CASE cache # <<>> /\ Returns(p, cache.rows, TRUE)
  <2>1. cache.rows \in Rows BY <1>4 DEF TypeOK, Generation
  <2> QED BY <1>1, <1>4, <2>1, ReturnsGood
<1>5. CASE Becomes(p, Idle)
  BY <1>1, <1>5, IdleIsGood, GoodAside
<1> QED BY <1>3, <1>4, <1>5 DEF BuildAfter, SameView

LEMMA BuildPublishGood ==
    ASSUME TypeOK, ViewInv, NEW p \in Procs, BuildPublish(p)
    PROVE  ViewInv'
<1>1. UNCHANGED mount /\ Returns(p, proc[p].rows, proc[p].warned)
  BY DEF BuildPublish
<1>2. proc[p] \in Process /\ Good(proc[p]) /\ proc[p].pc = "b_publish"
  BY DEF TypeOK, ViewInv, BuildPublish
<1>3. ~proc[p].warned => proc[p].rows = RowsOf(proc[p].view)
  BY <1>2 DEF Good, RowsAreOfView
<1>4. cache'.rows = proc[p].rows /\ cache'.fingerprint = proc[p].view /\ cache'.complete = ~proc[p].warned
  BY DEF BuildPublish
<1>5. CompleteIsExact'
  BY <1>3, <1>4 DEF CompleteIsExact, RowsOf
<1>6. proc[p].view \in Fingerprint /\ proc[p].owed \subseteq Records /\ proc[p].warned \in BOOLEAN
      /\ proc[p].rows \in Rows
  BY <1>2 DEF Process
<1>7. \A r \in proc[p].owed : proc[p].view[r].note > 0
  BY <1>2 DEF Good, OwedIsListed
<1>8. ~proc[p].warned => \A r \in proc[p].owed : proc[p].rows[r].version > 0
  BY <1>3, <1>6, <1>7, RowShown
<1> QED BY <1>1, <1>5, <1>6, <1>8, ReturnsGood

\* While the processes stand still: what was spoiled stays spoiled, and what
\* was listed for somebody stays listed.
LEMMA GoodStays ==
    ASSUME ViewInv, NEW p \in Procs, NEW s, Good(proc[p]),
           s.pc = proc[p].pc, s.view = proc[p].view, s.rows = proc[p].rows,
           s.todo = proc[p].todo, s.warned = proc[p].warned, s.owed \subseteq proc[p].owed,
           \A r \in s.owed : Listed(r, "note", hidden)' > 0,
           \A r \in Records : s.pc = "b_read" =>
                /\ s.view[r].note <= files'[r].note /\ s.view[r].event <= files'[r].event
                /\ Spoiled(r, s.view) =>
                      \/ Listed(r, "note", hidden)' # s.view[r].note
                      \/ Listed(r, "event", hidden)' # s.view[r].event,
           proc'[p] = s, s.owed \subseteq Records
    PROVE  Good(proc[p])'
<1>1. OwedIsListed(proc[p])'
  BY DEF Good, OwedIsListed, View
<1>2. RowsAreOfView(proc[p])'
  BY DEF Good, RowsAreOfView, Spoiled
<1> QED BY <1>1, <1>2 DEF Good

LEMMA ArriveGood ==
    ASSUME TypeOK, ViewInv, NEW r \in Records, NEW k \in {"note", "event"}, Arrive(r, k)
    PROVE  ViewInv'
<1>1. CompleteIsExact' /\ UNCHANGED <<hidden, proc>>
  BY DEF Arrive, ViewInv, CompleteIsExact, RowsOf
<1>2. \A q \in Records : /\ files[q].note \in Nat /\ files[q].event \in Nat
                         /\ files'[q].note \in Nat /\ files'[q].event \in Nat
                         /\ files'[q].note >= files[q].note
                         /\ files'[q].event >= files[q].event
  <2>1. \A q \in Records : files[q] \in [note : Version, event : Version]
    BY DEF TypeOK, Fingerprint
  <2>2. files' = [files EXCEPT ![r] = [files[r] EXCEPT ![k] = files[r][k] + 1]]
    BY DEF Arrive
  <2>3. \A q \in Records : files'[q] = IF q = r THEN [files[r] EXCEPT ![k] = files[r][k] + 1]
                                       ELSE files[q]
    BY <2>2 DEF TypeOK, Fingerprint
  <2>4. \A q \in Records : files[q].note \in Nat /\ files[q].event \in Nat
    BY DEF TypeOK, Fingerprint, Version
  <2>5. /\ files'[r].note \in Nat /\ files'[r].event \in Nat
        /\ files'[r].note >= files[r].note /\ files'[r].event >= files[r].event
    <3>1. CASE k = "note"
      <4>1. files'[r].note = files[r].note + 1 /\ files'[r].event = files[r].event
        BY <2>1, <2>3, <3>1
      <4> QED BY <2>4, <4>1
    <3>2. CASE k = "event"
      <4>1. files'[r].event = files[r].event + 1 /\ files'[r].note = files[r].note
        BY <2>1, <2>3, <3>2
      <4> QED BY <2>4, <4>1
    <3> QED BY <3>1, <3>2
  <2>6. ASSUME NEW q \in Records, q # r PROVE files'[q] = files[q]
    BY <2>3, <2>6
  <2>7. ASSUME NEW q \in Records
        PROVE  /\ files[q].note \in Nat /\ files[q].event \in Nat
               /\ files'[q].note \in Nat /\ files'[q].event \in Nat
               /\ files'[q].note >= files[q].note /\ files'[q].event >= files[q].event
    <3>1. CASE q = r BY <2>4, <2>5, <3>1
    <3>2. CASE q # r BY <2>4, <2>6, <3>2
    <3> QED BY <3>1, <3>2
  <2> QED BY <2>7
<1>3. ASSUME NEW p \in Procs PROVE Good(proc[p])'
  <2>1. proc[p] \in Process /\ Good(proc[p]) /\ proc'[p] = proc[p]
    BY <1>1 DEF TypeOK, ViewInv
  <2>2. proc[p].owed \subseteq Records
    BY <2>1 DEF Process
  <2>3. \A q \in proc[p].owed : Listed(q, "note", hidden) > 0
    BY <2>1, <2>2, ViewValue DEF Good, OwedIsListed
  <2>4. ASSUME NEW q \in proc[p].owed PROVE Listed(q, "note", hidden)' > 0
    <3>1. q \in Records /\ <<q, "note">> \notin hidden /\ files[q].note > 0
      BY <2>2, <2>3 DEF Listed
    <3>2. files'[q].note > 0
      BY <1>2, <3>1
    <3> QED BY <1>1, <3>1, <3>2 DEF Listed
  <2>5. ASSUME NEW q \in Records, proc[p].pc = "b_read"
        PROVE  /\ proc[p].view[q].note <= files'[q].note
               /\ proc[p].view[q].event <= files'[q].event
               /\ Spoiled(q, proc[p].view) =>
                     \/ Listed(q, "note", hidden)' # proc[p].view[q].note
                     \/ Listed(q, "event", hidden)' # proc[p].view[q].event
    <3>1. proc[p].view[q].note <= files[q].note /\ proc[p].view[q].event <= files[q].event
      BY <2>1, <2>5 DEF Good, RowsAreOfView
    <3>2. proc[p].view[q].note \in Nat /\ proc[p].view[q].event \in Nat
      BY <2>1 DEF Process, Fingerprint, Version
    <3> QED BY <1>1, <1>2, <3>1, <3>2 DEF Spoiled, Listed
  <2> QED BY <2>1, <2>2, <2>4, <2>5, GoodStays
<1> QED BY <1>1, <1>3 DEF ViewInv

\* A file that a rebuild has listed can only go, and then it is spoiled; one
\* that it has not listed can only come.
LEMMA MountGood ==
    ASSUME ~MayFlicker, TypeOK, ViewInv, NEW f \in FileName, Hide(f) \/ Show(f)
    PROVE  ViewInv'
<1>1. CompleteIsExact' /\ UNCHANGED files
  BY DEF Hide, Show, ViewInv, CompleteIsExact, RowsOf
<1>2. \A q \in Records : files[q].note \in Nat /\ files[q].event \in Nat
  BY DEF TypeOK, Fingerprint, Version
<1>3. ASSUME NEW q \in Records, NEW k \in {"note", "event"}, <<q, k>> # f
      PROVE  Listed(q, k, hidden)' = Listed(q, k, hidden)
  BY <1>1, <1>3 DEF Hide, Show, Listed
<1>4. PICK r \in Records, k \in {"note", "event"} : f = <<r, k>>
  BY IndexAssumption DEF FileName
<1>5. ASSUME NEW p \in Procs PROVE Good(proc[p])'
  <2>1. proc[p] \in Process /\ Good(proc[p])
    BY DEF TypeOK, ViewInv
  <2>2. /\ proc'[p].pc = proc[p].pc /\ proc'[p].view = proc[p].view /\ proc'[p].rows = proc[p].rows
        /\ proc'[p].todo = proc[p].todo /\ proc'[p].warned = proc[p].warned
        /\ proc'[p].owed \subseteq proc[p].owed /\ proc'[p].owed \subseteq Records
        /\ Hide(f) => r \notin proc'[p].owed
    <3>1. CASE Show(f)
      <4>1. UNCHANGED proc /\ ~Hide(f) BY <3>1 DEF Show, Hide
      <4> QED BY <2>1, <4>1 DEF Process
    <3>2. CASE Hide(f)
      <4>1. proc'[p] = [proc[p] EXCEPT !.owed = @ \ {f[1]}] BY <3>2 DEF Hide
      <4> QED BY <1>4, <2>1, <4>1 DEF Process
    <3> QED BY <3>1, <3>2
  <2>3. \A q \in proc[p].owed : Listed(q, "note", hidden) > 0
    BY <2>1, ViewValue DEF Good, OwedIsListed, Process
  <2>4. ASSUME NEW q \in proc'[p].owed PROVE Listed(q, "note", hidden)' > 0
    <3>1. q \in Records /\ Listed(q, "note", hidden) > 0
      BY <2>2, <2>3
    <3>2. CASE <<q, "note">> # f BY <1>3, <3>1, <3>2
    <3>3. CASE <<q, "note">> = f
      <4>1. q = r BY <1>4, <3>3
      <4>2. Show(f) BY <2>2, <4>1
      <4>3. <<q, "note">> \in hidden BY <3>3, <4>2 DEF Show
      <4> QED BY <3>1, <4>3 DEF Listed
    <3> QED BY <3>2, <3>3
  <2>5. ASSUME NEW q \in Records, proc[p].pc = "b_read"
        PROVE  /\ proc[p].view[q].note <= files'[q].note
               /\ proc[p].view[q].event <= files'[q].event
               /\ Spoiled(q, proc[p].view) =>
                     \/ Listed(q, "note", hidden)' # proc[p].view[q].note
                     \/ Listed(q, "event", hidden)' # proc[p].view[q].event
    <3>1. proc[p].view[q].note <= files'[q].note /\ proc[p].view[q].event <= files'[q].event
      BY <1>1, <2>1, <2>5 DEF Good, RowsAreOfView
    <3>2. ASSUME NEW l \in {"note", "event"}, Listed(q, l, hidden) # proc[p].view[q][l]
          PROVE  Listed(q, l, hidden)' # proc[p].view[q][l]
      <4>1. CASE <<q, l>> # f BY <1>3, <3>2, <4>1
      <4>2. CASE <<q, l>> = f /\ Hide(f)
        <5>1. proc[p].view[q][l] > 0
          BY <4>2, <2>5 DEF Hide, OneWay
        <5>2. Listed(q, l, hidden)' = 0
          BY <4>2 DEF Hide, Listed
        <5> QED BY <5>1, <5>2
      <4>3. CASE <<q, l>> = f /\ Show(f)
        <5>1. Listed(q, l, hidden) = 0
          BY <4>3 DEF Show, Listed
        <5>2. ~(proc[p].view[q][l] > 0)
          BY <4>3, <2>5 DEF Show, OneWay
        <5>3. proc[p].view[q].note \in Nat /\ proc[p].view[q].event \in Nat
          BY <2>1 DEF Process, Fingerprint, Version
        <5>4. proc[p].view[q][l] \in Nat
          BY <5>3
        <5> QED BY <3>2, <5>1, <5>2, <5>4
      <4> QED BY <4>1, <4>2, <4>3
    <3> QED BY <3>1, <3>2 DEF Spoiled
  <2> QED BY <2>1, <2>2, <2>4, <2>5, GoodStays
<1> QED BY <1>1, <1>5 DEF ViewInv

LEMMA ViewStep ==
    ASSUME ~MayFlicker, TypeOK, ViewInv, [Next]_vars
    PROVE  ViewInv'
<1>1. ASSUME UNCHANGED <<files, hidden, cache, proc>> PROVE ViewInv'
  BY <1>1 DEF ViewInv, CompleteIsExact, RowsOf, Good, OwedIsListed, RowsAreOfView, Spoiled,
     Listed, View
<1>2. ASSUME NEW p \in Procs, Dies(p) PROVE ViewInv'
  <2>1. UNCHANGED mount /\ CompleteIsExact' /\ Becomes(p, Idle)
    BY <1>2 DEF Dies, ViewInv, CompleteIsExact, RowsOf
  <2> QED BY <2>1, IdleIsGood, GoodAside
<1>3. CASE Environment
  BY <1>1, <1>2, <1>3, ArriveGood, MountGood DEF Environment, RetryAges, mount
<1>4. ASSUME NEW p \in Procs, Start(p) \/ Step(p) PROVE ViewInv'
  BY <1>4, StartGood, LoadGood, LockGood, PruneGood, BuildStartGood, BuildReadGood,
     BuildAfterGood, BuildPublishGood DEF Step
<1> QED BY <1>1, <1>3, <1>4 DEF Next, vars

LEMMA ViewInvariant == ASSUME ~MayFlicker PROVE Spec => [](TypeOK /\ ViewInv)
<1>1. Init => ViewInv
  BY IdleIsGood DEF Init, ViewInv, CompleteIsExact, Good, OwedIsListed, RowsAreOfView, Idle
<1>2. TypeOK /\ ViewInv /\ [Next]_vars => ViewInv'
  BY ViewStep
<1> QED BY <1>1, <1>2, TriageTypeCorrect, PTL DEF Spec

\* On a mount where a file comes or goes at most once within a rebuild, rows
\* that say they are complete are those of the fingerprint in the header.
THEOREM CompleteGenerationsAreExact == ASSUME ~MayFlicker PROVE Spec => []CompleteIsExact
<1>1. TypeOK /\ ViewInv => CompleteIsExact
  BY DEF ViewInv
<1> QED BY <1>1, ViewInvariant, PTL

\* On such a mount, a read without a warning shows every memory that was
\* listed since the read began.
THEOREM SilentReadsAreCurrent == ASSUME ~MayFlicker PROVE Spec => []UnwarnedReadIsCurrent
<1>1. TypeOK /\ ViewInv => UnwarnedReadIsCurrent
  BY DEF ViewInv, Good, OwedIsListed, UnwarnedReadIsCurrent
<1> QED BY <1>1, ViewInvariant, PTL

-----------------------------------------------------------------------------
(* What a rebuild keeps of the previous generation.                        *)

\* The rows about to be published have all that the index in place has.
Covers(s) ==
    s.pc = "b_publish" /\ cache # <<>> =>
        \A r \in Records : cache.rows[r].version > 0 =>
            /\ s.rows[r].version > 0
            /\ cache.rows[r].paired => s.rows[r].paired

KeepsInv == \A p \in Procs : Covers(proc[p])

LEMMA MergedCovers ==
    ASSUME TypeOK, cache # <<>>, NEW rows \in Rows, NEW r \in Records,
           cache.rows[r].version > 0
    PROVE  /\ Merged(rows)[r].version > 0
           /\ cache.rows[r].paired => Merged(rows)[r].paired
<1>1. rows[r] \in Row /\ cache.rows[r] \in Row
  BY DEF Rows, TypeOK, Generation
<1>2. rows[r].version \in Nat
  BY <1>1 DEF Row, Version
<1>3. Merged(rows)[r] = IF Regressed(cache.rows[r], rows[r]) THEN cache.rows[r] ELSE rows[r]
  BY DEF Merged
<1> QED BY <1>2, <1>3 DEF Regressed

\* A call that returns is past the point of publishing.
LEMMA ReturnsElsewhere ==
    ASSUME TypeOK, NEW p \in Procs, NEW rows, NEW warned, Returns(p, rows, warned)
    PROVE  proc'[p].pc # "b_publish" /\ \E s : Becomes(p, s)
<1> DEFINE d == [Idle EXCEPT !.pc = "done", !.kind = "load", !.rows = rows,
                             !.warned = warned, !.owed = proc[p].owed]
<1>1. Idle.pc = "idle" /\ d.pc = "done"
  BY DEF Idle
<1>2. Becomes(p, IF proc[p].kind # "load" THEN Idle ELSE d)
  BY DEF Returns
<1> HIDE DEF d
<1>3. CASE proc[p].kind # "load"
  <2>1. Becomes(p, Idle)
    BY <1>2, <1>3
  <2>2. proc'[p] = Idle
    BY <2>1 DEF Becomes, TypeOK
  <2> QED BY <1>1, <2>1, <2>2
<1>4. CASE proc[p].kind = "load"
  <2>1. Becomes(p, d)
    BY <1>2, <1>4
  <2>2. proc'[p] = d
    BY <2>1 DEF Becomes, TypeOK
  <2> QED BY <1>1, <2>1, <2>2
<1> QED BY <1>3, <1>4

LEMMA KeepsStep ==
    ASSUME TypeOK, LockInv, KeepsInv, [Next]_vars
    PROVE  /\ KeepsInv'
           /\ \A r \in Records : cache # <<>> /\ cache.rows[r].version > 0 =>
                 /\ cache' # <<>> /\ cache'.rows[r].version > 0
                 /\ cache.rows[r].paired => cache'.rows[r].paired
<1> DEFINE Keeps == \A r \in Records : cache # <<>> /\ cache.rows[r].version > 0 =>
                       /\ cache' # <<>> /\ cache'.rows[r].version > 0
                       /\ cache.rows[r].paired => cache'.rows[r].paired
<1>1. ASSUME UNCHANGED cache,
             \A p \in Procs : \/ proc'[p].pc # "b_publish"
                              \/ proc'[p].pc = proc[p].pc /\ proc'[p].rows = proc[p].rows
      PROVE  KeepsInv' /\ Keeps
  BY <1>1 DEF KeepsInv, Covers
<1>2. ASSUME NEW p \in Procs, proc'[p].pc # "b_publish", UNCHANGED cache,
             \E s : Becomes(p, s)
      PROVE  KeepsInv' /\ Keeps
  <2>1. \A q \in Procs \ {p} : proc'[q] = proc[q]
    BY <1>2 DEF Becomes, TypeOK
  <2> QED BY <1>1, <1>2, <2>1
\* The points that processes reach otherwise.
<1>0. \A p \in Procs : /\ \A s : Becomes(p, s) => proc'[p] = s
                       /\ proc[p] \in Process
  BY DEF Becomes, TypeOK
<1>3. ASSUME NEW p \in Procs, BuildAfter(p) PROVE KeepsInv' /\ Keeps
  <2> DEFINE s == [proc[p] EXCEPT !.view = View(hidden), !.rows = Merged(proc[p].rows),
                     !.pc = "b_publish",
                     !.warned = proc[p].warned \/ Merged(proc[p].rows) # proc[p].rows]
  <2>1. proc[p] \in Process /\ proc[p].rows \in Rows /\ UNCHANGED cache
    BY <1>3 DEF TypeOK, Process, BuildAfter
  <2>2. CASE Becomes(p, s)
    <3>1. \A q \in Procs : proc'[q] = IF q = p THEN s ELSE proc[q]
      BY <2>2 DEF Becomes, TypeOK
    <3>2. s.rows = Merged(proc[p].rows)
      BY <2>1 DEF Process
    <3>3. Covers(s)
      BY <2>1, <3>2, MergedCovers DEF Covers
    <3> HIDE DEF s
    <3> QED BY <2>1, <3>1, <3>3 DEF KeepsInv, Covers
  <2>3. CASE Becomes(p, Idle) \/ Returns(p, cache.rows, TRUE)
    <3>1. CASE Becomes(p, Idle)
      <4>1. proc'[p] = Idle BY <1>0, <3>1
      <4>2. proc'[p].pc # "b_publish" BY <4>1 DEF Idle
      <4> QED BY <1>2, <2>1, <3>1, <4>2
    <3>2. CASE Returns(p, cache.rows, TRUE)
      BY <1>2, <2>1, <3>2, ReturnsElsewhere
    <3> QED BY <2>3, <3>1, <3>2
  <2> QED BY <1>3, <2>2, <2>3 DEF BuildAfter
<1>4. ASSUME NEW p \in Procs, BuildPublish(p) PROVE KeepsInv' /\ Keeps
  <2>1. /\ proc[p].pc = "b_publish" /\ Covers(proc[p])
        /\ cache' # <<>> /\ cache'.rows = proc[p].rows
    BY <1>4 DEF BuildPublish, KeepsInv
  <2>2. Keeps
    BY <2>1 DEF Covers
  <2>3. \A q \in Procs \ {p} : proc[q].pc # "b_publish"
    BY <2>1 DEF LockInv, Owns, Building
  <2>4. proc'[p].pc # "b_publish" /\ \A q \in Procs \ {p} : proc'[q] = proc[q]
    <3>1. \E rows, warned : Returns(p, rows, warned)
      BY <1>4 DEF BuildPublish
    <3>2. proc'[p].pc # "b_publish" /\ \E s : Becomes(p, s)
      BY <3>1, ReturnsElsewhere
    <3> QED BY <3>2 DEF Becomes, TypeOK
  <2>5. \A q \in Procs : proc'[q].pc # "b_publish"
    BY <2>3, <2>4
  <2> QED BY <2>2, <2>5 DEF KeepsInv, Covers
<1> HIDE DEF Keeps
<1>5. ASSUME NEW p \in Procs, Start(p) PROVE KeepsInv' /\ Keeps
  <2>1. /\ proc'[p].pc # "b_publish" /\ UNCHANGED cache
        /\ \E s : Becomes(p, s)
    BY <1>0, <1>5 DEF Start, LoadStart, RefreshStart, PruneStart, Idle
  <2> QED BY <1>2, <2>1
<1>6. ASSUME NEW p \in Procs, Step(p), ~BuildAfter(p), ~BuildPublish(p)
      PROVE  KeepsInv' /\ Keeps
  <2>1. UNCHANGED cache
    BY <1>6 DEF Step, LoadView, LoadRead, LoadEnd, LockOpen, LockTry, LockVerify, BuildStart,
       BuildRead, PruneOpen, PruneTry, PruneVerify, PruneUnlink
  <2>2. \E s : Becomes(p, s)
    BY <1>6 DEF Step, LoadView, LoadRead, LoadEnd, LockOpen, Opens, LockTry, LockVerify,
       Returns, BuildStart, BuildRead, PruneOpen, PruneTry, PruneVerify, PruneUnlink
  <2>3. proc'[p].pc # "b_publish"
    <3>1. "pc" \in DOMAIN proc[p] /\ "pc" \in DOMAIN Unlocked(proc[p])
      <4>1. proc[p] \in Process /\ Unlocked(proc[p]) \in Process
        BY <1>0, UnlockedType
      <4> QED BY <4>1 DEF Process
    <3>0. \A s : Becomes(p, s) => proc'[p] = s
      BY <1>0
    <3>2. ASSUME NEW rows, NEW warned, Returns(p, rows, warned)
          PROVE  proc'[p].pc # "b_publish"
      BY <3>2, ReturnsElsewhere
    <3>3. CASE LoadView(p) BY <3>0, <3>1, <3>3 DEF LoadView
    <3>4. CASE LoadRead(p)
      <4>1. CASE Returns(p, cache.rows, ~cache.complete) BY <3>2, <4>1
      <4>2. ASSUME NEW pc \in {"b_start", "k_open"},
                   Becomes(p, [proc[p] EXCEPT !.view = NoView, !.pc = pc])
            PROVE  proc'[p].pc # "b_publish"
        BY <3>0, <3>1, <4>2
      <4>3. \/ Returns(p, cache.rows, ~cache.complete)
            \/ \E pc \in {"b_start", "k_open"} :
                  Becomes(p, [proc[p] EXCEPT !.view = NoView, !.pc = pc])
        BY <3>4 DEF LoadRead
      <4> QED BY <4>1, <4>2, <4>3
    <3>5. CASE LockOpen(p) BY <3>0, <3>1, <3>5 DEF LockOpen, Opens
    <3>6. CASE LockTry(p)
      <4>1. CASE Returns(p, cache.rows, TRUE) BY <3>2, <4>1
      <4>2. CASE Becomes(p, Idle) BY <3>0, <4>2 DEF Idle
      <4>3. CASE Becomes(p, [proc[p] EXCEPT !.locked = TRUE, !.pc = "k_verify"])
        BY <3>0, <3>1, <4>3
      <4>4. CASE Becomes(p, [Unlocked(proc[p]) EXCEPT !.contended = (proc[p].kind = "load"),
                                                      !.pc = "k_open"])
        BY <3>0, <3>1, <4>4
      <4> QED BY <3>6, <4>1, <4>2, <4>3, <4>4 DEF LockTry
    <3>7. CASE LockVerify(p)
      <4>1. \/ proc'[p] = [Unlocked(proc[p]) EXCEPT !.pc = "k_open"]
            \/ proc'[p] = [proc[p] EXCEPT !.contended = FALSE, !.pc = "l_view"]
            \/ proc'[p] = [proc[p] EXCEPT !.pc = "b_start"]
        BY <3>0, <3>7 DEF LockVerify
      <4> QED BY <3>1, <4>1
    <3>8. CASE BuildStart(p) BY <3>0, <3>1, <3>8 DEF BuildStart
    <3>9. ASSUME NEW r \in Records, BuildRead(p, r) PROVE proc'[p].pc # "b_publish"
      <4>1. PICK row, failed : Becomes(p, [proc[p] EXCEPT !.todo = @ \ {r}, !.rows[r] = row,
                                                           !.warned = proc[p].warned \/ failed])
        BY <3>9 DEF BuildRead
      <4>2. proc'[p] = [proc[p] EXCEPT !.todo = @ \ {r}, !.rows[r] = row,
                                        !.warned = proc[p].warned \/ failed]
        BY <3>0, <4>1
      <4>3. proc[p].pc = "b_read"
        BY <3>9 DEF BuildRead
      <4>4. proc'[p].pc = proc[p].pc
        BY <3>1, <4>2
      <4> QED BY <4>3, <4>4
    <3>10. CASE \/ LoadEnd(p) \/ PruneOpen(p) \/ PruneTry(p) \/ PruneVerify(p)
                \/ PruneUnlink(p)
      <4>1. \/ proc'[p] = Idle
            \/ proc'[p] = [proc[p] EXCEPT !.fd = path, !.pc = "u_try"]
            \/ proc'[p] = [proc[p] EXCEPT !.locked = TRUE, !.pc = "u_verify"]
            \/ proc'[p] = [proc[p] EXCEPT !.pc = "u_unlink"]
        BY <3>0, <3>10 DEF LoadEnd, PruneOpen, PruneTry, PruneVerify, PruneUnlink
      <4>2. Idle.pc = "idle"
        BY DEF Idle
      <4> QED BY <3>1, <4>1, <4>2
    <3> QED BY <1>6, <3>3, <3>4, <3>5, <3>6, <3>7, <3>8, <3>9, <3>10 DEF Step
  <2> QED BY <1>2, <2>1, <2>2, <2>3
<1>7. ASSUME Environment PROVE KeepsInv' /\ Keeps
  <2>1. ASSUME NEW f \in FileName, Hide(f) PROVE KeepsInv' /\ Keeps
    <3>1. \A p \in Procs : proc'[p].pc = proc[p].pc /\ proc'[p].rows = proc[p].rows
      BY <2>1 DEF Hide, TypeOK, Process
    <3> QED BY <1>1, <2>1, <3>1 DEF Hide
  <2>2. ASSUME NEW p \in Procs, Dies(p) PROVE KeepsInv' /\ Keeps
    <3>1. Becomes(p, Idle) /\ UNCHANGED cache BY <2>2 DEF Dies
    <3>2. proc'[p] = Idle BY <1>0, <3>1
    <3>3. proc'[p].pc # "b_publish" BY <3>2 DEF Idle
    <3>4. \E s : Becomes(p, s) BY <3>1
    <3> QED BY <1>2, <3>1, <3>3, <3>4
  <2>3. ASSUME UNCHANGED <<cache, proc>> PROVE KeepsInv' /\ Keeps
    BY <1>1, <2>3
  <2>4. \/ UNCHANGED <<cache, proc>>
        \/ \E f \in FileName : Hide(f)
        \/ \E p \in Procs : Dies(p)
    BY <1>7 DEF Environment, Arrive, Show, RetryAges
  <2> QED BY <2>1, <2>2, <2>3, <2>4
<1>8. ASSUME UNCHANGED vars PROVE KeepsInv' /\ Keeps
  BY <1>1, <1>8 DEF vars
<1>9. KeepsInv' /\ Keeps
  BY <1>3, <1>4, <1>5, <1>6, <1>7, <1>8 DEF Next
<1> QED BY <1>9 DEF Keeps

\* A rebuild never takes a memory, or the event of one, out of the index,
\* whatever the mount shows (merge_regressed_snapshot): the previous generation
\* that it merged is still the one in place when it publishes.
THEOREM IndexNeverForgets == Spec => NothingForgotten
<1>1. Init => LockInv /\ KeepsInv
  BY DEF Init, LockInv, Idle, Owns, Building, Placed, Looks, KeepsInv, Covers
<1>2. TypeOK /\ LockInv /\ KeepsInv /\ [Next]_vars => LockInv' /\ KeepsInv'
  BY LockStep, KeepsStep
<1>3. TypeOK /\ LockInv /\ KeepsInv /\ [Next]_vars =>
         [\A r \in Records : cache # <<>> /\ cache.rows[r].version > 0 =>
            /\ cache' # <<>> /\ cache'.rows[r].version > 0
            /\ cache.rows[r].paired => cache'.rows[r].paired]_vars
  BY KeepsStep
<1> QED BY <1>1, <1>2, <1>3, TriageTypeCorrect, PTL DEF Spec, NothingForgotten

=============================================================================
