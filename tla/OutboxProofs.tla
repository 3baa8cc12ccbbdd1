---------------------------- MODULE OutboxProofs ----------------------------
(***************************************************************************)
(* Proofs about Outbox for every number of items, aliases, stores and      *)
(* processes, with or without hard links.  Each part builds on the ones    *)
(* before it:                                                              *)
(*                                                                         *)
(*   IInv        what a flush publishes is decided by the metadata it read *)
(*               long before.  Pending metadata names the identity its     *)
(*               hashes were computed from, on disk and in every process,  *)
(*               and a process writing under a root carries that root's    *)
(*               identity;                                                 *)
(*   effects     what each step does to the process that takes it;         *)
(*   CopyInv     a torn file has one copier, which is why a published file *)
(*               is never written again;                                   *)
(*   HomeInv     files, metadata and processes of one item all carry one   *)
(*               store, the home of the item;                              *)
(*   KeptInv     metadata in the outbox stands for a payload beside it, or *)
(*               for one that is delivered and archived;                   *)
(*   refinement  what a step does to what callers were promised is one     *)
(*               step of Delivery, or nothing.                             *)
(*                                                                         *)
(* HomeInv needs SerialBind: two binds of one item would write the payload *)
(* of one alias and the metadata of the other.  KeptInv also needs         *)
(* StableMounts: a flush whose store is unmounted after it read the        *)
(* manifest publishes below the mount point and removes the local copy.    *)
(***************************************************************************)
EXTENDS Outbox, TLAPS

MetaOK(m) == m.st = "pending" => m.hash = m.expected

InStore == Writing \cup Publishing \cup Binding \cup {"w_cache", "b_cache", "f_remove"}

\* What a process record satisfies at each of its steps.
ProcOK(s) ==
    /\ s.pc \notin {"idle", "f_item"} => s.at \in Places
    /\ s.pc \in InStore => s.root \in Roots /\ s.meta.hash = s.root
    /\ MetaOK(s.meta)

IInv ==
    /\ TypeOK
    /\ \A d \in Places : MetaOK(outbox[d].meta)
    /\ \A p \in Procs : ProcOK(proc[p])
    /\ NeverForeign

USE OutboxAssumption

-----------------------------------------------------------------------------
(* Constants have their types.                                             *)

LEMMA NoMetaType == NoMeta \in Meta /\ MetaOK(NoMeta)
BY DEF NoMeta, Meta, Owners, MetaOK

LEMMA FileTypes ==
    /\ Absent \in File /\ Torn \in File
    /\ Absent.st # "whole" /\ Torn.st # "whole"
    /\ \A o \in Owners : Whole(o) \in File /\ Whole(o).owner = o
BY DEF Absent, Torn, Whole, File, Owners

LEMMA NoDirType == NoDir \in Dir /\ NoDir.meta = NoMeta
BY NoMetaType, FileTypes DEF NoDir, Dir

LEMMA IdleType == Idle \in Process /\ ProcOK(Idle)
<1>1. NoAlias \in [Aliases -> Owners]
  BY DEF NoAlias, Owners
<1>2. Idle \in Process
  BY <1>1, NoMetaType DEF Idle, Process, Control, Parts, Result, Outcome, Owners
<1>3. ProcOK(Idle)
  BY NoMetaType DEF Idle, ProcOK, InStore, Writing, Publishing, Binding
<1> QED BY <1>2, <1>3

\* Replacing one process by a good one keeps all of them good.
LEMMA BecomesGood ==
    ASSUME IInv, NEW p \in Procs, NEW s \in Process, ProcOK(s), Becomes(p, s)
    PROVE  /\ proc' \in [Procs -> Process]
           /\ \A q \in Procs : ProcOK(proc'[q])
BY DEF IInv, TypeOK, Becomes

\* A file written under a root keeps the trees typed, and the stores free of
\* foreign files when its content is torn, absent or of that root.
LEMMA PutGood ==
    ASSUME IInv, NEW r \in Roots, NEW i \in Items, NEW k \in Parts,
           NEW f \in File, f.st = "whole" => f.owner = r, PutAt(r, i, k, f)
    PROVE  /\ canonical' \in Tree /\ phantom' \in Tree
           /\ NeverForeign'
<1>1. CASE r \in mounted
  <2>1. canonical' = [canonical EXCEPT ![r][i][k] = f] /\ phantom' = phantom
    BY <1>1 DEF PutAt
  <2>2. canonical \in Tree /\ phantom \in Tree /\ NeverForeign
    BY DEF IInv, TypeOK
  <2>3. /\ canonical' \in Tree
        /\ \A q \in Roots, j \in Items, l \in Parts :
              canonical'[q][j][l] = IF q = r /\ j = i /\ l = k THEN f
                                    ELSE canonical[q][j][l]
    BY <2>1, <2>2 DEF Tree
  <2> QED BY <2>1, <2>2, <2>3 DEF NeverForeign
<1>2. CASE r \notin mounted
  <2>1. phantom' = [phantom EXCEPT ![r][i][k] = f] /\ canonical' = canonical
    BY <1>2 DEF PutAt
  <2>2. canonical \in Tree /\ phantom \in Tree /\ NeverForeign
    BY DEF IInv, TypeOK
  <2>3. phantom' \in Tree
    BY <2>1, <2>2 DEF Tree
  <2> QED BY <2>1, <2>2, <2>3 DEF NeverForeign
<1> QED BY <1>1, <1>2

-----------------------------------------------------------------------------
(* hm remember keeps IInv.                                                 *)

LEMMA RememberOnlineKeeps ==
    ASSUME IInv, NEW p \in Procs, NEW i \in Items, NEW a \in Aliases,
           RememberOnline(p, i, a)
    PROVE  IInv'
<1> DEFINE s == [Idle EXCEPT !.pc = "w_cache", !.at = <<a, i>>,
                 !.root = config[a], !.cache = identities,
                 !.meta = [NoMeta EXCEPT !.store = a, !.expected = config[a],
                                         !.hash = config[a]]]
<1>1. Becomes(p, s) /\ config[a] \in Roots
  BY DEF RememberOnline, IInv, TypeOK, Owners
<1>2. s.meta \in Meta /\ MetaOK(s.meta)
  BY <1>1, NoMetaType, IdleType DEF NoMeta, Meta, MetaOK, Owners, Process
<1>3. /\ <<a, i>> \in Places /\ identities \in [Aliases -> Owners]
      /\ config[a] \in Owners /\ "w_cache" \in Control
  BY DEF Places, IInv, TypeOK, Control
<1>4. s \in Process /\ ProcOK(s)
  <2> HIDE DEF s
  <2> QED BY <1>1, <1>2, <1>3, IdleType, NoMetaType DEF s, Process, ProcOK, NoMeta, Meta
<1>5. proc' \in [Procs -> Process] /\ \A q \in Procs : ProcOK(proc'[q])
  BY <1>1, <1>4, BecomesGood
<1> QED BY <1>5 DEF RememberOnline, IInv, TypeOK, NeverForeign, stores, world

LEMMA RememberOfflineKeeps ==
    ASSUME IInv, NEW p \in Procs, NEW i \in Items, NEW a \in Aliases,
           RememberOffline(p, i, a)
    PROVE  IInv'
<1> DEFINE id == KnownIdentity(a)
           m  == [st |-> IF id = None THEN "unbound" ELSE "pending",
                  store |-> a, expected |-> id, hash |-> id]
           s  == [Idle EXCEPT !.pc = "q_note", !.at = <<a, i>>, !.meta = m]
<1>1. Becomes(p, s)
  BY DEF RememberOffline
<1>2. id \in Owners
  BY DEF KnownIdentity, IInv, TypeOK
<1>3. m \in Meta /\ MetaOK(m)
  BY <1>2 DEF Meta, MetaOK
<1>4. /\ <<a, i>> \in Places /\ "q_note" \in Control /\ "q_note" \notin InStore
  BY DEF Places, Control, InStore, Writing, Publishing, Binding
<1>6. s \in Process
  BY <1>3, <1>4, IdleType DEF Process
<1>7. ProcOK(s)
  BY <1>3, <1>4, <1>6, IdleType DEF ProcOK, Process
<1>5. proc' \in [Procs -> Process] /\ \A q \in Procs : ProcOK(proc'[q])
  BY <1>1, <1>6, <1>7, BecomesGood
<1> QED BY <1>5 DEF RememberOffline, IInv, TypeOK, NeverForeign, stores, world

LEMMA RecordIdentityKeeps ==
    ASSUME IInv, NEW p \in Procs, RecordIdentity(p)
    PROVE  IInv'
<1> DEFINE s == proc[p]
           t == IF s.pc = "w_cache" THEN [s EXCEPT !.pc = "w_put", !.cache = NoAlias]
                ELSE Idle
<1>1. s \in Process /\ ProcOK(s) /\ s.pc \in {"w_cache", "b_cache"}
  BY DEF IInv, TypeOK, RecordIdentity
<1>2. Becomes(p, t) /\ identities' = [s.cache EXCEPT ![s.meta.store] = s.root]
  BY DEF RecordIdentity
<1>3. identities' \in [Aliases -> Owners]
  BY <1>1, <1>2 DEF Process
<1>4. t \in Process
  BY <1>1, IdleType DEF Process, Control, Writing, NoAlias, Owners
<1>5. ProcOK(t)
  BY <1>1, IdleType DEF Process, ProcOK, InStore, Writing
<1>6. proc' \in [Procs -> Process] /\ \A q \in Procs : ProcOK(proc'[q])
  BY <1>2, <1>4, <1>5, BecomesGood
<1> QED BY <1>3, <1>6 DEF RecordIdentity, IInv, TypeOK, NeverForeign, stores, world

\* Where a process is: it has a directory, and under InStore a root whose
\* identity its metadata carries.
LEMMA InStoreFacts ==
    ASSUME IInv, NEW p \in Procs, proc[p].pc \notin {"idle", "f_item"}
    PROVE  /\ proc[p] \in Process
           /\ ProcOK(proc[p])
           /\ proc[p].at \in Places
           /\ Item(proc[p]) \in Items
           /\ proc[p].part \in Parts
           /\ proc[p].meta \in Meta /\ MetaOK(proc[p].meta)
           /\ Whole(proc[p].meta.hash) \in File
<1>1. proc[p] \in Process /\ ProcOK(proc[p]) /\ proc[p].at \in Places
  BY DEF IInv, TypeOK, ProcOK
<1>2. Item(proc[p]) \in Items
  BY <1>1 DEF Places, Item
<1> QED BY <1>1, <1>2, FileTypes DEF Process, ProcOK, Meta

LEMMA WroteFileGood ==
    ASSUME IInv, NEW p \in Procs, proc[p].pc \in Writing, WroteFile(p, proc[p])
    PROVE  /\ proc' \in [Procs -> Process]
           /\ \A q \in Procs : ProcOK(proc'[q])
           /\ remembered' \in [Items -> {"no", "started", "stored", "queued"}]
<1> DEFINE s == proc[p]
           t == [s EXCEPT !.pc = "w_put", !.part = "event"]
<1>1. s \in Process /\ ProcOK(s) /\ Item(s) \in Items
  BY InStoreFacts DEF Writing
<1>2. t \in Process
  BY <1>1 DEF Process, Control, Writing, Parts
<1>3. ProcOK(t)
  BY <1>1 DEF ProcOK, InStore, Writing, Process
<1>4. CASE s.part = "note" /\ Item(s) \in EventItems
  BY <1>2, <1>3, <1>4, BecomesGood DEF WroteFile, IInv, TypeOK
<1>5. CASE ~(s.part = "note" /\ Item(s) \in EventItems)
  <2>1. Becomes(p, Idle) /\ remembered' = [remembered EXCEPT ![Item(s)] = "stored"]
    BY <1>5 DEF WroteFile
  <2> QED BY <2>1, <1>1, IdleType, BecomesGood DEF IInv, TypeOK
<1> QED BY <1>4, <1>5

LEMMA WriteFileKeeps ==
    ASSUME IInv, NEW p \in Procs, WriteFile(p)
    PROVE  IInv'
<1> DEFINE s == proc[p]
           t == [s EXCEPT !.pc = "w_copy"]
<1>1. s.pc = "w_put" /\ s.pc \in Writing /\ s.pc \in InStore
  BY DEF WriteFile, Writing, InStore
<1>2. /\ s \in Process /\ ProcOK(s) /\ Item(s) \in Items /\ s.part \in Parts
      /\ s.root \in Roots
  BY <1>1, InStoreFacts DEF ProcOK
<1>3. Landed(s.root) \in File
      /\ (Landed(s.root).st = "whole" => Landed(s.root).owner = s.root)
  BY <1>2, FileTypes DEF Landed, Owners
<1>4. t \in Process /\ ProcOK(t)
  BY <1>1, <1>2 DEF Process, ProcOK, Control, Writing, InStore
<1>5. CASE /\ PutAt(s.root, Item(s), s.part, Landed(s.root))
           /\ IF Links THEN WroteFile(p, s)
              ELSE Becomes(p, t) /\ UNCHANGED remembered
  <2>1. canonical' \in Tree /\ phantom' \in Tree /\ NeverForeign'
    BY <1>2, <1>3, <1>5, PutGood
  <2>2. /\ proc' \in [Procs -> Process]
        /\ \A q \in Procs : ProcOK(proc'[q])
        /\ remembered' \in [Items -> {"no", "started", "stored", "queued"}]
    BY <1>1, <1>4, <1>5, WroteFileGood, BecomesGood DEF IInv, TypeOK
  <2> QED BY <2>1, <2>2 DEF WriteFile, IInv, TypeOK, world
<1>6. CASE Becomes(p, Idle) /\ UNCHANGED <<canonical, phantom, remembered>>
  <2>1. proc' \in [Procs -> Process] /\ \A q \in Procs : ProcOK(proc'[q])
    BY <1>6, IdleType, BecomesGood
  <2> QED BY <1>6, <2>1 DEF WriteFile, IInv, TypeOK, NeverForeign, world
<1> QED BY <1>5, <1>6 DEF WriteFile

LEMMA WriteCopiedKeeps ==
    ASSUME IInv, NEW p \in Procs, WriteCopied(p)
    PROVE  IInv'
<1> DEFINE s == proc[p]
<1>1. s.pc \in Writing /\ s.pc \in InStore /\ s.pc \notin {"idle", "f_item"}
  BY DEF WriteCopied, Writing, InStore
<1>2. /\ s \in Process /\ Item(s) \in Items /\ s.part \in Parts /\ s.root \in Roots
  BY <1>1, InStoreFacts DEF ProcOK
<1>3. Whole(s.root) \in File /\ Whole(s.root).owner = s.root /\ Absent \in File
  BY <1>2, FileTypes DEF Owners
<1>4. CASE /\ PutAt(s.root, Item(s), s.part, Whole(s.root))
           /\ WroteFile(p, s) /\ UNCHANGED faults
  <2>1. canonical' \in Tree /\ phantom' \in Tree /\ NeverForeign'
    BY <1>2, <1>3, <1>4, PutGood
  <2> QED BY <1>1, <1>4, <2>1, WroteFileGood DEF WriteCopied, IInv, TypeOK, world
<1>5. CASE /\ PutAt(s.root, Item(s), s.part, Absent)
           /\ faults < MaxFaults /\ faults' = faults + 1
           /\ Becomes(p, Idle) /\ UNCHANGED remembered
  <2>1. canonical' \in Tree /\ phantom' \in Tree /\ NeverForeign'
    BY <1>2, <1>3, <1>5, FileTypes, PutGood
  <2>2. proc' \in [Procs -> Process] /\ \A q \in Procs : ProcOK(proc'[q])
    BY <1>5, IdleType, BecomesGood
  <2>3. faults' \in 0..MaxFaults
    BY <1>5 DEF IInv, TypeOK
  <2> QED BY <1>5, <2>1, <2>2, <2>3 DEF WriteCopied, IInv, TypeOK, world
<1> QED BY <1>4, <1>5 DEF WriteCopied

LEMMA EnqueueNoteKeeps ==
    ASSUME IInv, NEW p \in Procs, EnqueueNote(p)
    PROVE  IInv'
<1> DEFINE s == proc[p]
           n == [NoDir EXCEPT !.exists = TRUE, !.note = Whole(s.meta.hash)]
           t == [s EXCEPT !.pc = IF Item(s) \in EventItems THEN "q_event" ELSE "q_meta"]
<1>1. s.pc = "q_note" /\ outbox' = [outbox EXCEPT ![s.at] = n] /\ Becomes(p, t)
  BY DEF EnqueueNote
<1>2. /\ s \in Process /\ ProcOK(s) /\ s.at \in Places
      /\ Whole(s.meta.hash) \in File
  BY <1>1, InStoreFacts
<1>3. n \in Dir /\ n.meta = NoMeta
  BY <1>2, NoDirType DEF Dir
<1>4. outbox' \in [Places -> Dir] /\ \A d \in Places : MetaOK(outbox'[d].meta)
  BY <1>1, <1>2, <1>3, NoMetaType DEF IInv, TypeOK
<1>5. t \in Process /\ ProcOK(t)
  BY <1>2 DEF Process, ProcOK, Control, InStore, Writing, Publishing, Binding
<1>6. proc' \in [Procs -> Process] /\ \A q \in Procs : ProcOK(proc'[q])
  BY <1>1, <1>5, BecomesGood
<1> QED BY <1>4, <1>6 DEF EnqueueNote, IInv, TypeOK, NeverForeign, stores, world

LEMMA EnqueueEventKeeps ==
    ASSUME IInv, NEW p \in Procs, EnqueueEvent(p)
    PROVE  IInv'
<1> DEFINE s == proc[p]
           t == [s EXCEPT !.pc = "q_meta"]
<1>1. /\ s.pc = "q_event" /\ Becomes(p, t)
      /\ outbox' = [outbox EXCEPT ![s.at].event = Whole(s.meta.hash)]
  BY DEF EnqueueEvent
<1>2. s \in Process /\ ProcOK(s) /\ s.at \in Places /\ Whole(s.meta.hash) \in File
  BY <1>1, InStoreFacts
<1>3. outbox' \in [Places -> Dir] /\ \A d \in Places : MetaOK(outbox'[d].meta)
  BY <1>1, <1>2 DEF IInv, TypeOK, Dir
<1>4. t \in Process /\ ProcOK(t)
  BY <1>2 DEF Process, ProcOK, Control, InStore, Writing, Publishing, Binding
<1>5. proc' \in [Procs -> Process] /\ \A q \in Procs : ProcOK(proc'[q])
  BY <1>1, <1>4, BecomesGood
<1> QED BY <1>3, <1>5 DEF EnqueueEvent, IInv, TypeOK, NeverForeign, stores, world

\* A directory whose metadata is replaced by good metadata stays good.
LEMMA SetMetaGood ==
    ASSUME IInv, NEW d \in Places, NEW m \in Meta, MetaOK(m),
           outbox' = [outbox EXCEPT ![d].meta = m]
    PROVE  outbox' \in [Places -> Dir] /\ \A c \in Places : MetaOK(outbox'[c].meta)
<1>1. outbox \in [Places -> Dir] /\ \A c \in Places : MetaOK(outbox[c].meta)
  BY DEF IInv, TypeOK
<1>2. [outbox[d] EXCEPT !.meta = m] \in Dir
  BY <1>1 DEF Dir
<1>3. outbox' = [outbox EXCEPT ![d] = [outbox[d] EXCEPT !.meta = m]]
  BY <1>1
<1> QED BY <1>1, <1>2, <1>3 DEF Dir

LEMMA EnqueueMetaKeeps ==
    ASSUME IInv, NEW p \in Procs, EnqueueMeta(p)
    PROVE  IInv'
<1> DEFINE s == proc[p]
<1>1. /\ s.pc = "q_meta" /\ Becomes(p, Idle)
      /\ outbox' = [outbox EXCEPT ![s.at].meta = s.meta]
      /\ remembered' = [remembered EXCEPT ![Item(s)] = "queued"]
  BY DEF EnqueueMeta
<1>2. s \in Process /\ s.at \in Places /\ s.meta \in Meta /\ MetaOK(s.meta)
  BY <1>1, InStoreFacts
<1>3. outbox' \in [Places -> Dir] /\ \A d \in Places : MetaOK(outbox'[d].meta)
  BY <1>1, <1>2, SetMetaGood
<1>4. proc' \in [Procs -> Process] /\ \A q \in Procs : ProcOK(proc'[q])
  BY <1>1, IdleType, BecomesGood
<1>5. remembered' \in [Items -> {"no", "started", "stored", "queued"}]
  BY <1>1 DEF IInv, TypeOK
<1> QED BY <1>3, <1>4, <1>5 DEF EnqueueMeta, IInv, TypeOK, NeverForeign, stores, world

-----------------------------------------------------------------------------
(* hm flush keeps IInv.                                                    *)

LEMMA FlushStartKeeps ==
    ASSUME IInv, NEW p \in Procs, FlushStart(p)
    PROVE  IInv'
<1> DEFINE t == [Idle EXCEPT !.pc = "f_item", !.cfg = config,
                 !.todo = {d \in Places : outbox[d].exists}]
<1>1. t \in Process
  BY IdleType DEF IInv, TypeOK, Process, Control
<1>2. ProcOK(t)
  BY IdleType DEF ProcOK, Process, InStore, Writing, Publishing, Binding
<1>3. proc' \in [Procs -> Process] /\ \A q \in Procs : ProcOK(proc'[q])
  BY <1>1, <1>2, BecomesGood DEF FlushStart
<1> QED BY <1>3 DEF FlushStart, IInv, TypeOK, NeverForeign, stores, world

\* A process between two items of its batch is good, whatever the outcome.
LEMMA BetweenItemsGood ==
    ASSUME IInv, NEW p \in Procs, NEW outcome \in Outcome,
           NEW todo \in SUBSET Places, NEW cfg \in [Aliases -> Owners],
           Becomes(p, [Idle EXCEPT !.pc = "f_item", !.cfg = cfg, !.todo = todo,
                                   !.out = outcome])
    PROVE  /\ proc' \in [Procs -> Process]
           /\ \A q \in Procs : ProcOK(proc'[q])
<1> DEFINE t == [Idle EXCEPT !.pc = "f_item", !.cfg = cfg, !.todo = todo,
                 !.out = outcome]
<1>1. t \in Process /\ ProcOK(t)
  BY IdleType DEF Process, ProcOK, Control, InStore, Writing, Publishing, Binding
<1> QED BY <1>1, BecomesGood

LEMMA ReportGood ==
    ASSUME IInv, NEW p \in Procs, NEW outcome \in Outcome, Report(p, outcome)
    PROVE  /\ proc' \in [Procs -> Process]
           /\ \A q \in Procs : ProcOK(proc'[q])
<1>1. proc[p].cfg \in [Aliases -> Owners] /\ proc[p].todo \in SUBSET Places
  BY DEF IInv, TypeOK, Process
<1> QED BY <1>1, BetweenItemsGood DEF Report

LEMMA PublishedGood ==
    ASSUME IInv, NEW p \in Procs, proc[p].pc \in Publishing,
           NEW result \in Result, Published(p, result)
    PROVE  /\ proc' \in [Procs -> Process]
           /\ \A q \in Procs : ProcOK(proc'[q])
<1> DEFINE s == proc[p]
           t == IF FollowedByEvent(s)
                THEN [s EXCEPT !.pc = "f_look", !.part = "event", !.res["note"] = result]
                ELSE [s EXCEPT !.pc = "f_settle", !.res[s.part] = result]
<1>1. s \in Process /\ ProcOK(s) /\ s.pc \in InStore /\ s.pc \notin {"idle", "f_item"}
  BY InStoreFacts DEF Publishing, InStore
<1>2. t \in Process
  BY <1>1 DEF Process, Parts, Control, Publishing
<1>3. ProcOK(t)
  BY <1>1 DEF Process, ProcOK, InStore, Publishing
<1> QED BY <1>2, <1>3, BecomesGood DEF Published

LEMMA FlushPickKeeps ==
    ASSUME IInv, NEW p \in Procs, NEW d \in Places, FlushPick(p, d)
    PROVE  IInv'
<1> DEFINE s == proc[p]
           m == outbox[d].meta
           r == s.cfg[m.store]
           t == [Idle EXCEPT !.pc = "f_look", !.cfg = s.cfg, !.todo = s.todo \ {d},
                 !.at = d, !.meta = m, !.root = r]
<1>1. /\ s.cfg \in [Aliases -> Owners] /\ s.todo \ {d} \in SUBSET Places
      /\ m \in Meta /\ MetaOK(m)
  BY DEF IInv, TypeOK, Process, Dir
<1>2. CASE \E outcome \in Outcome :
             Becomes(p, [Idle EXCEPT !.pc = "f_item", !.cfg = s.cfg,
                                     !.todo = s.todo \ {d}, !.out = outcome])
  <2>1. proc' \in [Procs -> Process] /\ \A q \in Procs : ProcOK(proc'[q])
    BY <1>1, <1>2, BetweenItemsGood
  <2> QED BY <2>1 DEF FlushPick, IInv, TypeOK, NeverForeign, stores, world
<1>3. CASE /\ m.st = "pending" /\ r # None /\ Gate(r, m) /\ Becomes(p, t)
  <2>1. r \in Roots /\ m.hash = r
    BY <1>1, <1>3 DEF Meta, MetaOK, Gate, Owners
  <2>2. t \in Process
    <3>1. r \in Owners /\ "f_look" \in Control
      BY <2>1 DEF Owners, Control, Publishing
    <3> HIDE DEF r, m, s
    <3> QED BY <1>1, <3>1, IdleType DEF Process
  <2>3. ProcOK(t)
    <3>1. "f_look" \in InStore
      BY DEF InStore, Publishing
    <3> HIDE DEF r, m, s
    <3> QED BY <1>1, <2>1, <2>2, <3>1, IdleType DEF ProcOK, Process
  <2>4. proc' \in [Procs -> Process] /\ \A q \in Procs : ProcOK(proc'[q])
    BY <1>3, <2>2, <2>3, BecomesGood
  <2> QED BY <2>4 DEF FlushPick, IInv, TypeOK, NeverForeign, stores, world
<1>4. {"skipped", "unbound", "failed", "pending"} \subseteq Outcome
  BY DEF Outcome
<1> QED BY <1>2, <1>3, <1>4 DEF FlushPick

LEMMA FlushLookKeeps ==
    ASSUME IInv, NEW p \in Procs, FlushLook(p)
    PROVE  IInv'
<1> DEFINE s == proc[p]
           t == [s EXCEPT !.pc = "f_put"]
<1>1. s.pc = "f_look" /\ s.pc \in Publishing /\ s.pc \in InStore
  BY DEF FlushLook, Publishing, InStore
<1>2. s \in Process /\ ProcOK(s)
  BY <1>1, InStoreFacts
<1>3. {"failed"} \subseteq Outcome /\ {"mismatch", "present", "conflict"} \subseteq Result
  BY DEF Outcome, Result
<1>4. \/ \E outcome \in Outcome : Report(p, outcome)
      \/ \E result \in Result : Published(p, result)
      \/ Becomes(p, t)
  BY <1>3 DEF FlushLook
<1>5. t \in Process /\ ProcOK(t)
  BY <1>1, <1>2 DEF Process, ProcOK, Control, Publishing, InStore
<1>6. proc' \in [Procs -> Process] /\ \A q \in Procs : ProcOK(proc'[q])
  BY <1>1, <1>4, <1>5, ReportGood, PublishedGood, BecomesGood
<1> QED BY <1>6 DEF FlushLook, IInv, TypeOK, NeverForeign, stores, world

LEMMA FlushPutKeeps ==
    ASSUME IInv, NEW p \in Procs, FlushPut(p)
    PROVE  IInv'
<1> DEFINE s == proc[p]
           t == [s EXCEPT !.pc = "f_copy"]
           f == Landed(s.meta.hash)
<1>1. s.pc = "f_put" /\ s.pc \in Publishing /\ s.pc \in InStore
  BY DEF FlushPut, Publishing, InStore
<1>2. /\ s \in Process /\ ProcOK(s) /\ Item(s) \in Items /\ s.part \in Parts
      /\ s.root \in Roots /\ s.meta.hash = s.root
  BY <1>1, InStoreFacts DEF ProcOK
<1>3. f \in File /\ (f.st = "whole" => f.owner = s.root)
  BY <1>2, FileTypes DEF Landed, Owners
<1>4. "failed" \in Outcome /\ {"written", "present", "conflict"} \subseteq Result
  BY DEF Outcome, Result
<1>5. t \in Process /\ ProcOK(t)
  BY <1>1, <1>2 DEF Process, ProcOK, Control, Publishing, InStore
<1>6. \/ Report(p, "failed") \/ Becomes(p, t)
      \/ \E result \in Result : Published(p, result)
  BY <1>4 DEF FlushPut
<1>7. proc' \in [Procs -> Process] /\ \A q \in Procs : ProcOK(proc'[q])
  BY <1>1, <1>4, <1>5, <1>6, ReportGood, PublishedGood, BecomesGood
<1>8. PutAt(s.root, Item(s), s.part, f) \/ UNCHANGED <<canonical, phantom>>
  BY DEF FlushPut
<1>9. canonical' \in Tree /\ phantom' \in Tree /\ NeverForeign'
  <2>1. CASE PutAt(s.root, Item(s), s.part, f)
    <3> HIDE DEF f, s
    <3> QED BY <1>2, <1>3, <2>1, PutGood
  <2>2. CASE UNCHANGED <<canonical, phantom>>
    BY <2>2 DEF IInv, TypeOK, NeverForeign
  <2> QED BY <1>8, <2>1, <2>2
<1> QED BY <1>7, <1>9 DEF FlushPut, IInv, TypeOK, world

LEMMA FlushCopiedKeeps ==
    ASSUME IInv, NEW p \in Procs, FlushCopied(p)
    PROVE  IInv'
<1> DEFINE s == proc[p]
<1>1. s.pc \in Publishing /\ s.pc \in InStore /\ s.pc \notin {"idle", "f_item"}
  BY DEF FlushCopied, Publishing, InStore
<1>2. /\ s \in Process /\ Item(s) \in Items /\ s.part \in Parts
      /\ s.root \in Roots /\ s.meta.hash = s.root
  BY <1>1, InStoreFacts DEF ProcOK
<1>3. Whole(s.meta.hash) \in File /\ Whole(s.meta.hash).owner = s.root
  BY <1>2, FileTypes DEF Owners
<1>4. "failed" \in Outcome /\ "written" \in Result
  BY DEF Outcome, Result
<1>5. CASE /\ PutAt(s.root, Item(s), s.part, Whole(s.meta.hash))
           /\ Published(p, "written") /\ UNCHANGED faults
  <2>1. canonical' \in Tree /\ phantom' \in Tree /\ NeverForeign'
    BY <1>2, <1>3, <1>5, PutGood
  <2>2. proc' \in [Procs -> Process] /\ \A q \in Procs : ProcOK(proc'[q])
    BY <1>1, <1>4, <1>5, PublishedGood
  <2> QED BY <1>5, <2>1, <2>2 DEF FlushCopied, IInv, TypeOK, world
<1>6. CASE /\ PutAt(s.root, Item(s), s.part, Absent)
           /\ faults < MaxFaults /\ faults' = faults + 1
           /\ Report(p, "failed")
  <2>1. canonical' \in Tree /\ phantom' \in Tree /\ NeverForeign'
    BY <1>2, <1>6, FileTypes, PutGood
  <2>2. proc' \in [Procs -> Process] /\ \A q \in Procs : ProcOK(proc'[q])
    BY <1>4, <1>6, ReportGood
  <2>3. faults' \in 0..MaxFaults
    BY <1>6 DEF IInv, TypeOK
  <2> QED BY <2>1, <2>2, <2>3 DEF FlushCopied, IInv, TypeOK, world
<1> QED BY <1>5, <1>6 DEF FlushCopied

\* Adding names to one entry of a root's archive keeps it typed.
LEMMA AddToTree ==
    ASSUME NEW S, NEW f \in [Roots -> [Items -> SUBSET S]],
           NEW r \in Roots, NEW i \in Items, NEW more \in SUBSET S
    PROVE  [f EXCEPT ![r][i] = @ \cup more] \in [Roots -> [Items -> SUBSET S]]
<1>1. f[r] \in [Items -> SUBSET S] /\ f[r][i] \cup more \in SUBSET S
  OBVIOUS
<1>2. [f[r] EXCEPT ![i] = f[r][i] \cup more] \in [Items -> SUBSET S]
  BY <1>1
<1> QED BY <1>2

LEMMA FlushSettleKeeps ==
    ASSUME IInv, NEW p \in Procs, FlushSettle(p)
    PROVE  IInv'
<1> DEFINE s == proc[p]
           t == [s EXCEPT !.pc = "f_remove"]
<1>1. s.pc = "f_settle" /\ s.pc \in InStore /\ s.pc \notin {"idle", "f_item"}
  BY DEF FlushSettle, Publishing, InStore
<1>2. /\ s \in Process /\ ProcOK(s) /\ Item(s) \in Items /\ s.root \in Roots
      /\ s.at \in Places
  BY <1>1, InStoreFacts DEF ProcOK
<1>3. t \in Process /\ ProcOK(t)
  BY <1>1, <1>2 DEF Process, ProcOK, Control, InStore
<1>4. Report(p, "failed") \/ Becomes(p, t)
  BY DEF FlushSettle
<1>5. proc' \in [Procs -> Process] /\ \A q \in Procs : ProcOK(proc'[q])
  BY <1>3, <1>4, ReportGood, BecomesGood DEF Outcome
<1>6. Snapshot(s.at) \subseteq {"meta", "note", "event"}
  BY DEF Snapshot, FilesIn, Parts
<1>7. archive' \in [Roots -> [Items -> SUBSET {"meta", "note", "event"}]]
  <2>1. \/ UNCHANGED archive
        \/ archive' = [archive EXCEPT ![s.root][Item(s)] = @ \cup Snapshot(s.at)]
    BY DEF FlushSettle
  <2>2. archive \in [Roots -> [Items -> SUBSET {"meta", "note", "event"}]]
    BY DEF IInv, TypeOK
  <2>3. CASE archive' = [archive EXCEPT ![s.root][Item(s)] = @ \cup Snapshot(s.at)]
    <3> DEFINE S == {"meta", "note", "event"}
    <3> HIDE DEF s, S
    <3>1. archive \in [Roots -> [Items -> SUBSET S]] /\ Snapshot(s.at) \in SUBSET S
      BY <1>6, <2>2 DEF S
    <3>2. archive' \in [Roots -> [Items -> SUBSET S]]
      BY <1>2, <2>3, <3>1, AddToTree
    <3> QED BY <3>2 DEF S
  <2> QED BY <2>1, <2>2, <2>3
<1> QED BY <1>5, <1>7 DEF FlushSettle, IInv, TypeOK, NeverForeign, world

\* Replacing one directory by a good one keeps all of them good.
LEMMA SetDirGood ==
    ASSUME IInv, NEW d \in Places, NEW n \in Dir, MetaOK(n.meta),
           outbox' = [outbox EXCEPT ![d] = n]
    PROVE  outbox' \in [Places -> Dir] /\ \A c \in Places : MetaOK(outbox'[c].meta)
BY DEF IInv, TypeOK

LEMMA FlushRemoveKeeps ==
    ASSUME IInv, NEW p \in Procs, FlushRemove(p)
    PROVE  IInv'
<1> DEFINE s == proc[p]
<1>1. s.pc = "f_remove" /\ s.pc \notin {"idle", "f_item"} /\ s.at \in Places
  BY InStoreFacts DEF FlushRemove
<1>2. {"skipped", "flushed"} \subseteq Outcome
  BY DEF Outcome
<1>3. CASE Report(p, "skipped") /\ UNCHANGED outbox
  <2>1. proc' \in [Procs -> Process] /\ \A q \in Procs : ProcOK(proc'[q])
    BY <1>2, <1>3, ReportGood
  <2> QED BY <1>3, <2>1 DEF FlushRemove, IInv, TypeOK, NeverForeign, stores, world
<1>4. CASE \E name \in FilesIn(s.at) :
             /\ outbox' = [outbox EXCEPT ![s.at] = WithoutFile(@, name)]
             /\ UNCHANGED proc
  <2>1. PICK name \in FilesIn(s.at) :
             /\ outbox' = [outbox EXCEPT ![s.at] = WithoutFile(outbox[s.at], name)]
             /\ UNCHANGED proc
    BY <1>4
  <2>2. name \in {"meta", "note", "event"}
    BY DEF FilesIn, Parts
  <2>3. outbox[s.at] \in Dir /\ MetaOK(outbox[s.at].meta)
    BY <1>1 DEF IInv, TypeOK
  <2>4. /\ WithoutFile(outbox[s.at], name) \in Dir
        /\ MetaOK(WithoutFile(outbox[s.at], name).meta)
    <3> HIDE DEF s
    <3> QED BY <2>2, <2>3, NoMetaType, FileTypes DEF WithoutFile, Dir
  <2>5. outbox' \in [Places -> Dir] /\ \A c \in Places : MetaOK(outbox'[c].meta)
    BY <1>1, <2>1, <2>4, SetDirGood
  <2> QED BY <2>1, <2>5 DEF FlushRemove, IInv, TypeOK, NeverForeign, stores, world
<1>5. CASE /\ outbox' = [outbox EXCEPT ![s.at] = NoDir]
           /\ \E outcome \in Outcome : Report(p, outcome)
  <2>1. proc' \in [Procs -> Process] /\ \A q \in Procs : ProcOK(proc'[q])
    BY <1>5, ReportGood
  <2>2. outbox' \in [Places -> Dir] /\ \A c \in Places : MetaOK(outbox'[c].meta)
    BY <1>1, <1>5, NoDirType, NoMetaType, SetDirGood
  <2> QED BY <2>1, <2>2 DEF FlushRemove, IInv, TypeOK, NeverForeign, stores, world
<1> QED BY <1>2, <1>3, <1>4, <1>5 DEF FlushRemove

LEMMA FlushEndKeeps ==
    ASSUME IInv, NEW p \in Procs, FlushEnd(p)
    PROVE  IInv'
<1>1. proc' \in [Procs -> Process] /\ \A q \in Procs : ProcOK(proc'[q])
  BY IdleType, BecomesGood DEF FlushEnd
<1> QED BY <1>1 DEF FlushEnd, IInv, TypeOK, NeverForeign, stores, world

-----------------------------------------------------------------------------
(* hm flush --bind keeps IInv.                                             *)

LEMMA BindStartKeeps ==
    ASSUME IInv, NEW p \in Procs, NEW i \in Items, NEW a \in Aliases,
           BindStart(p, i, a)
    PROVE  IInv'
<1> DEFINE m == [st |-> "pending", store |-> a, expected |-> config[a],
                 hash |-> config[a]]
<1>1. PICK b \in Aliases :
        /\ config[a] # None
        /\ Becomes(p, [Idle EXCEPT !.pc = "b_move", !.at = <<b, i>>,
                       !.root = config[a], !.meta = m])
  BY DEF BindStart
<1> DEFINE t == [Idle EXCEPT !.pc = "b_move", !.at = <<b, i>>, !.root = config[a],
                 !.meta = m]
<1>2. config[a] \in Roots
  BY <1>1 DEF IInv, TypeOK, Owners
<1>3. m \in Meta /\ MetaOK(m) /\ m.hash = config[a]
  BY <1>2 DEF Meta, MetaOK, Owners
<1>4. /\ <<b, i>> \in Places /\ config[a] \in Owners
      /\ "b_move" \in Control /\ "b_move" \in InStore
  BY <1>2 DEF Places, Owners, Control, InStore, Binding
<1>5. t \in Process /\ ProcOK(t)
  <2> HIDE DEF m
  <2> QED BY <1>2, <1>3, <1>4, IdleType DEF Process, ProcOK
<1>6. proc' \in [Procs -> Process] /\ \A q \in Procs : ProcOK(proc'[q])
  BY <1>1, <1>5, BecomesGood
<1> QED BY <1>6 DEF BindStart, IInv, TypeOK, NeverForeign, stores, world

\* The steps of bind_item that go on under the target alias.
LEMMA BindingFacts ==
    ASSUME IInv, NEW p \in Procs, proc[p].pc \in Binding
    PROVE  /\ proc[p] \in Process /\ ProcOK(proc[p]) /\ proc[p].at \in Places
           /\ Item(proc[p]) \in Items /\ proc[p].root \in Roots
           /\ proc[p].meta \in Meta /\ MetaOK(proc[p].meta)
           /\ Whole(proc[p].meta.hash) \in File
<1>1. proc[p].pc \in InStore /\ proc[p].pc \notin {"idle", "f_item"}
  BY DEF InStore, Binding
<1> QED BY <1>1, InStoreFacts DEF ProcOK

\* A step to another point of bind_item keeps the process good.
LEMMA BindGoesOn ==
    ASSUME IInv, NEW p \in Procs, proc[p].pc \in Binding,
           NEW next \in Binding, NEW d \in Places
    PROVE  /\ [proc[p] EXCEPT !.pc = next] \in Process
           /\ [proc[p] EXCEPT !.pc = next, !.at = d] \in Process
           /\ ProcOK([proc[p] EXCEPT !.pc = next])
           /\ ProcOK([proc[p] EXCEPT !.pc = next, !.at = d])
<1>1. /\ proc[p] \in Process /\ ProcOK(proc[p])
      /\ proc[p].pc \in InStore /\ proc[p].pc \notin {"idle", "f_item"}
  BY BindingFacts DEF Binding, InStore
<1>2. next \in Control /\ next \in InStore
  BY DEF Control, InStore
<1> QED BY <1>1, <1>2 DEF Process, ProcOK

LEMMA BindMoveKeeps ==
    ASSUME IInv, NEW p \in Procs, BindMove(p)
    PROVE  IInv'
<1> DEFINE s == proc[p]
           target == <<s.meta.store, Item(s)>>
           t == [s EXCEPT !.pc = "b_note", !.at = target]
<1>1. s.pc \in Binding /\ "b_note" \in Binding
  BY DEF BindMove, Binding
<1>2. s.at \in Places /\ target \in Places
  BY <1>1, BindingFacts DEF Places, Meta
<1>3. t \in Process /\ ProcOK(t)
  <2> HIDE DEF target
  <2> QED BY <1>1, <1>2, BindGoesOn
<1>4. Becomes(p, t) \/ Becomes(p, Idle)
  BY DEF BindMove
<1>5. proc' \in [Procs -> Process] /\ \A q \in Procs : ProcOK(proc'[q])
  BY <1>3, <1>4, IdleType, BecomesGood
<1>6. \/ UNCHANGED outbox
      \/ outbox' = [outbox EXCEPT ![target] = outbox[s.at], ![s.at] = NoDir]
  BY DEF BindMove
<1>7. outbox' \in [Places -> Dir] /\ \A c \in Places : MetaOK(outbox'[c].meta)
  <2> HIDE DEF target, s
  <2> QED BY <1>2, <1>6, NoDirType, NoMetaType DEF IInv, TypeOK
<1> QED BY <1>5, <1>7 DEF BindMove, IInv, TypeOK, NeverForeign, stores, world

LEMMA BindNoteKeeps ==
    ASSUME IInv, NEW p \in Procs, BindNote(p)
    PROVE  IInv'
<1> DEFINE s == proc[p]
           n == [outbox[s.at] EXCEPT !.exists = TRUE, !.note = Whole(s.meta.hash)]
<1>1. s.pc \in Binding /\ {"b_event", "b_meta"} \subseteq Binding
  BY DEF BindNote, Binding
<1>2. s.at \in Places /\ Whole(s.meta.hash) \in File
  BY <1>1, BindingFacts
<1>3. n \in Dir /\ MetaOK(n.meta)
  <2>1. outbox[s.at] \in Dir /\ MetaOK(outbox[s.at].meta)
    BY <1>2 DEF IInv, TypeOK
  <2> QED BY <1>2, <2>1 DEF Dir
<1>4. outbox' = [outbox EXCEPT ![s.at] = n]
  BY <1>2 DEF BindNote, IInv, TypeOK
<1>5. outbox' \in [Places -> Dir] /\ \A c \in Places : MetaOK(outbox'[c].meta)
  BY <1>2, <1>3, <1>4, SetDirGood
<1>6. \/ Becomes(p, Idle)
      \/ \E next \in {"b_event", "b_meta"} : Becomes(p, [s EXCEPT !.pc = next])
  BY DEF BindNote
<1>7. proc' \in [Procs -> Process] /\ \A q \in Procs : ProcOK(proc'[q])
  BY <1>1, <1>2, <1>6, IdleType, BindGoesOn, BecomesGood
<1> QED BY <1>5, <1>7 DEF BindNote, IInv, TypeOK, NeverForeign, stores, world

LEMMA BindEventKeeps ==
    ASSUME IInv, NEW p \in Procs, BindEvent(p)
    PROVE  IInv'
<1> DEFINE s == proc[p]
           n == [outbox[s.at] EXCEPT !.exists = TRUE, !.event = Whole(s.meta.hash)]
<1>1. s.pc \in Binding /\ "b_meta" \in Binding
  BY DEF BindEvent, Binding
<1>2. s.at \in Places /\ Whole(s.meta.hash) \in File
  BY <1>1, BindingFacts
<1>3. n \in Dir /\ MetaOK(n.meta)
  <2>1. outbox[s.at] \in Dir /\ MetaOK(outbox[s.at].meta)
    BY <1>2 DEF IInv, TypeOK
  <2> QED BY <1>2, <2>1 DEF Dir
<1>4. outbox' = [outbox EXCEPT ![s.at] = n]
  BY <1>2 DEF BindEvent, IInv, TypeOK
<1>5. outbox' \in [Places -> Dir] /\ \A c \in Places : MetaOK(outbox'[c].meta)
  BY <1>2, <1>3, <1>4, SetDirGood
<1>6. proc' \in [Procs -> Process] /\ \A q \in Procs : ProcOK(proc'[q])
  BY <1>1, <1>2, BindGoesOn, BecomesGood DEF BindEvent
<1> QED BY <1>5, <1>6 DEF BindEvent, IInv, TypeOK, NeverForeign, stores, world

LEMMA BindMetaKeeps ==
    ASSUME IInv, NEW p \in Procs, BindMeta(p)
    PROVE  IInv'
<1> DEFINE s == proc[p]
           n == [outbox[s.at] EXCEPT !.exists = TRUE, !.meta = s.meta]
           t == [s EXCEPT !.pc = "b_cache", !.cache = identities]
<1>1. s.pc \in Binding /\ s.pc \in InStore /\ s.pc \notin {"idle", "f_item"}
  BY DEF BindMeta, Binding, InStore
<1>2. /\ s \in Process /\ ProcOK(s) /\ s.at \in Places
      /\ s.meta \in Meta /\ MetaOK(s.meta)
  BY <1>1, BindingFacts
<1>3. n \in Dir /\ MetaOK(n.meta)
  <2>1. outbox[s.at] \in Dir
    BY <1>2 DEF IInv, TypeOK
  <2> QED BY <1>2, <2>1 DEF Dir
<1>4. outbox' = [outbox EXCEPT ![s.at] = n]
  BY <1>2 DEF BindMeta, IInv, TypeOK
<1>5. outbox' \in [Places -> Dir] /\ \A c \in Places : MetaOK(outbox'[c].meta)
  BY <1>2, <1>3, <1>4, SetDirGood
<1>6. identities \in [Aliases -> Owners] /\ "b_cache" \in Control /\ "b_cache" \in InStore
  BY DEF IInv, TypeOK, Control, InStore
<1>7. t \in Process /\ ProcOK(t)
  BY <1>1, <1>2, <1>6 DEF Process, ProcOK
<1>8. proc' \in [Procs -> Process] /\ \A q \in Procs : ProcOK(proc'[q])
  BY <1>7, BecomesGood DEF BindMeta
<1> QED BY <1>5, <1>8 DEF BindMeta, IInv, TypeOK, NeverForeign, stores, world

-----------------------------------------------------------------------------
(* The environment keeps IInv.                                             *)

LEMMA MountKeeps ==
    ASSUME IInv, NEW r \in Roots, Mount(r) \/ Unmount(r)
    PROVE  IInv'
BY DEF Mount, Unmount, IInv, TypeOK, NeverForeign, stores

LEMMA RepointKeeps ==
    ASSUME IInv, NEW a \in Aliases, NEW r \in Owners, Repoint(a, r)
    PROVE  IInv'
BY DEF Repoint, IInv, TypeOK, NeverForeign, stores

LEMMA EditKeeps ==
    ASSUME IInv, NEW r \in Roots, NEW i \in Items, NEW k \in Parts, Edit(r, i, k)
    PROVE  IInv'
<1> DEFINE f == [canonical[r][i][k] EXCEPT !.edited = TRUE]
<1>1. canonical \in Tree /\ canonical[r][i][k] \in File /\ NeverForeign
  BY DEF IInv, TypeOK, Tree
<1>2. f \in File /\ (f.st = "whole" => f.owner = r)
  BY <1>1 DEF File, NeverForeign
<1>3. r \in mounted /\ phantom' = phantom
      /\ canonical' = [canonical EXCEPT ![r][i][k] = f]
  BY <1>1 DEF Edit, Tree
<1>4. PutAt(r, i, k, f)
  <2> HIDE DEF f
  <2> QED BY <1>3 DEF PutAt
<1>5. canonical' \in Tree /\ phantom' \in Tree /\ NeverForeign'
  <2> HIDE DEF f
  <2> QED BY <1>2, <1>4, PutGood
<1> QED BY <1>5 DEF Edit, IInv, TypeOK, world

LEMMA CrashKeeps ==
    ASSUME IInv, NEW p \in Procs, Crash(p)
    PROVE  IInv'
<1>1. proc' \in [Procs -> Process] /\ \A q \in Procs : ProcOK(proc'[q])
  BY IdleType, BecomesGood DEF Crash
<1>2. faults' \in 0..MaxFaults
  BY DEF Crash, IInv, TypeOK
<1> QED BY <1>1, <1>2 DEF Crash, IInv, TypeOK, NeverForeign, stores, world

-----------------------------------------------------------------------------
(* The invariant.                                                          *)

LEMMA InitIInv == Init => IInv
<1> SUFFICES ASSUME Init PROVE IInv
  OBVIOUS
<1>1. canonical \in Tree /\ phantom \in Tree
  BY FileTypes DEF Init, NoTree, Tree
<1>2. outbox \in [Places -> Dir] /\ \A d \in Places : MetaOK(outbox[d].meta)
  BY NoDirType, NoMetaType DEF Init
<1>3. proc \in [Procs -> Process] /\ \A p \in Procs : ProcOK(proc[p])
  BY IdleType DEF Init
<1>4. NeverForeign
  BY FileTypes DEF Init, NoTree, NeverForeign
<1>5. /\ archive \in [Roots -> [Items -> SUBSET {"meta", "note", "event"}]]
      /\ remembered \in [Items -> {"no", "started", "stored", "queued"}]
      /\ mounted \subseteq Roots /\ faults \in 0..MaxFaults
      /\ config \in [Aliases -> Owners] /\ identities \in [Aliases -> Owners]
  BY DEF Init
<1> QED BY <1>1, <1>2, <1>3, <1>4, <1>5 DEF IInv, TypeOK

LEMMA Inductive == IInv /\ [Next]_vars => IInv'
<1> SUFFICES ASSUME IInv, [Next]_vars PROVE IInv'
  OBVIOUS
<1>1. CASE Environment
  BY <1>1, MountKeeps, RepointKeeps, EditKeeps, CrashKeeps DEF Environment
<1>2. ASSUME NEW p \in Procs, Start(p) PROVE IInv'
  BY <1>2, RememberOnlineKeeps, RememberOfflineKeeps, BindStartKeeps, FlushStartKeeps
     DEF Start
<1>3. ASSUME NEW p \in Procs, RememberStep(p) PROVE IInv'
  BY <1>3, RecordIdentityKeeps, WriteFileKeeps, WriteCopiedKeeps, EnqueueNoteKeeps,
     EnqueueEventKeeps, EnqueueMetaKeeps DEF RememberStep
<1>4. ASSUME NEW p \in Procs, FlushStep(p) PROVE IInv'
  BY <1>4, FlushPickKeeps, FlushLookKeeps, FlushPutKeeps, FlushCopiedKeeps,
     FlushSettleKeeps, FlushRemoveKeeps, FlushEndKeeps DEF FlushStep
<1>5. ASSUME NEW p \in Procs, BindStep(p) PROVE IInv'
  BY <1>5, BindMoveKeeps, BindNoteKeeps, BindEventKeeps, BindMetaKeeps DEF BindStep
<1>6. CASE UNCHANGED vars
  BY <1>6 DEF vars, IInv, TypeOK, NeverForeign
<1> QED BY <1>1, <1>2, <1>3, <1>4, <1>5, <1>6 DEF Next, Step

LEMMA Invariance == Spec => []IInv
BY InitIInv, Inductive, PTL DEF Spec

\* Every variable of every process and every store keeps its type, for any
\* number of processes racing on the outbox.
THEOREM TypeCorrect == Spec => []TypeOK
<1>1. IInv => TypeOK
  BY DEF IInv
<1> QED BY <1>1, Invariance, PTL

\* A memory never lands in a store it does not belong to: the manifest gate of
\* flush_item suffices for any number of items, aliases, stores and flushers,
\* through re-pointed aliases, stale caches, binds, crashes and unmounts.
THEOREM NoForeignMemory == Spec => []NeverForeign
<1>1. IInv => NeverForeign
  BY DEF IInv
<1> QED BY <1>1, Invariance, PTL


-----------------------------------------------------------------------------
(* What each step does to the process that takes it.                       *)

Gone(p) == proc'[p].pc \in {"idle", "f_item"}
SameJob(p) == /\ proc'[p].at = proc[p].at
              /\ proc'[p].root = proc[p].root
              /\ proc'[p].meta = proc[p].meta
OthersSame(p) == \A q \in Procs \ {p} : proc'[q] = proc[q]

LEMMA BecomesDoes ==
    ASSUME IInv, NEW p \in Procs, NEW s, Becomes(p, s)
    PROVE  proc'[p] = s /\ OthersSame(p)
BY DEF IInv, TypeOK, Becomes, OthersSame

LEMMA IdleFields == /\ Idle.pc = "idle" /\ Idle.part = "note" /\ Idle.at = <<>>
                    /\ Idle.root = None /\ Idle.meta = NoMeta
                    /\ \A k \in Parts : Idle.res[k] = "none"
BY DEF Idle

\* A report ends the work on an item.
LEMMA ReportDoes ==
    ASSUME IInv, NEW p \in Procs, NEW outcome, Report(p, outcome)
    PROVE  Gone(p) /\ OthersSame(p)
<1> DEFINE t == [Idle EXCEPT !.pc = "f_item", !.cfg = proc[p].cfg,
                             !.todo = proc[p].todo, !.out = outcome]
<1>1. Becomes(p, t)
  BY DEF Report
<1>2. t.pc = "f_item"
  BY DEF Idle
<1> HIDE DEF t
<1> QED BY <1>1, <1>2, BecomesDoes DEF Gone

LEMMA RestDoes ==
    ASSUME IInv, NEW p \in Procs, Becomes(p, Idle)
    PROVE  Gone(p) /\ OthersSame(p)
BY BecomesDoes, IdleFields DEF Gone

\* A file that a process writes under a root.
LEMMA PutDoes ==
    ASSUME IInv, NEW r \in Roots, NEW i \in Items, NEW k \in Parts, NEW f, PutAt(r, i, k, f)
    PROVE  \A q \in Roots, j \in Items, l \in Parts :
              canonical'[q][j][l] = IF r \in mounted /\ q = r /\ j = i /\ l = k THEN f
                                    ELSE canonical[q][j][l]
<1>1. canonical \in Tree
  BY DEF IInv, TypeOK
<1>2. CASE r \in mounted
  BY <1>1, <1>2 DEF PutAt, Tree
<1>3. CASE r \notin mounted
  BY <1>3 DEF PutAt
<1> QED BY <1>2, <1>3

\* The process has a job: an item, a directory and, under InStore, a root.
LEMMA JobFacts ==
    ASSUME IInv, NEW p \in Procs, proc[p].pc \notin {"idle", "f_item"}
    PROVE  /\ proc[p] \in Process /\ proc[p].at \in Places
           /\ Item(proc[p]) \in Items /\ proc[p].part \in Parts
           /\ proc[p].meta \in Meta /\ MetaOK(proc[p].meta)
           /\ proc[p].pc \in InStore => proc[p].root \in Roots
           /\ proc[p].pc \in InStore => proc[p].meta.hash = proc[p].root
BY InStoreFacts DEF ProcOK

LEMMA RememberOnlineDoes ==
    ASSUME IInv, NEW p \in Procs, NEW i \in Items, NEW a \in Aliases,
           RememberOnline(p, i, a)
    PROVE  /\ proc'[p].pc = "w_cache" /\ proc'[p].at = <<a, i>>
           /\ proc'[p].root \in mounted /\ proc'[p].root \in Roots
           /\ proc'[p].part = "note" /\ OthersSame(p)
<1> DEFINE t == [Idle EXCEPT !.pc = "w_cache", !.at = <<a, i>>,
                 !.root = config[a], !.cache = identities,
                 !.meta = [NoMeta EXCEPT !.store = a, !.expected = config[a],
                                         !.hash = config[a]]]
<1>1. Becomes(p, t) /\ config[a] \in Roots /\ config[a] \in mounted
  BY DEF RememberOnline, IInv, TypeOK, Owners, Reachable
<1>2. t.pc = "w_cache" /\ t.at = <<a, i>> /\ t.root = config[a] /\ t.part = "note"
  BY DEF Idle
<1> HIDE DEF t
<1> QED BY <1>1, <1>2, BecomesDoes

LEMMA RememberOfflineDoes ==
    ASSUME IInv, NEW p \in Procs, NEW i \in Items, NEW a \in Aliases,
           RememberOffline(p, i, a)
    PROVE  /\ proc'[p].pc = "q_note" /\ proc'[p].at = <<a, i>>
           /\ proc'[p].part = "note" /\ proc'[p].meta.st # "absent" /\ OthersSame(p)
<1> DEFINE id == KnownIdentity(a)
           t == [Idle EXCEPT !.pc = "q_note", !.at = <<a, i>>,
                 !.meta = [st |-> IF id = None THEN "unbound" ELSE "pending",
                           store |-> a, expected |-> id, hash |-> id]]
<1>1. Becomes(p, t)
  BY DEF RememberOffline
<1>2. t.pc = "q_note" /\ t.at = <<a, i>> /\ t.part = "note" /\ t.meta.st # "absent"
  BY DEF Idle
<1> HIDE DEF t
<1> QED BY <1>1, <1>2, BecomesDoes

LEMMA RecordIdentityDoes ==
    ASSUME IInv, NEW p \in Procs, RecordIdentity(p)
    PROVE  /\ OthersSame(p)
           /\ \/ Gone(p) /\ proc[p].pc = "b_cache"
              \/ /\ proc[p].pc = "w_cache" /\ proc'[p].pc = "w_put"
                 /\ SameJob(p) /\ proc'[p].part = proc[p].part
<1>1. CASE proc[p].pc = "w_cache"
  <2>1. proc[p] \in Process
    BY DEF IInv, TypeOK
  <2>2. Becomes(p, [proc[p] EXCEPT !.pc = "w_put", !.cache = NoAlias])
    BY <1>1 DEF RecordIdentity
  <2>3. OthersSame(p) /\ proc'[p] = [proc[p] EXCEPT !.pc = "w_put", !.cache = NoAlias]
    BY <2>2, BecomesDoes
  <2> QED BY <1>1, <2>1, <2>3 DEF SameJob, Process
<1>2. CASE proc[p].pc = "b_cache"
  BY <1>2, RestDoes DEF RecordIdentity
<1> QED BY <1>1, <1>2 DEF RecordIdentity

LEMMA WroteFileDoes ==
    ASSUME IInv, NEW p \in Procs, proc[p].pc \in Writing, WroteFile(p, proc[p])
    PROVE  /\ OthersSame(p)
           /\ \/ /\ proc[p].part = "note" /\ Item(proc[p]) \in EventItems
                 /\ proc'[p].pc = "w_put" /\ proc'[p].part = "event" /\ SameJob(p)
                 /\ UNCHANGED remembered
              \/ /\ proc[p].part = "event" \/ Item(proc[p]) \notin EventItems
                 /\ Gone(p)
                 /\ remembered' = [remembered EXCEPT ![Item(proc[p])] = "stored"]
<1>1. proc[p] \in Process /\ proc[p].part \in Parts
  BY DEF IInv, TypeOK, Process
<1>2. CASE proc[p].part = "note" /\ Item(proc[p]) \in EventItems
  <2>1. Becomes(p, [proc[p] EXCEPT !.pc = "w_put", !.part = "event"]) /\ UNCHANGED remembered
    BY <1>2 DEF WroteFile
  <2>2. OthersSame(p) /\ proc'[p] = [proc[p] EXCEPT !.pc = "w_put", !.part = "event"]
    BY <2>1, BecomesDoes
  <2> QED BY <1>1, <1>2, <2>1, <2>2 DEF SameJob, Process
<1>3. CASE ~(proc[p].part = "note" /\ Item(proc[p]) \in EventItems)
  BY <1>1, <1>3, RestDoes DEF WroteFile, Parts
<1> QED BY <1>2, <1>3

LEMMA GoesOnDoes ==
    ASSUME IInv, NEW p \in Procs, NEW pc, Becomes(p, [proc[p] EXCEPT !.pc = pc])
    PROVE  /\ OthersSame(p) /\ SameJob(p) /\ proc'[p].pc = pc
           /\ proc'[p].part = proc[p].part /\ proc'[p].res = proc[p].res
<1>1. proc[p] \in Process
  BY DEF IInv, TypeOK
<1>2. OthersSame(p) /\ proc'[p] = [proc[p] EXCEPT !.pc = pc]
  BY BecomesDoes
<1> QED BY <1>1, <1>2 DEF SameJob, Process

LEMMA FlushPickDoes ==
    ASSUME IInv, NEW p \in Procs, NEW d \in Places, FlushPick(p, d)
    PROVE  /\ OthersSame(p)
           /\ \/ Gone(p)
              \/ /\ proc'[p].pc = "f_look" /\ proc'[p].at = d
                 /\ proc'[p].root \in Roots /\ proc'[p].root \in mounted
                 /\ outbox[d].meta.st = "pending"
                 /\ outbox[d].meta.expected = proc'[p].root
                 /\ proc'[p].part = "note"
                 /\ \A k \in Parts : proc'[p].res[k] = "none"
<1> DEFINE s == proc[p]
           m == outbox[d].meta
           r == s.cfg[m.store]
           t == [Idle EXCEPT !.pc = "f_look", !.cfg = s.cfg, !.todo = s.todo \ {d},
                 !.at = d, !.meta = m, !.root = r]
<1>1. /\ s.cfg \in [Aliases -> Owners] /\ m \in Meta
  BY DEF IInv, TypeOK, Process, Dir
<1>2. ASSUME NEW outcome,
             Becomes(p, [Idle EXCEPT !.pc = "f_item", !.cfg = s.cfg,
                                     !.todo = s.todo \ {d}, !.out = outcome])
      PROVE  OthersSame(p) /\ Gone(p)
  <2> DEFINE u == [Idle EXCEPT !.pc = "f_item", !.cfg = s.cfg,
                               !.todo = s.todo \ {d}, !.out = outcome]
  <2>1. u.pc = "f_item"
    BY DEF Idle
  <2>2. Becomes(p, u)
    BY <1>2
  <2> HIDE DEF u
  <2> QED BY <2>1, <2>2, BecomesDoes DEF Gone
<1>3. CASE /\ m.st = "pending" /\ r # None /\ Gate(r, m) /\ Becomes(p, t) /\ Reachable(r)
  <2>1. r \in Roots /\ r = m.expected /\ r \in mounted
    BY <1>1, <1>3 DEF Meta, Gate, Owners, Reachable
  <2>2. /\ t.pc = "f_look" /\ t.at = d /\ t.root = r /\ t.part = "note"
        /\ \A k \in Parts : t.res[k] = "none"
    BY DEF Idle
  <2>3. m.st = "pending" /\ Becomes(p, t)
    BY <1>3
  <2>4. outbox[d].meta.st = "pending" /\ outbox[d].meta.expected = r
    BY <2>1, <2>3
  <2> HIDE DEF t, m, r
  <2> QED BY <2>1, <2>2, <2>3, <2>4, BecomesDoes
<1> QED BY <1>2, <1>3 DEF FlushPick

LEMMA PublishedDoes ==
    ASSUME IInv, NEW p \in Procs, NEW result, Published(p, result)
    PROVE  /\ OthersSame(p) /\ SameJob(p)
           /\ proc'[p].pc \in {"f_look", "f_settle"}
           /\ proc'[p].res[proc[p].part] = result
           /\ \A k \in Parts \ {proc[p].part} : proc'[p].res[k] = proc[p].res[k]
           /\ proc'[p].pc = "f_look" => proc[p].part = "note" /\ proc'[p].part = "event"
           /\ proc'[p].pc = "f_settle" =>
                 /\ proc'[p].part = proc[p].part
                 /\ proc[p].part = "event" \/ Item(proc[p]) \notin EventItems
<1>1. proc[p] \in Process /\ proc[p].part \in Parts /\ proc[p].res \in [Parts -> Result]
  BY DEF IInv, TypeOK, Process
<1>2. CASE FollowedByEvent(proc[p])
  <2>1. OthersSame(p) /\ proc'[p] = [proc[p] EXCEPT !.pc = "f_look", !.part = "event",
                                                     !.res["note"] = result]
    BY <1>2, BecomesDoes DEF Published
  <2>2. proc[p].part = "note"
    BY <1>2 DEF FollowedByEvent
  <2> QED BY <1>1, <2>1, <2>2 DEF SameJob, Process, Parts
<1>3. CASE ~FollowedByEvent(proc[p])
  <2>1. OthersSame(p) /\ proc'[p] = [proc[p] EXCEPT !.pc = "f_settle",
                                                     !.res[proc[p].part] = result]
    BY <1>3, BecomesDoes DEF Published
  <2>2. proc[p].part = "event" \/ Item(proc[p]) \notin EventItems
    BY <1>1, <1>3 DEF FollowedByEvent, Parts
  <2> QED BY <1>1, <2>1, <2>2 DEF SameJob, Process
<1> QED BY <1>2, <1>3

LEMMA BindStartDoes ==
    ASSUME IInv, NEW p \in Procs, NEW i \in Items, NEW a \in Aliases,
           BindStart(p, i, a)
    PROVE  \E b \in Aliases :
              /\ outbox[<<b, i>>].meta.st = "unbound"
              /\ proc'[p].pc = "b_move" /\ proc'[p].at = <<b, i>>
              /\ proc'[p].root \in Roots /\ proc'[p].meta.st = "pending"
              /\ OthersSame(p)
<1> DEFINE m == [st |-> "pending", store |-> a, expected |-> config[a],
                 hash |-> config[a]]
<1>1. PICK b \in Aliases :
        /\ Bindable(outbox[<<b, i>>].meta)
        /\ config[a] # None
        /\ Becomes(p, [Idle EXCEPT !.pc = "b_move", !.at = <<b, i>>,
                       !.root = config[a], !.meta = m])
  BY DEF BindStart
<1> DEFINE t == [Idle EXCEPT !.pc = "b_move", !.at = <<b, i>>, !.root = config[a],
                 !.meta = m]
<1>2. config[a] \in Roots /\ outbox[<<b, i>>].meta.st = "unbound"
  BY <1>1 DEF IInv, TypeOK, Owners, Bindable
<1>3. /\ t.pc = "b_move" /\ t.at = <<b, i>> /\ t.root = config[a]
      /\ t.meta.st = "pending"
  BY DEF Idle
<1>4. proc'[p] = t /\ OthersSame(p)
  BY <1>1, BecomesDoes
<1> HIDE DEF t, m
<1> QED BY <1>2, <1>3, <1>4

\* bind_item goes on under the target alias, and after its last file.
LEMMA BindMoveDoes ==
    ASSUME IInv, NEW p \in Procs, NEW d,
           Becomes(p, [proc[p] EXCEPT !.pc = "b_note", !.at = d])
    PROVE  /\ OthersSame(p) /\ proc'[p].pc = "b_note" /\ proc'[p].at = d
           /\ proc'[p].root = proc[p].root /\ proc'[p].meta = proc[p].meta
<1> DEFINE t == [proc[p] EXCEPT !.pc = "b_note", !.at = d]
<1>1. proc[p] \in Process
  BY DEF IInv, TypeOK
<1>2. t.pc = "b_note" /\ t.at = d /\ t.root = proc[p].root /\ t.meta = proc[p].meta
  BY <1>1 DEF Process
<1>3. proc'[p] = t /\ OthersSame(p)
  BY BecomesDoes
<1> HIDE DEF t
<1> QED BY <1>2, <1>3

LEMMA BindMetaDoes ==
    ASSUME IInv, NEW p \in Procs, BindMeta(p)
    PROVE  OthersSame(p) /\ proc'[p].pc = "b_cache" /\ SameJob(p)
<1> DEFINE t == [proc[p] EXCEPT !.pc = "b_cache", !.cache = identities]
<1>1. proc[p] \in Process
  BY DEF IInv, TypeOK
<1>2. /\ t.pc = "b_cache" /\ t.at = proc[p].at /\ t.root = proc[p].root
      /\ t.meta = proc[p].meta
  BY <1>1 DEF Process
<1>3. Becomes(p, t)
  BY DEF BindMeta
<1> HIDE DEF t
<1>4. proc'[p] = t /\ OthersSame(p)
  BY <1>3, BecomesDoes
<1> QED BY <1>2, <1>4 DEF SameJob

-----------------------------------------------------------------------------
(* A published file is stable: where files are copied, a root stays mounted *)
(* under its writers, and a torn file has one copier.                       *)

Copying(s) == s.pc \in {"w_copy", "f_copy"}
SameFile(s, t) == s.root = t.root /\ Item(s) = Item(t) /\ s.part = t.part
Storing == Writing \cup {"w_cache"}

CopyInv ==
    /\ StableMounts => \A p \in Procs :
          proc[p].pc \in Storing \cup Publishing => proc[p].root \in mounted
    /\ \A p \in Procs : Copying(proc[p]) =>
          /\ ~Links
          /\ canonical[proc[p].root][Item(proc[p])][proc[p].part].st = "torn"
    /\ \A p, q \in Procs :
          Copying(proc[p]) /\ Copying(proc[q]) /\ SameFile(proc[p], proc[q]) => p = q

\* What the step may do to a file of the store.
Stable == \A r \in Roots, i \in Items, k \in Parts :
    canonical[r][i][k].st = "whole" =>
        canonical'[r][i][k] \in {canonical[r][i][k],
                                 [canonical[r][i][k] EXCEPT !.edited = TRUE]}

LEMMA PcSets == /\ Storing = {"w_cache", "w_put", "w_copy"}
                /\ Publishing = {"f_look", "f_put", "f_copy", "f_settle"}
                /\ Binding = {"b_move", "b_note", "b_event", "b_meta"}
                /\ Writing = {"w_put", "w_copy"}
                /\ Storing \cup Publishing \subseteq InStore
                /\ Binding \subseteq InStore /\ "f_remove" \in InStore
BY DEF Storing, Publishing, Binding, Writing, InStore

\* A step that starts no copy and touches no torn file but its own.
LEMMA CopyMoves ==
    ASSUME IInv, CopyInv, NEW p \in Procs, OthersSame(p), mounted' = mounted,
           ~Copying(proc'[p]),
           StableMounts => (proc'[p].pc \in Storing \cup Publishing => proc'[p].root \in mounted),
           \A r \in Roots, i \in Items, k \in Parts :
              \/ canonical'[r][i][k].st = canonical[r][i][k].st
              \/ canonical[r][i][k].st # "torn"
              \/ /\ Copying(proc[p]) /\ r = proc[p].root /\ i = Item(proc[p])
                 /\ k = proc[p].part
    PROVE  CopyInv'
<1>1. ASSUME NEW q \in Procs, Copying(proc'[q])
      PROVE  /\ ~Links
             /\ canonical'[proc'[q].root][Item(proc'[q])][proc'[q].part].st = "torn"
  <2>1. q # p /\ proc'[q] = proc[q] /\ Copying(proc[q])
    BY <1>1 DEF OthersSame
  <2>2. proc[q].root \in Roots /\ Item(proc[q]) \in Items /\ proc[q].part \in Parts
    BY <2>1, JobFacts, PcSets DEF Copying
  <2>3. /\ ~Links
        /\ canonical[proc[q].root][Item(proc[q])][proc[q].part].st = "torn"
    BY <2>1 DEF CopyInv
  <2>4. ~(Copying(proc[p]) /\ SameFile(proc[p], proc[q]))
    BY <2>1 DEF CopyInv
  <2> QED BY <2>1, <2>2, <2>3, <2>4 DEF SameFile
<1>2. \A q, q2 \in Procs :
         Copying(proc'[q]) /\ Copying(proc'[q2]) /\ SameFile(proc'[q], proc'[q2]) => q = q2
  BY DEF CopyInv, OthersSame
<1>3. StableMounts => \A q \in Procs :
         proc'[q].pc \in Storing \cup Publishing => proc'[q].root \in mounted
  BY DEF CopyInv, OthersSame
<1> QED BY <1>1, <1>2, <1>3 DEF CopyInv

\* A process that leaves, or stays under the root it has.
LEMMA CopyStays ==
    ASSUME IInv, CopyInv, NEW p \in Procs, OthersSame(p), mounted' = mounted,
           ~Copying(proc'[p]),
           \/ proc'[p].pc \notin Storing \cup Publishing
           \/ proc[p].pc \in Storing \cup Publishing /\ SameJob(p),
           UNCHANGED canonical
    PROVE  CopyInv'
BY CopyMoves DEF CopyInv, SameJob

\* A copy that begins on a file that is not there.
LEMMA CopyBegins ==
    ASSUME IInv, CopyInv, NEW p \in Procs, OthersSame(p), SameJob(p), mounted' = mounted,
           proc'[p].part = proc[p].part, ~Links,
           proc[p].pc \in Storing \cup Publishing, Copying(proc'[p]),
           FileAt(proc[p].root, Item(proc[p]), proc[p].part).st = "absent",
           PutAt(proc[p].root, Item(proc[p]), proc[p].part, Torn)
    PROVE  CopyInv' /\ Stable
<1> DEFINE r == proc[p].root
           i == Item(proc[p])
           k == proc[p].part
<1>1. r \in Roots /\ i \in Items /\ k \in Parts
  BY JobFacts, PcSets
<1>2. r \in mounted
  BY DEF CopyInv
<1>3. canonical[r][i][k].st = "absent"
  BY <1>2 DEF FileAt
<1>4. \A q \in Roots, j \in Items, l \in Parts :
         canonical'[q][j][l] = IF q = r /\ j = i /\ l = k THEN Torn ELSE canonical[q][j][l]
  BY <1>1, <1>2, PutDoes
<1>5. Item(proc'[p]) = i /\ proc'[p].root = r /\ proc'[p].part = k
  BY DEF SameJob, Item
<1> HIDE DEF r, i, k
<1>6. ASSUME NEW q \in Procs \ {p}, Copying(proc'[q])
      PROVE  /\ proc'[q] = proc[q] /\ ~Links
             /\ ~SameFile(proc'[p], proc'[q]) /\ ~SameFile(proc'[q], proc'[p])
             /\ canonical'[proc'[q].root][Item(proc'[q])][proc'[q].part].st = "torn"
  <2>1. proc'[q] = proc[q] /\ Copying(proc[q])
    BY <1>6 DEF OthersSame
  <2>2. proc[q].root \in Roots /\ Item(proc[q]) \in Items /\ proc[q].part \in Parts
    BY <2>1, JobFacts, PcSets DEF Copying
  <2>3. ~Links /\ canonical[proc[q].root][Item(proc[q])][proc[q].part].st = "torn"
    BY <2>1 DEF CopyInv
  <2> QED BY <1>3, <1>4, <1>5, <2>1, <2>2, <2>3 DEF SameFile
<1>7. canonical'[r][i][k].st = "torn"
  BY <1>1, <1>4 DEF Torn
<1>8. StableMounts => \A q \in Procs :
         proc'[q].pc \in Storing \cup Publishing => proc'[q].root \in mounted
  BY <1>2, <1>5 DEF CopyInv, OthersSame
<1>9. CopyInv'
  BY <1>5, <1>6, <1>7, <1>8 DEF CopyInv
<1>10. Stable
  BY <1>3, <1>4 DEF Stable
<1> QED BY <1>9, <1>10

\* A file that a process makes whole in one step, or gives up, is its own torn
\* file or was not there.
LEMMA CopyEnds ==
    ASSUME IInv, CopyInv, NEW p \in Procs, OthersSame(p), mounted' = mounted,
           ~Copying(proc'[p]),
           proc[p].pc \in Storing \cup Publishing,
           proc'[p].pc \in Storing \cup Publishing => SameJob(p),
           NEW f, PutAt(proc[p].root, Item(proc[p]), proc[p].part, f),
           \/ Copying(proc[p])
           \/ FileAt(proc[p].root, Item(proc[p]), proc[p].part).st = "absent"
    PROVE  CopyInv' /\ Stable
<1> DEFINE r == proc[p].root
           i == Item(proc[p])
           k == proc[p].part
<1>1. r \in Roots /\ i \in Items /\ k \in Parts
  BY JobFacts, PcSets
<1>2. \A q \in Roots, j \in Items, l \in Parts :
         canonical'[q][j][l] = IF r \in mounted /\ q = r /\ j = i /\ l = k THEN f
                               ELSE canonical[q][j][l]
  BY <1>1, PutDoes
<1>3. r \in mounted => \/ canonical[r][i][k].st = "absent"
                       \/ canonical[r][i][k].st = "torn" /\ Copying(proc[p])
  BY DEF FileAt, CopyInv
<1>4. StableMounts => (proc'[p].pc \in Storing \cup Publishing => proc'[p].root \in mounted)
  BY DEF CopyInv, SameJob
<1>5. \A q \in Roots, j \in Items, l \in Parts :
         \/ canonical'[q][j][l].st = canonical[q][j][l].st
         \/ canonical[q][j][l].st # "torn"
         \/ Copying(proc[p]) /\ q = proc[p].root /\ j = Item(proc[p]) /\ l = proc[p].part
  BY <1>2, <1>3
<1>6. CopyInv'
  BY <1>4, <1>5, CopyMoves
<1>7. Stable
  BY <1>2, <1>3 DEF Stable
<1> QED BY <1>6, <1>7

LEMMA StableStays == ASSUME UNCHANGED canonical PROVE Stable
BY DEF Stable

LEMMA WriteCopies ==
    ASSUME IInv, CopyInv, NEW p \in Procs, WriteFile(p) \/ WriteCopied(p)
    PROVE  CopyInv' /\ Stable
<1>1. proc[p].pc \in Writing /\ proc[p].pc \in Storing /\ mounted' = mounted
  BY PcSets DEF WriteFile, WriteCopied, world
<1>2. Gone(p) => ~Copying(proc'[p]) /\ proc'[p].pc \notin Storing \cup Publishing
  BY PcSets DEF Gone, Copying
<1>3. ASSUME WroteFile(p, proc[p])
      PROVE  /\ OthersSame(p) /\ ~Copying(proc'[p])
             /\ proc'[p].pc \in Storing \cup Publishing => SameJob(p)
  BY <1>1, <1>2, <1>3, WroteFileDoes DEF Copying
<1>4. CASE WriteFile(p)
  <2>1. CASE /\ FileAt(proc[p].root, Item(proc[p]), proc[p].part).st = "absent"
             /\ PutAt(proc[p].root, Item(proc[p]), proc[p].part, Landed(proc[p].root))
             /\ Links /\ WroteFile(p, proc[p])
    BY <1>1, <1>3, <2>1, CopyEnds
  <2>2. CASE /\ FileAt(proc[p].root, Item(proc[p]), proc[p].part).st = "absent"
             /\ PutAt(proc[p].root, Item(proc[p]), proc[p].part, Landed(proc[p].root))
             /\ ~Links /\ Becomes(p, [proc[p] EXCEPT !.pc = "w_copy"])
    <3>1. /\ OthersSame(p) /\ SameJob(p) /\ proc'[p].part = proc[p].part
          /\ Copying(proc'[p])
      BY <2>2, GoesOnDoes DEF Copying
    <3>2. PutAt(proc[p].root, Item(proc[p]), proc[p].part, Torn)
      BY <2>2 DEF Landed
    <3> QED BY <1>1, <2>2, <3>1, <3>2, CopyBegins
  <2>3. CASE Becomes(p, Idle) /\ UNCHANGED canonical
    BY <1>1, <1>2, <2>3, RestDoes, CopyStays, StableStays
  <2> QED BY <1>4, <2>1, <2>2, <2>3 DEF WriteFile
<1>5. CASE WriteCopied(p)
  <2>1. Copying(proc[p])
    BY <1>5 DEF WriteCopied, Copying
  <2>2. CASE /\ PutAt(proc[p].root, Item(proc[p]), proc[p].part, Whole(proc[p].root))
             /\ WroteFile(p, proc[p])
    BY <1>1, <1>3, <2>1, <2>2, CopyEnds
  <2>3. CASE /\ PutAt(proc[p].root, Item(proc[p]), proc[p].part, Absent)
             /\ Becomes(p, Idle)
    BY <1>1, <1>2, <2>1, <2>3, RestDoes, CopyEnds
  <2> QED BY <1>5, <2>2, <2>3 DEF WriteCopied
<1> QED BY <1>4, <1>5

LEMMA FlushCopies ==
    ASSUME IInv, CopyInv, NEW p \in Procs, FlushPut(p) \/ FlushCopied(p)
    PROVE  CopyInv' /\ Stable
<1>1. proc[p].pc \in Publishing /\ mounted' = mounted
  BY PcSets DEF FlushPut, FlushCopied, world
<1>2. Gone(p) => ~Copying(proc'[p]) /\ proc'[p].pc \notin Storing \cup Publishing
  BY PcSets DEF Gone, Copying
<1>3. ASSUME NEW result, Published(p, result)
      PROVE  OthersSame(p) /\ ~Copying(proc'[p]) /\ SameJob(p)
  BY <1>3, PublishedDoes DEF Copying
<1>4. ASSUME NEW outcome, Report(p, outcome)
      PROVE  /\ OthersSame(p) /\ ~Copying(proc'[p])
             /\ proc'[p].pc \notin Storing \cup Publishing
  BY <1>2, <1>4, ReportDoes
<1>5. CASE FlushPut(p)
  <2>1. CASE /\ MayCreate(FileAt(proc[p].root, Item(proc[p]), proc[p].part))
             /\ PutAt(proc[p].root, Item(proc[p]), proc[p].part, Landed(proc[p].meta.hash))
             /\ Links /\ Published(p, "written")
    <3>1. FileAt(proc[p].root, Item(proc[p]), proc[p].part).st = "absent"
      BY <2>1 DEF MayCreate
    <3> QED BY <1>1, <1>3, <2>1, <3>1, CopyEnds
  <2>2. CASE /\ MayCreate(FileAt(proc[p].root, Item(proc[p]), proc[p].part))
             /\ PutAt(proc[p].root, Item(proc[p]), proc[p].part, Landed(proc[p].meta.hash))
             /\ ~Links /\ Becomes(p, [proc[p] EXCEPT !.pc = "f_copy"])
    <3>1. /\ OthersSame(p) /\ SameJob(p) /\ proc'[p].part = proc[p].part
          /\ Copying(proc'[p])
      BY <2>2, GoesOnDoes DEF Copying
    <3>2. /\ FileAt(proc[p].root, Item(proc[p]), proc[p].part).st = "absent"
          /\ PutAt(proc[p].root, Item(proc[p]), proc[p].part, Torn)
      BY <2>2 DEF Landed, MayCreate
    <3> QED BY <1>1, <2>2, <3>1, <3>2, CopyBegins
  <2>3. CASE UNCHANGED canonical /\ \E result : Published(p, result)
    BY <1>1, <1>3, <2>3, CopyStays, StableStays
  <2>4. CASE UNCHANGED canonical /\ Report(p, "failed")
    BY <1>1, <1>4, <2>4, CopyStays, StableStays
  <2> QED BY <1>5, <2>1, <2>2, <2>3, <2>4 DEF FlushPut
<1>6. CASE FlushCopied(p)
  <2>1. Copying(proc[p])
    BY <1>6 DEF FlushCopied, Copying
  <2>2. CASE /\ PutAt(proc[p].root, Item(proc[p]), proc[p].part, Whole(proc[p].meta.hash))
             /\ Published(p, "written")
    BY <1>1, <1>3, <2>1, <2>2, CopyEnds
  <2>3. CASE /\ PutAt(proc[p].root, Item(proc[p]), proc[p].part, Absent)
             /\ Report(p, "failed")
    BY <1>1, <1>4, <2>1, <2>3, CopyEnds
  <2> QED BY <1>6, <2>2, <2>3 DEF FlushCopied
<1> QED BY <1>5, <1>6

\* The steps that leave the files of the stores alone.
LEMMA QuietCopies ==
    ASSUME IInv, CopyInv, NEW p \in Procs, OthersSame(p), mounted' = mounted,
           UNCHANGED canonical, ~Copying(proc'[p]),
           \/ proc'[p].pc \notin Storing \cup Publishing
           \/ proc[p].pc \in Storing \cup Publishing /\ SameJob(p)
           \/ proc'[p].root \in mounted
    PROVE  CopyInv' /\ Stable
BY CopyMoves, StableStays DEF CopyInv, SameJob

LEMMA RestCopies ==
    ASSUME IInv, CopyInv, NEW p \in Procs, Start(p) \/ Step(p),
           ~WriteFile(p), ~WriteCopied(p), ~FlushPut(p), ~FlushCopied(p)
    PROVE  CopyInv' /\ Stable
<1>1. Gone(p) => ~Copying(proc'[p]) /\ proc'[p].pc \notin Storing \cup Publishing
  BY PcSets DEF Gone, Copying
<1>2. CASE \E i \in Items, a \in Aliases : RememberOnline(p, i, a)
  BY <1>2, RememberOnlineDoes, QuietCopies DEF RememberOnline, stores, world, Copying
<1>3. CASE \E i \in Items, a \in Aliases : RememberOffline(p, i, a)
  BY <1>3, PcSets, RememberOfflineDoes, QuietCopies DEF RememberOffline, stores, world, Copying
<1>4. CASE \E i \in Items, a \in Aliases : BindStart(p, i, a)
  BY <1>4, PcSets, BindStartDoes, QuietCopies DEF BindStart, stores, world, Copying
<1>5. CASE FlushStart(p)
  <2> DEFINE t == [Idle EXCEPT !.pc = "f_item", !.cfg = config,
                               !.todo = {d \in Places : outbox[d].exists}]
  <2>1. t.pc = "f_item"
    BY DEF Idle
  <2>2. Becomes(p, t)
    BY <1>5 DEF FlushStart
  <2> HIDE DEF t
  <2>3. Gone(p) /\ OthersSame(p)
    BY <2>1, <2>2, BecomesDoes DEF Gone
  <2> QED BY <1>1, <1>5, <2>3, QuietCopies DEF FlushStart, stores, world
<1>6. CASE RecordIdentity(p)
  BY <1>1, <1>6, PcSets, RecordIdentityDoes, QuietCopies DEF RecordIdentity, stores, world, Copying
<1>7. CASE EnqueueNote(p)
  <2>1. \E pc \in {"q_event", "q_meta"} : Becomes(p, [proc[p] EXCEPT !.pc = pc])
    BY <1>7 DEF EnqueueNote
  <2> QED BY <1>7, <2>1, PcSets, GoesOnDoes, QuietCopies DEF EnqueueNote, stores, world, Copying
<1>8. CASE EnqueueEvent(p)
  <2>1. Becomes(p, [proc[p] EXCEPT !.pc = "q_meta"])
    BY <1>8 DEF EnqueueEvent
  <2>2. OthersSame(p) /\ SameJob(p) /\ proc'[p].pc = "q_meta"
    BY <2>1, GoesOnDoes
  <2> QED BY <1>8, <2>2, PcSets, QuietCopies DEF EnqueueEvent, stores, world, Copying
<1>9. CASE EnqueueMeta(p)
  BY <1>1, <1>9, RestDoes, QuietCopies DEF EnqueueMeta, stores, world
<1>10. ASSUME NEW d \in Places, FlushPick(p, d) PROVE CopyInv' /\ Stable
  BY <1>1, <1>10, FlushPickDoes, QuietCopies DEF FlushPick, stores, world, Copying
<1>11. CASE FlushLook(p)
  <2>1. \/ \E outcome : Report(p, outcome)
        \/ \E result : Published(p, result)
        \/ Becomes(p, [proc[p] EXCEPT !.pc = "f_put"])
    BY <1>11 DEF FlushLook
  <2>2. proc[p].pc \in Publishing /\ mounted' = mounted /\ UNCHANGED canonical
    BY <1>11, PcSets DEF FlushLook, stores, world
  <2>3. ASSUME NEW outcome, Report(p, outcome) PROVE CopyInv' /\ Stable
    BY <1>1, <2>2, <2>3, ReportDoes, QuietCopies
  <2>4. ASSUME NEW result, Published(p, result) PROVE CopyInv' /\ Stable
    BY <2>2, <2>4, PublishedDoes, QuietCopies DEF Copying
  <2>5. CASE Becomes(p, [proc[p] EXCEPT !.pc = "f_put"])
    BY <2>2, <2>5, GoesOnDoes, QuietCopies DEF Copying
  <2> QED BY <2>1, <2>3, <2>4, <2>5
<1>12. CASE FlushSettle(p)
  <2>1. Report(p, "failed") \/ Becomes(p, [proc[p] EXCEPT !.pc = "f_remove"])
    BY <1>12 DEF FlushSettle
  <2>2. mounted' = mounted /\ UNCHANGED canonical
    BY <1>12 DEF FlushSettle, world
  <2> QED BY <1>1, <2>1, <2>2, PcSets, ReportDoes, GoesOnDoes, QuietCopies DEF Copying
<1>13. CASE FlushRemove(p)
  <2>1. (\E outcome : Report(p, outcome)) \/ UNCHANGED proc
    BY <1>13 DEF FlushRemove
  <2>2. mounted' = mounted /\ UNCHANGED canonical /\ proc[p].pc = "f_remove"
    BY <1>13 DEF FlushRemove, stores, world
  <2>3. CASE UNCHANGED proc
    BY <2>2, <2>3, StableStays DEF CopyInv
  <2> QED BY <1>1, <2>1, <2>2, <2>3, ReportDoes, QuietCopies
<1>14. CASE FlushEnd(p)
  BY <1>1, <1>14, RestDoes, QuietCopies DEF FlushEnd, stores, world
<1>15. CASE BindMove(p)
  <2>1. \/ Becomes(p, Idle)
        \/ Becomes(p, [proc[p] EXCEPT !.pc = "b_note", !.at = <<proc[p].meta.store, Item(proc[p])>>])
    BY <1>15 DEF BindMove
  <2>2. mounted' = mounted /\ UNCHANGED canonical
    BY <1>15 DEF BindMove, stores, world
  <2> QED BY <1>1, <2>1, <2>2, PcSets, RestDoes, BindMoveDoes, QuietCopies DEF Copying
<1>16. CASE BindNote(p)
  <2>1. \/ Becomes(p, Idle)
        \/ \E pc \in {"b_event", "b_meta"} : Becomes(p, [proc[p] EXCEPT !.pc = pc])
    BY <1>16 DEF BindNote
  <2>2. mounted' = mounted /\ UNCHANGED canonical
    BY <1>16 DEF BindNote, stores, world
  <2>3. CASE Becomes(p, Idle)
    BY <1>1, <2>2, <2>3, RestDoes, QuietCopies
  <2>4. ASSUME NEW pc \in {"b_event", "b_meta"}, Becomes(p, [proc[p] EXCEPT !.pc = pc])
        PROVE  CopyInv' /\ Stable
    BY <2>2, <2>4, PcSets, GoesOnDoes, QuietCopies DEF Copying
  <2> QED BY <2>1, <2>3, <2>4
<1>17. CASE BindEvent(p)
  <2>1. OthersSame(p) /\ proc'[p].pc = "b_meta"
    BY <1>17, GoesOnDoes DEF BindEvent
  <2>2. ~Copying(proc'[p]) /\ proc'[p].pc \notin Storing \cup Publishing
    BY <2>1, PcSets DEF Copying
  <2> QED BY <1>17, <2>1, <2>2, QuietCopies DEF BindEvent, stores, world
<1>18. CASE BindMeta(p)
  BY <1>18, BindMetaDoes, PcSets, QuietCopies DEF BindMeta, stores, world, Copying
<1> QED BY <1>2, <1>3, <1>4, <1>5, <1>6, <1>7, <1>8, <1>9, <1>10, <1>11, <1>12, <1>13, <1>14,
           <1>15, <1>16, <1>17, <1>18 DEF Start, Step, RememberStep, FlushStep, BindStep

LEMMA CopyStep ==
    ASSUME IInv, CopyInv, [Next]_vars
    PROVE  CopyInv' /\ Stable
<1>1. ASSUME NEW p \in Procs, Start(p) \/ Step(p) PROVE CopyInv' /\ Stable
  BY <1>1, WriteCopies, FlushCopies, RestCopies
<1>2. ASSUME NEW r \in Roots, Mount(r) PROVE CopyInv' /\ Stable
  BY <1>2, StableStays DEF Mount, stores, CopyInv
<1>3. ASSUME NEW r \in Roots, Unmount(r) PROVE CopyInv' /\ Stable
  BY <1>3, StableStays DEF Unmount, stores, CopyInv, Storing
<1>4. ASSUME NEW a \in Aliases, NEW r \in Owners, Repoint(a, r) PROVE CopyInv' /\ Stable
  BY <1>4, StableStays DEF Repoint, stores, CopyInv
<1>5. ASSUME NEW r \in Roots, NEW i \in Items, NEW k \in Parts, Edit(r, i, k)
      PROVE  CopyInv' /\ Stable
  <2> DEFINE f == [canonical[r][i][k] EXCEPT !.edited = TRUE]
  <2>1. canonical \in Tree /\ canonical[r][i][k] \in File
    BY DEF IInv, TypeOK, Tree
  <2>2. f.st = canonical[r][i][k].st
    BY <2>1 DEF File
  <2>3. \A q \in Roots, j \in Items, l \in Parts :
           canonical'[q][j][l] = IF q = r /\ j = i /\ l = k THEN f ELSE canonical[q][j][l]
    BY <1>5, <2>1 DEF Edit, Tree
  <2>4. Stable
    BY <2>3 DEF Stable
  <2> HIDE DEF f
  <2>5. \A q \in Roots, j \in Items, l \in Parts :
           canonical'[q][j][l].st = canonical[q][j][l].st
    BY <2>2, <2>3
  <2>6. \A p \in Procs : Copying(proc[p]) =>
           proc[p].root \in Roots /\ Item(proc[p]) \in Items /\ proc[p].part \in Parts
    BY JobFacts, PcSets DEF Copying
  <2>7. UNCHANGED <<mounted, proc>>
    BY <1>5 DEF Edit, world
  <2>8. CopyInv'
    BY <2>5, <2>6, <2>7 DEF CopyInv
  <2> QED BY <2>4, <2>8
<1>6. ASSUME NEW p \in Procs, Crash(p) PROVE CopyInv' /\ Stable
  <2>1. Gone(p) /\ OthersSame(p)
    BY <1>6, RestDoes DEF Crash
  <2>2. ~Copying(proc'[p]) /\ proc'[p].pc \notin Storing \cup Publishing
    BY <2>1, PcSets DEF Gone, Copying
  <2> QED BY <1>6, <2>1, <2>2, QuietCopies DEF Crash, stores, world
<1>7. ASSUME UNCHANGED vars PROVE CopyInv' /\ Stable
  BY <1>7, StableStays DEF vars, CopyInv
<1> QED BY <1>1, <1>2, <1>3, <1>4, <1>5, <1>6, <1>7 DEF Next, Environment

LEMMA CopyInit == Init => CopyInv
BY IdleFields, PcSets DEF Init, CopyInv, Copying

\* A file that readers of a store have seen whole is never replaced or removed
\* by a write or a flush, for any number of writers racing to the same path,
\* with hard links or with copies that fail halfway (write_atomic_create_new,
\* the conflict refusal of publish_payload).
THEOREM PublishedFilesAreStable == Spec => PublishedIsStable
<1>1. IInv /\ CopyInv /\ [Next]_vars => CopyInv'
  BY CopyStep
<1>2. IInv /\ CopyInv /\ [Next]_vars => [Stable]_vars
  BY CopyStep
<1>3. IInv /\ CopyInv /\ [Next]_vars =>
        [\A r \in Roots, i \in Items, k \in Parts :
           canonical[r][i][k].st = "whole" =>
            canonical'[r][i][k] \in {canonical[r][i][k],
                                     [canonical[r][i][k] EXCEPT !.edited = TRUE]}]_vars
  BY <1>2 DEF Stable
<1> QED BY <1>1, <1>3, CopyInit, Invariance, PTL DEF Spec, PublishedIsStable

-----------------------------------------------------------------------------
(* One memory has one home.                                                *)

Enqueuing   == {"q_note", "q_event", "q_meta"}
Remembering == Storing \cup Enqueuing
Taking      == Publishing \cup {"f_remove"}

At(s, pcs, i) == s.pc \in pcs /\ Item(s) = i
HasMeta(d) == outbox[d].meta.st # "absent"
Nowhere(i) == \A r \in Roots, k \in Parts : canonical[r][i][k].st = "absent"

\* A process is about to put item i under root r.
Carries(s, i, r) ==
    \/ At(s, Storing \cup Taking, i) /\ s.root = r
    \/ At(s, Enqueuing, i) /\ s.meta.st = "pending" /\ s.meta.expected = r

\* Item i has files, waits or is being written for root r.
Claimed(i, r) ==
    \/ \E k \in Parts : canonical[r][i][k].st # "absent"
    \/ \E a \in Aliases : /\ outbox[<<a, i>>].meta.st = "pending"
                          /\ outbox[<<a, i>>].meta.expected = r
    \/ \E p \in Procs : Carries(proc[p], i, r)

OneClaim == \A i \in Items : \A q, r \in Roots : Claimed(i, q) /\ Claimed(i, r) => q = r

\* An item is remembered by one process, and before that is done no flush and
\* no bind knows of it.
RememberedOnce == \A i \in Items :
    /\ remembered[i] = "no" => Nowhere(i)
    /\ \A p \in Procs : At(proc[p], Remembering, i) => remembered[i] = "started"
    /\ \A p, q \in Procs : At(proc[p], Remembering, i) /\ At(proc[q], Remembering, i) => p = q
    /\ remembered[i] \in {"no", "started"} =>
          /\ \A a \in Aliases : ~HasMeta(<<a, i>>)
          /\ \A p \in Procs : ~At(proc[p], Taking \cup Binding, i)
    /\ \A p \in Procs : At(proc[p], Enqueuing, i) => Nowhere(i)

\* An item has one queued directory and one binder; and as long as it is
\* unbound nobody claims it.
BoundOnce == \A i \in Items :
    /\ \A a, b \in Aliases : HasMeta(<<a, i>>) /\ HasMeta(<<b, i>>) => a = b
    /\ \A p, q \in Procs : At(proc[p], Binding, i) /\ At(proc[q], Binding, i) => p = q
    /\ \A p \in Procs : At(proc[p], Binding, i) =>
          outbox[proc[p].at].meta.st = "unbound" /\ proc[p].meta.st = "pending"
    /\ \A a \in Aliases : outbox[<<a, i>>].meta.st = "unbound" =>
          \A r \in Roots : ~Claimed(i, r)

HomeInv == OneClaim /\ RememberedOnce /\ BoundOnce

LEMMA Roles ==
    /\ \A x \in Storing : x \notin Enqueuing \cup Taking \cup Binding \cup {"idle", "f_item", "b_cache"}
    /\ \A x \in Enqueuing : x \notin Taking \cup Binding \cup {"idle", "f_item", "b_cache"}
    /\ \A x \in Taking : x \notin Binding \cup {"idle", "f_item", "b_cache"}
    /\ \A x \in Binding : x \notin {"idle", "f_item", "b_cache"}
    /\ Storing \cup Taking \cup Binding \subseteq InStore
BY PcSets DEF Enqueuing, Taking

LEMMA PlaceParts ==
    ASSUME NEW d \in Places
    PROVE  d = <<d[1], d[2]>> /\ d[1] \in Aliases /\ d[2] \in Items
BY DEF Places

\* Where a process works.
LEMMA PlaceOf ==
    ASSUME IInv, NEW p \in Procs, proc[p].pc \notin {"idle", "f_item"}
    PROVE  \E a \in Aliases : proc[p].at = <<a, Item(proc[p])>>
BY JobFacts, PlaceParts DEF Item

\* A process goes on in its role.
KeepsRole(p) ==
    /\ SameJob(p)
    /\ \/ proc[p].pc \in Storing /\ proc'[p].pc \in Storing
       \/ proc[p].pc \in Enqueuing /\ proc'[p].pc \in Enqueuing
       \/ proc[p].pc \in Taking /\ proc'[p].pc \in Taking
       \/ proc[p].pc \in Binding /\ proc'[p].pc \in Binding

\* A step that takes up no item: nobody claims anything new.
LEMMA HomeMoves ==
    ASSUME IInv, HomeInv, NEW p \in Procs, OthersSame(p),
           Gone(p) \/ proc'[p].pc = "b_cache" \/ KeepsRole(p),
           \A d \in Places : \/ outbox'[d].meta = outbox[d].meta
                             \/ /\ outbox'[d].meta.st = "absent"
                                /\ outbox[d].meta.st # "unbound",
           \A r \in Roots, i \in Items :
              \/ \A k \in Parts : canonical'[r][i][k].st = canonical[r][i][k].st
              \/ At(proc[p], Storing \cup Publishing, i) /\ r = proc[p].root,
           \/ UNCHANGED remembered
           \/ /\ Gone(p) /\ proc[p].pc \in Storing
              /\ remembered' = [remembered EXCEPT ![Item(proc[p])] = "stored"]
    PROVE  HomeInv'
<1>1. ASSUME NEW q \in Procs
      PROVE  \/ Gone(q) \/ proc'[q].pc = "b_cache"
             \/ /\ proc'[q].at = proc[q].at /\ proc'[q].root = proc[q].root
                /\ proc'[q].meta = proc[q].meta
                /\ proc'[q].pc \in Storing => proc[q].pc \in Storing
                /\ proc'[q].pc \in Enqueuing => proc[q].pc \in Enqueuing
                /\ proc'[q].pc \in Taking => proc[q].pc \in Taking
                /\ proc'[q].pc \in Binding => proc[q].pc \in Binding
  <2>1. CASE q = p BY <2>1, Roles DEF KeepsRole, SameJob
  <2>2. CASE q # p BY <2>2 DEF OthersSame
  <2> QED BY <2>1, <2>2
<1>2. ASSUME NEW q \in Procs, NEW i \in Items
      PROVE  /\ At(proc'[q], Storing, i) => At(proc[q], Storing, i)
             /\ At(proc'[q], Enqueuing, i) => At(proc[q], Enqueuing, i)
             /\ At(proc'[q], Taking, i) => At(proc[q], Taking, i)
             /\ At(proc'[q], Binding, i) => At(proc[q], Binding, i)
  BY <1>1, Roles DEF At, Item, Gone
<1>3. ASSUME NEW q \in Procs, NEW i \in Items, NEW r \in Roots, Carries(proc'[q], i, r)
      PROVE  Carries(proc[q], i, r)
  BY <1>1, <1>3, Roles DEF At, Item, Gone, Carries
<1>4. ASSUME NEW i \in Items, NEW r \in Roots, Claimed(i, r)'
      PROVE  Claimed(i, r)
  <2>1. CASE \E k \in Parts : canonical'[r][i][k].st # "absent"
    <3>1. CASE \A k \in Parts : canonical'[r][i][k].st = canonical[r][i][k].st
      BY <2>1, <3>1 DEF Claimed
    <3>2. CASE At(proc[p], Storing \cup Publishing, i) /\ r = proc[p].root
      <4>1. Carries(proc[p], i, r)
        BY <3>2 DEF Carries, At, Taking
      <4> QED BY <4>1 DEF Claimed
    <3> QED BY <3>1, <3>2
  <2>2. CASE \E a \in Aliases : /\ outbox'[<<a, i>>].meta.st = "pending"
                                /\ outbox'[<<a, i>>].meta.expected = r
    <3>1. PICK a \in Aliases : /\ outbox'[<<a, i>>].meta.st = "pending"
                               /\ outbox'[<<a, i>>].meta.expected = r
      BY <2>2
    <3>2. <<a, i>> \in Places
      BY DEF Places
    <3>3. outbox'[<<a, i>>].meta = outbox[<<a, i>>].meta
      BY <3>1, <3>2
    <3> QED BY <3>1, <3>3 DEF Claimed
  <2>3. CASE \E q \in Procs : Carries(proc'[q], i, r)
    BY <1>3, <2>3 DEF Claimed
  <2> QED BY <1>4, <2>1, <2>2, <2>3 DEF Claimed
<1>5. OneClaim'
  BY <1>4 DEF HomeInv, OneClaim
<1>6. ASSUME NEW i \in Items, NEW a \in Aliases
      PROVE  /\ HasMeta(<<a, i>>)' => HasMeta(<<a, i>>)
             /\ outbox[<<a, i>>].meta.st = "unbound" \/ outbox'[<<a, i>>].meta.st = "unbound" =>
                   outbox'[<<a, i>>].meta = outbox[<<a, i>>].meta
  BY DEF Places, HasMeta
<1>7. ASSUME NEW i \in Items, Nowhere(i), ~At(proc[p], Storing \cup Publishing, i)
      PROVE  Nowhere(i)'
  BY <1>7 DEF Nowhere
<1>8. RememberedOnce'
  <2> SUFFICES ASSUME NEW i \in Items
      PROVE  /\ remembered'[i] = "no" => Nowhere(i)'
             /\ \A q \in Procs : At(proc'[q], Remembering, i) => remembered'[i] = "started"
             /\ \A q, t \in Procs :
                   At(proc'[q], Remembering, i) /\ At(proc'[t], Remembering, i) => q = t
             /\ remembered'[i] \in {"no", "started"} =>
                   /\ \A a \in Aliases : ~HasMeta(<<a, i>>)'
                   /\ \A q \in Procs : ~At(proc'[q], Taking \cup Binding, i)
             /\ \A q \in Procs : At(proc'[q], Enqueuing, i) => Nowhere(i)'
    BY DEF RememberedOnce
  <2>1. /\ remembered[i] = "no" => Nowhere(i)
        /\ \A q \in Procs : At(proc[q], Remembering, i) => remembered[i] = "started"
        /\ \A q, t \in Procs : At(proc[q], Remembering, i) /\ At(proc[t], Remembering, i) => q = t
        /\ remembered[i] \in {"no", "started"} =>
              /\ \A a \in Aliases : ~HasMeta(<<a, i>>)
              /\ \A q \in Procs : ~At(proc[q], Taking \cup Binding, i)
        /\ \A q \in Procs : At(proc[q], Enqueuing, i) => Nowhere(i)
    BY DEF HomeInv, RememberedOnce
  <2>2. \A q \in Procs : At(proc'[q], Remembering, i) => At(proc[q], Remembering, i)
    BY <1>2 DEF Remembering, At
  <2>3. \A q \in Procs : At(proc'[q], Taking \cup Binding, i) => At(proc[q], Taking \cup Binding, i)
    BY <1>2 DEF At
  <2>4. \/ remembered'[i] = remembered[i]
        \/ remembered'[i] = "stored" /\ Gone(p) /\ At(proc[p], Remembering, i)
    BY DEF IInv, TypeOK, At, Remembering
  <2>5. Gone(p) => ~At(proc'[p], Remembering, i)
    BY Roles DEF Gone, At, Remembering
  <2>6. /\ At(proc[p], Storing, i) => At(proc[p], Remembering, i)
        /\ At(proc[p], Publishing, i) => At(proc[p], Taking \cup Binding, i)
        /\ At(proc[p], Storing \cup Publishing, i) => At(proc[p], Storing, i) \/ At(proc[p], Publishing, i)
        /\ \A q \in Procs : At(proc[q], Enqueuing, i) =>
              At(proc[q], Remembering, i) /\ ~At(proc[q], Storing, i)
    BY Roles DEF At, Remembering, Taking
  <2>7. remembered'[i] = "no" => Nowhere(i)'
    BY <1>7, <2>1, <2>4, <2>6
  <2>8. \A q \in Procs : At(proc'[q], Remembering, i) => remembered'[i] = "started"
    BY <2>1, <2>2, <2>4, <2>5
  <2>9. \A q, t \in Procs :
           At(proc'[q], Remembering, i) /\ At(proc'[t], Remembering, i) => q = t
    BY <2>1, <2>2
  <2>10. remembered'[i] \in {"no", "started"} =>
            /\ \A a \in Aliases : ~HasMeta(<<a, i>>)'
            /\ \A q \in Procs : ~At(proc'[q], Taking \cup Binding, i)
    BY <1>6, <2>1, <2>3, <2>4
  <2>11. \A q \in Procs : At(proc'[q], Enqueuing, i) => Nowhere(i)'
    BY <1>2, <1>7, <2>1, <2>6
  <2> QED BY <2>7, <2>8, <2>9, <2>10, <2>11
<1>9. BoundOnce'
  <2>1. ASSUME NEW i \in Items, NEW q \in Procs, At(proc'[q], Binding, i)
        PROVE  outbox'[proc'[q].at].meta.st = "unbound" /\ proc'[q].meta.st = "pending"
    <3>1. /\ At(proc[q], Binding, i) /\ proc'[q].at = proc[q].at
          /\ proc'[q].meta = proc[q].meta
      BY <1>1, <1>2, <2>1, Roles DEF At, Gone
    <3>2. outbox[proc[q].at].meta.st = "unbound" /\ proc[q].meta.st = "pending"
      BY <3>1 DEF HomeInv, BoundOnce
    <3>3. proc[q].at \in Places
      BY <3>1, JobFacts, Roles DEF At
    <3> QED BY <3>1, <3>2, <3>3
  <2>2. ASSUME NEW i \in Items, NEW a \in Aliases, outbox'[<<a, i>>].meta.st = "unbound",
               NEW r \in Roots
        PROVE  ~Claimed(i, r)'
    BY <1>4, <1>6, <2>2 DEF HomeInv, BoundOnce
  <2>3. \A i \in Items : \A a, b \in Aliases :
           HasMeta(<<a, i>>)' /\ HasMeta(<<b, i>>)' => a = b
    BY <1>6 DEF HomeInv, BoundOnce
  <2>4. \A i \in Items : \A q, t \in Procs :
           At(proc'[q], Binding, i) /\ At(proc'[t], Binding, i) => q = t
    BY <1>2 DEF HomeInv, BoundOnce
  <2> QED BY <2>1, <2>2, <2>3, <2>4 DEF BoundOnce
<1> QED BY <1>5, <1>8, <1>9 DEF HomeInv

\* A step of nobody, and one that only edits.
LEMMA HomeRests ==
    ASSUME HomeInv, UNCHANGED <<outbox, remembered, proc>>,
           \A r \in Roots, i \in Items, k \in Parts :
              canonical'[r][i][k].st = canonical[r][i][k].st
    PROVE  HomeInv'
<1>1. \A i \in Items : Nowhere(i)' <=> Nowhere(i)
  BY DEF Nowhere
<1>2. \A i \in Items, r \in Roots : Claimed(i, r)' <=> Claimed(i, r)
  BY DEF Claimed
<1>3. \A d : HasMeta(d)' <=> HasMeta(d)
  BY DEF HasMeta
<1>4. RememberedOnce'
  BY <1>1, <1>3 DEF HomeInv, RememberedOnce
<1>5. BoundOnce'
  BY <1>2, <1>3 DEF HomeInv, BoundOnce
<1>6. OneClaim'
  BY <1>2 DEF HomeInv, OneClaim
<1> QED BY <1>4, <1>5, <1>6 DEF HomeInv

\* Only the process that takes a step may claim anything new.
LEMMA NewClaims ==
    ASSUME NEW p \in Procs, OthersSame(p), UNCHANGED <<outbox, canonical>>,
           NEW i \in Items, NEW r \in Roots, Claimed(i, r)'
    PROVE  Claimed(i, r) \/ Carries(proc'[p], i, r)
BY DEF Claimed, OthersSame

\* An item that nobody has begun to remember.
LEMMA NotBegun ==
    ASSUME HomeInv, NEW i \in Items, remembered[i] = "no"
    PROVE  /\ \A r \in Roots : ~Claimed(i, r)
           /\ \A q \in Procs : ~At(proc[q], Remembering \cup Taking \cup Binding, i)
           /\ \A a \in Aliases : ~HasMeta(<<a, i>>)
           /\ Nowhere(i)
<1>1. /\ Nowhere(i)
      /\ \A a \in Aliases : ~HasMeta(<<a, i>>)
      /\ \A q \in Procs : ~At(proc[q], Remembering, i) /\ ~At(proc[q], Taking \cup Binding, i)
  BY DEF HomeInv, RememberedOnce
<1>2. \A q \in Procs : ~At(proc[q], Remembering \cup Taking \cup Binding, i)
  BY <1>1 DEF At
<1>3. \A q \in Procs, r \in Roots : ~Carries(proc[q], i, r)
  BY <1>2 DEF At, Carries, Remembering
<1>4. \A r \in Roots : ~Claimed(i, r)
  BY <1>1, <1>3 DEF Nowhere, HasMeta, Claimed
<1> QED BY <1>1, <1>2, <1>4

LEMMA RememberHome ==
    ASSUME IInv, HomeInv, NEW p \in Procs, NEW i \in Items, NEW a \in Aliases,
           RememberOnline(p, i, a) \/ RememberOffline(p, i, a)
    PROVE  HomeInv'
<1>1. /\ remembered[i] = "no" /\ proc[p].pc = "idle"
      /\ remembered' = [remembered EXCEPT ![i] = "started"]
      /\ UNCHANGED <<outbox, canonical>>
  BY DEF RememberOnline, RememberOffline, stores
<1>2. /\ OthersSame(p) /\ proc'[p].at = <<a, i>>
      /\ proc'[p].pc \in {"w_cache", "q_note"}
  BY RememberOnlineDoes, RememberOfflineDoes
<1>3. /\ Item(proc'[p]) = i /\ proc'[p].pc \in Remembering
      /\ proc'[p].pc \notin Taking \cup Binding
  BY <1>2, PcSets DEF Item, Remembering, Enqueuing, Taking
<1>4. ASSUME NEW q \in Roots, NEW r \in Roots, Carries(proc'[p], i, q), Carries(proc'[p], i, r)
      PROVE  q = r
  BY <1>2, <1>4, PcSets DEF Carries, At, Enqueuing, Taking
<1>5. \A j \in Items \ {i} : \A r \in Roots : ~Carries(proc'[p], j, r)
  BY <1>3 DEF Carries, At
<1>6. OneClaim'
  <2> SUFFICES ASSUME NEW j \in Items, NEW q \in Roots, NEW r \in Roots,
                      Claimed(j, q)', Claimed(j, r)'
               PROVE  q = r
    BY DEF OneClaim
  <2>1. /\ Claimed(j, q) \/ Carries(proc'[p], j, q)
        /\ Claimed(j, r) \/ Carries(proc'[p], j, r)
    BY <1>1, <1>2, NewClaims
  <2>2. j = i => ~Claimed(j, q) /\ ~Claimed(j, r)
    BY <1>1, NotBegun
  <2> QED BY <1>4, <1>5, <2>1, <2>2 DEF HomeInv, OneClaim
<1>7. /\ \A q \in Procs : q # p => proc'[q] = proc[q]
      /\ \A j \in Items : At(proc'[p], Remembering, j) => j = i
      /\ \A j \in Items : ~At(proc'[p], Taking \cup Binding, j) /\ ~At(proc'[p], Binding, j)
      /\ \A j \in Items : At(proc'[p], Enqueuing, j) => j = i
  BY <1>2, <1>3 DEF OthersSame, At
<1>8. /\ \A j \in Items : remembered'[j] = IF j = i THEN "started" ELSE remembered[j]
      /\ \A j \in Items : Nowhere(j)' <=> Nowhere(j)
      /\ \A d : HasMeta(d)' <=> HasMeta(d)
  BY <1>1 DEF IInv, TypeOK, Nowhere, HasMeta
<1>9. /\ Nowhere(i) /\ \A b \in Aliases : ~HasMeta(<<b, i>>)
      /\ \A q \in Procs : ~At(proc[q], Remembering, i) /\ ~At(proc[q], Taking \cup Binding, i)
      /\ \A q \in Procs : ~At(proc[q], Enqueuing, i)
  BY <1>1, NotBegun DEF At, Remembering
<1>10. RememberedOnce'
  <2> USE DEF RememberedOnce
  <2>1. RememberedOnce
    BY DEF HomeInv
  <2> SUFFICES ASSUME NEW j \in Items PROVE RememberedOnce!(j)'
    OBVIOUS
  <2>2. CASE j = i BY <1>7, <1>8, <1>9, <2>2
  <2>3. CASE j # i BY <1>7, <1>8, <2>1, <2>3
  <2> QED BY <2>2, <2>3
<1>11. ASSUME NEW j \in Items, NEW b \in Aliases, outbox[<<b, j>>].meta.st = "unbound",
              NEW r \in Roots
       PROVE  ~Claimed(j, r)'
  <2>1. j # i
    BY <1>9, <1>11 DEF HasMeta
  <2>2. ~Claimed(j, r)
    BY <1>11 DEF HomeInv, BoundOnce
  <2> QED BY <1>1, <1>2, <1>5, <2>1, <2>2, NewClaims
<1>12. BoundOnce'
  BY <1>1, <1>7, <1>8, <1>11 DEF HomeInv, BoundOnce
<1> QED BY <1>6, <1>10, <1>12 DEF HomeInv

LEMMA PickHome ==
    ASSUME IInv, HomeInv, NEW p \in Procs, NEW d \in Places, FlushPick(p, d)
    PROVE  HomeInv'
<1>1. UNCHANGED <<outbox, canonical, remembered>> /\ OthersSame(p)
  BY FlushPickDoes DEF FlushPick, stores
<1>2. CASE Gone(p)
  BY <1>1, <1>2, HomeMoves
<1>3. CASE /\ proc'[p].pc = "f_look" /\ proc'[p].at = d /\ proc'[p].root \in Roots
           /\ outbox[d].meta.st = "pending" /\ outbox[d].meta.expected = proc'[p].root
  <2> DEFINE i == d[2]
  <2>1. i \in Items /\ d = <<d[1], i>> /\ d[1] \in Aliases
    BY PlaceParts
  <2>2. /\ Item(proc'[p]) = i /\ proc'[p].pc \in Taking
        /\ proc'[p].pc \notin Remembering \cup Binding
    BY <1>3, PcSets DEF Item, Remembering, Enqueuing, Taking
  <2>3. HasMeta(<<d[1], i>>) /\ Claimed(i, proc'[p].root)
    BY <1>3, <2>1 DEF HasMeta, Claimed
  <2>4. remembered[i] \notin {"no", "started"}
    BY <2>1, <2>3 DEF HomeInv, RememberedOnce
  <2>5. ASSUME NEW j \in Items, NEW r \in Roots, Carries(proc'[p], j, r)
        PROVE  Claimed(j, r)
    BY <2>2, <2>3, <2>5 DEF Carries, At, Remembering
  <2>6. \A j \in Items, r \in Roots : Claimed(j, r)' => Claimed(j, r)
    BY <1>1, <2>5, NewClaims
  <2>7. OneClaim'
    BY <2>6 DEF HomeInv, OneClaim
  <2>8. /\ \A q \in Procs : q # p => proc'[q] = proc[q]
        /\ \A j \in Items : /\ ~At(proc'[p], Remembering, j) /\ ~At(proc'[p], Binding, j)
                            /\ ~At(proc'[p], Enqueuing, j)
        /\ \A j \in Items : At(proc'[p], Taking \cup Binding, j) => j = i
    BY <1>1, <2>2 DEF OthersSame, At, Remembering
  <2>9. /\ \A j \in Items : Nowhere(j)' <=> Nowhere(j)
        /\ \A c : HasMeta(c)' <=> HasMeta(c)
    BY <1>1 DEF Nowhere, HasMeta
  <2>10. RememberedOnce'
    BY <1>1, <2>4, <2>8, <2>9 DEF HomeInv, RememberedOnce
  <2>11. BoundOnce'
    BY <1>1, <2>6, <2>8, <2>9 DEF HomeInv, BoundOnce
  <2> QED BY <2>7, <2>10, <2>11 DEF HomeInv
<1> QED BY <1>2, <1>3, FlushPickDoes

LEMMA BindStartHome ==
    ASSUME SerialBind, IInv, HomeInv, NEW p \in Procs, NEW i \in Items, NEW a \in Aliases,
           BindStart(p, i, a)
    PROVE  HomeInv'
<1>1. /\ UNCHANGED <<outbox, canonical, remembered>>
      /\ \A q \in Procs : ~At(proc[q], Binding, i)
  BY DEF BindStart, stores, At
<1>2. PICK b \in Aliases : /\ outbox[<<b, i>>].meta.st = "unbound"
                           /\ proc'[p].pc = "b_move" /\ proc'[p].at = <<b, i>>
                           /\ proc'[p].meta.st = "pending" /\ OthersSame(p)
  BY BindStartDoes
<1>3. Item(proc'[p]) = i /\ proc'[p].pc \in Binding
  BY <1>2, PcSets DEF Item
<1>4. HasMeta(<<b, i>>)
  BY <1>2 DEF HasMeta
<1>5. remembered[i] \notin {"no", "started"}
  BY <1>4 DEF HomeInv, RememberedOnce
<1>6. \A j \in Items, r \in Roots : ~Carries(proc'[p], j, r)
  BY <1>3, Roles DEF Carries, At
<1>7. \A j \in Items, r \in Roots : Claimed(j, r)' => Claimed(j, r)
  BY <1>1, <1>2, <1>6, NewClaims
<1>8. OneClaim'
  BY <1>7 DEF HomeInv, OneClaim
<1>9. /\ \A q \in Procs : q # p => proc'[q] = proc[q]
      /\ \A j \in Items : ~At(proc'[p], Remembering, j) /\ ~At(proc'[p], Enqueuing, j)
      /\ \A j \in Items : At(proc'[p], Binding, j) => j = i
      /\ \A j \in Items : At(proc'[p], Taking \cup Binding, j) => j = i
  BY <1>2, <1>3, Roles DEF OthersSame, At, Remembering
<1>10. /\ \A j \in Items : Nowhere(j)' <=> Nowhere(j)
       /\ \A c : HasMeta(c)' <=> HasMeta(c)
  BY <1>1 DEF Nowhere, HasMeta
<1>11. RememberedOnce'
  BY <1>1, <1>5, <1>9, <1>10 DEF HomeInv, RememberedOnce
<1>12. BoundOnce'
  BY <1>1, <1>2, <1>7, <1>9, <1>10 DEF HomeInv, BoundOnce
<1> QED BY <1>8, <1>11, <1>12 DEF HomeInv

\* A step that changes the metadata of one item.
LEMMA EnqueueMetaHome ==
    ASSUME IInv, HomeInv, NEW p \in Procs, EnqueueMeta(p)
    PROVE  HomeInv'
<1>1. /\ proc[p].pc = "q_meta" /\ proc[p].pc \notin {"idle", "f_item"}
      /\ UNCHANGED canonical
  BY DEF EnqueueMeta, stores
<1>0. \E j, n : j = Item(proc[p]) /\ n = proc[p].meta
  OBVIOUS
<1> PICK i, m : i = Item(proc[p]) /\ m = proc[p].meta
  BY <1>0
<1>2. i \in Items /\ At(proc[p], Enqueuing, i) /\ At(proc[p], Remembering, i)
  BY <1>1, JobFacts DEF At, Enqueuing, Remembering
<1>3. PICK a \in Aliases : proc[p].at = <<a, i>>
  BY <1>1, PlaceOf
<1>4. /\ remembered[i] = "started" /\ Nowhere(i)
      /\ \A q \in Procs : At(proc[q], Remembering, i) => q = p
      /\ \A b \in Aliases : ~HasMeta(<<b, i>>)
      /\ \A q \in Procs : ~At(proc[q], Taking \cup Binding, i)
  BY <1>2 DEF HomeInv, RememberedOnce
<1>5. Gone(p) /\ OthersSame(p)
  BY RestDoes DEF EnqueueMeta
<1>6. \A b \in Aliases, j \in Items :
         /\ outbox'[<<b, j>>].meta = IF b = a /\ j = i THEN m ELSE outbox[<<b, j>>].meta
         /\ remembered'[j] = IF j = i THEN "queued" ELSE remembered[j]
  <2>1. /\ outbox' = [outbox EXCEPT ![<<a, i>>] = [outbox[<<a, i>>] EXCEPT !.meta = m]]
        /\ remembered' = [remembered EXCEPT ![i] = "queued"]
    BY <1>3 DEF EnqueueMeta
  <2>2. outbox \in [Places -> Dir] /\ remembered \in [Items -> {"no", "started", "stored", "queued"}]
    BY DEF IInv, TypeOK
  <2>3. [outbox[<<a, i>>] EXCEPT !.meta = m].meta = m
    BY <1>2, <2>2 DEF Places, Dir
  <2> QED BY <1>2, <2>1, <2>2, <2>3 DEF Places
<1>7. \A q \in Procs : q # p => proc'[q] = proc[q]
  BY <1>5 DEF OthersSame
<1>8. \A j \in Items : \A S \in {Remembering, Enqueuing, Taking, Binding, Storing \cup Taking,
                                 Taking \cup Binding} : ~At(proc'[p], S, j)
  BY <1>5, Roles DEF Gone, At, Remembering
<1>9. \A j \in Items, r \in Roots : ~Carries(proc'[p], j, r)
  BY <1>8 DEF Carries
<1>10. ASSUME NEW j \in Items, NEW r \in Roots, Claimed(j, r)'
       PROVE  Claimed(j, r)
  <2>1. \/ \E k \in Parts : canonical[r][j][k].st # "absent"
        \/ \E b \in Aliases : /\ outbox'[<<b, j>>].meta.st = "pending"
                              /\ outbox'[<<b, j>>].meta.expected = r
        \/ \E q \in Procs : Carries(proc'[q], j, r)
    BY <1>1, <1>10 DEF Claimed
  <2>2. CASE \E q \in Procs : Carries(proc'[q], j, r)
    BY <1>7, <1>9, <2>2 DEF Claimed
  <2>3. CASE j = i /\ m.st = "pending" /\ m.expected = r
    <3>1. Carries(proc[p], i, r)
      BY <1>2, <2>3 DEF Carries
    <3> QED BY <2>3, <3>1 DEF Claimed
  <2> QED BY <1>6, <2>1, <2>2, <2>3 DEF Claimed
<1>11. OneClaim'
  BY <1>10 DEF HomeInv, OneClaim
<1>12. \A j \in Items : Nowhere(j)' <=> Nowhere(j)
  BY <1>1 DEF Nowhere
<1>13. \A j \in Items \ {i} : \A b \in Aliases : HasMeta(<<b, j>>)' <=> HasMeta(<<b, j>>)
  BY <1>6 DEF HasMeta
<1>14. RememberedOnce'
  <2> SUFFICES ASSUME NEW j \in Items
      PROVE  /\ remembered'[j] = "no" => Nowhere(j)'
             /\ \A q \in Procs : At(proc'[q], Remembering, j) => remembered'[j] = "started"
             /\ \A q, t \in Procs :
                   At(proc'[q], Remembering, j) /\ At(proc'[t], Remembering, j) => q = t
             /\ remembered'[j] \in {"no", "started"} =>
                   /\ \A b \in Aliases : ~HasMeta(<<b, j>>)'
                   /\ \A q \in Procs : ~At(proc'[q], Taking \cup Binding, j)
             /\ \A q \in Procs : At(proc'[q], Enqueuing, j) => Nowhere(j)'
    BY DEF RememberedOnce
  <2>1. CASE j # i
    BY <1>6, <1>7, <1>8, <1>12, <1>13, <2>1 DEF HomeInv, RememberedOnce
  <2>2. CASE j = i
    BY <1>4, <1>6, <1>7, <1>8, <1>12, <2>2 DEF HomeInv, RememberedOnce
  <2> QED BY <2>1, <2>2
<1>15. \A b, c \in Aliases : HasMeta(<<b, i>>)' /\ HasMeta(<<c, i>>)' => b = c
  BY <1>2, <1>4, <1>6 DEF HasMeta
<1>16. \A q \in Procs : ~At(proc'[q], Binding, i)
  <2>1. \A q \in Procs : ~At(proc[q], Binding, i)
    BY <1>4 DEF At
  <2>2. ~At(proc'[p], Binding, i)
    BY <1>2, <1>8
  <2> QED BY <1>7, <2>1, <2>2
<1>17. ASSUME NEW j \in Items, NEW q \in Procs, At(proc'[q], Binding, j)
       PROVE  outbox'[proc'[q].at].meta.st = "unbound" /\ proc'[q].meta.st = "pending"
  <2>1. q # p /\ proc'[q] = proc[q] /\ At(proc[q], Binding, j) /\ j # i
    BY <1>7, <1>8, <1>16, <1>17
  <2>2. proc[q].pc \notin {"idle", "f_item"} /\ Item(proc[q]) = j
    BY <2>1, Roles DEF At
  <2>3. PICK b \in Aliases : proc[q].at = <<b, j>>
    BY <2>2, PlaceOf
  <2>4. outbox[proc[q].at].meta.st = "unbound" /\ proc[q].meta.st = "pending"
    BY <2>1 DEF HomeInv, BoundOnce
  <2> QED BY <1>6, <2>1, <2>3, <2>4
<1>18. ASSUME m.st = "unbound", NEW r \in Roots PROVE ~Claimed(i, r)'
  <2>1. ~Carries(proc[p], i, r)
    BY <1>2, <1>18, Roles DEF Carries, At
  <2>2. \A q \in Procs : ~Carries(proc[q], i, r)
    BY <1>4, <2>1 DEF Carries, At, Remembering
  <2>3. ~Claimed(i, r)
    BY <1>2, <1>4, <2>2 DEF Claimed, Nowhere, HasMeta
  <2> QED BY <1>2, <1>10, <2>3
<1>19. ASSUME NEW j \in Items, NEW b \in Aliases, outbox'[<<b, j>>].meta.st = "unbound",
              NEW r \in Roots
       PROVE  ~Claimed(j, r)'
  <2>1. CASE j = i
    <3>1. b = a
      BY <1>4, <1>6, <1>19, <2>1 DEF HasMeta
    <3>2. m.st = "unbound"
      BY <1>6, <1>19, <2>1, <3>1
    <3> QED BY <1>18, <2>1, <3>2
  <2>2. CASE j # i
    BY <1>6, <1>10, <1>19, <2>2 DEF HomeInv, BoundOnce
  <2> QED BY <2>1, <2>2
<1>20. BoundOnce'
  <2>1. \A j \in Items : \A b, c \in Aliases : HasMeta(<<b, j>>)' /\ HasMeta(<<c, j>>)' => b = c
    BY <1>13, <1>15 DEF HomeInv, BoundOnce
  <2>2. \A j \in Items : \A q, t \in Procs :
           At(proc'[q], Binding, j) /\ At(proc'[t], Binding, j) => q = t
    BY <1>7, <1>8 DEF HomeInv, BoundOnce
  <2> QED BY <1>17, <1>19, <2>1, <2>2 DEF BoundOnce
<1> QED BY <1>11, <1>14, <1>20 DEF HomeInv

\* The directory of an unbound item moves with its metadata.
LEMMA BindMoveHome ==
    ASSUME IInv, HomeInv, NEW p \in Procs, BindMove(p)
    PROVE  HomeInv'
<1>1. /\ proc[p].pc = "b_move" /\ proc[p].pc \in Binding
      /\ proc[p].pc \notin {"idle", "f_item"} /\ UNCHANGED <<canonical, remembered>>
  BY PcSets DEF BindMove, stores
<1>2. PICK i \in Items, a \in Aliases : Item(proc[p]) = i /\ proc[p].at = <<a, i>>
  BY <1>1, JobFacts, PlaceOf
<1>3. PICK b \in Aliases : b = proc[p].meta.store
  BY <1>1, JobFacts DEF Meta
<1>4. \/ Becomes(p, Idle)
      \/ Becomes(p, [proc[p] EXCEPT !.pc = "b_note", !.at = <<b, i>>])
  BY <1>2, <1>3 DEF BindMove
<1>5. /\ OthersSame(p)
      /\ \/ Gone(p)
         \/ /\ proc'[p].pc = "b_note" /\ proc'[p].at = <<b, i>>
            /\ proc'[p].meta = proc[p].meta /\ proc'[p].root = proc[p].root
  BY <1>4, RestDoes, BindMoveDoes
<1>6. CASE UNCHANGED outbox /\ Gone(p)
  BY <1>1, <1>5, <1>6, HomeMoves
<1>7. CASE a = b /\ UNCHANGED outbox /\ ~Gone(p)
  <2>1. KeepsRole(p)
    BY <1>1, <1>2, <1>5, <1>7, PcSets DEF KeepsRole, SameJob
  <2> QED BY <1>1, <1>5, <1>7, <2>1, HomeMoves
<1>8. CASE a # b /\ outbox' = [outbox EXCEPT ![<<b, i>>] = outbox[<<a, i>>], ![<<a, i>>] = NoDir]
  <2>1. \A c \in Aliases, j \in Items :
           outbox'[<<c, j>>] = IF j = i /\ c = a THEN NoDir
                               ELSE IF j = i /\ c = b THEN outbox[<<a, i>>]
                               ELSE outbox[<<c, j>>]
    BY <1>2, <1>3, <1>8 DEF IInv, TypeOK, Places
  <2>2. At(proc[p], Binding, i)
    BY <1>1, <1>2 DEF At
  <2>3. /\ outbox[<<a, i>>].meta.st = "unbound"
        /\ proc[p].meta.st = "pending"
        /\ \A q \in Procs : At(proc[q], Binding, i) => q = p
        /\ \A r \in Roots : ~Claimed(i, r)
    BY <1>2, <2>2 DEF HomeInv, BoundOnce
  <2>4. \A c \in Aliases : HasMeta(<<c, i>>) => c = a
    BY <1>2, <2>3 DEF HomeInv, BoundOnce, HasMeta
  <2>5. remembered[i] \notin {"no", "started"}
    BY <1>2, <2>3 DEF HomeInv, RememberedOnce, HasMeta
  <2>6. NoDir.meta.st = "absent"
    BY DEF NoDir, NoMeta
  <2>7. /\ \A q \in Procs : q # p => proc'[q] = proc[q]
        /\ \A j \in Items : /\ ~At(proc'[p], Remembering, j) /\ ~At(proc'[p], Enqueuing, j)
                            /\ At(proc'[p], Binding, j) => j = i
                            /\ At(proc'[p], Taking \cup Binding, j) => j = i
                            /\ \A r \in Roots : ~Carries(proc'[p], j, r)
    BY <1>5, PcSets, Roles DEF OthersSame, Gone, At, Remembering, Enqueuing, Taking, Carries, Item
  <2>8. ASSUME NEW j \in Items, NEW r \in Roots, Claimed(j, r)'
        PROVE  Claimed(j, r)
    <3>1. \/ \E k \in Parts : canonical[r][j][k].st # "absent"
          \/ \E c \in Aliases : /\ outbox'[<<c, j>>].meta.st = "pending"
                                /\ outbox'[<<c, j>>].meta.expected = r
          \/ \E q \in Procs : Carries(proc'[q], j, r)
      BY <1>1, <2>8 DEF Claimed
    <3>2. CASE \E c \in Aliases : /\ outbox'[<<c, j>>].meta.st = "pending"
                                  /\ outbox'[<<c, j>>].meta.expected = r
      BY <2>1, <2>3, <2>6, <3>2 DEF Claimed
    <3>3. CASE \E k \in Parts : canonical[r][j][k].st # "absent"
      BY <3>3 DEF Claimed
    <3>4. CASE \E q \in Procs : Carries(proc'[q], j, r)
      <4>1. PICK q \in Procs : Carries(proc'[q], j, r)
        BY <3>4
      <4>2. Carries(proc[q], j, r)
        BY <2>7, <4>1
      <4> QED BY <4>2 DEF Claimed
    <3> QED BY <3>1, <3>2, <3>3, <3>4
  <2>9. OneClaim'
    BY <2>8 DEF HomeInv, OneClaim
  <2>10. /\ \A j \in Items : Nowhere(j)' <=> Nowhere(j)
         /\ \A j \in Items \ {i} : \A c \in Aliases : HasMeta(<<c, j>>)' <=> HasMeta(<<c, j>>)
         /\ \A c \in Aliases : HasMeta(<<c, i>>)' => c = b
    BY <1>1, <2>1, <2>4, <2>6 DEF Nowhere, HasMeta
  <2>11. RememberedOnce'
    <3> SUFFICES ASSUME NEW j \in Items
        PROVE  /\ remembered'[j] = "no" => Nowhere(j)'
               /\ \A q \in Procs : At(proc'[q], Remembering, j) => remembered'[j] = "started"
               /\ \A q, t \in Procs :
                     At(proc'[q], Remembering, j) /\ At(proc'[t], Remembering, j) => q = t
               /\ remembered'[j] \in {"no", "started"} =>
                     /\ \A c \in Aliases : ~HasMeta(<<c, j>>)'
                     /\ \A q \in Procs : ~At(proc'[q], Taking \cup Binding, j)
               /\ \A q \in Procs : At(proc'[q], Enqueuing, j) => Nowhere(j)'
      BY DEF RememberedOnce
    <3> QED BY <1>1, <2>5, <2>7, <2>10 DEF HomeInv, RememberedOnce
  <2>12. ASSUME NEW j \in Items, NEW q \in Procs, At(proc'[q], Binding, j)
         PROVE  outbox'[proc'[q].at].meta.st = "unbound" /\ proc'[q].meta.st = "pending"
    <3>1. CASE q = p
      <4>1. proc'[p].at = <<b, i>> /\ proc'[p].meta = proc[p].meta
        BY <1>5, <2>12, <3>1, Roles DEF At, Gone
      <4> QED BY <1>8, <2>1, <2>3, <3>1, <4>1
    <3>2. CASE q # p
      <4>1. proc'[q] = proc[q] /\ At(proc[q], Binding, j) /\ j # i
        BY <2>3, <2>7, <2>12, <3>2
      <4>2. proc[q].pc \notin {"idle", "f_item"} /\ Item(proc[q]) = j
        BY <4>1, Roles DEF At
      <4>3. PICK c \in Aliases : proc[q].at = <<c, j>>
        BY <4>2, PlaceOf
      <4>4. outbox[proc[q].at].meta.st = "unbound" /\ proc[q].meta.st = "pending"
        BY <4>1 DEF HomeInv, BoundOnce
      <4> QED BY <2>1, <4>1, <4>3, <4>4
    <3> QED BY <3>1, <3>2
  <2>13. ASSUME NEW j \in Items, NEW c \in Aliases, outbox'[<<c, j>>].meta.st = "unbound",
                NEW r \in Roots
         PROVE  ~Claimed(j, r)'
    <3>1. CASE j = i
      BY <2>3, <2>8, <3>1
    <3>2. CASE j # i
      <4>1. outbox[<<c, j>>].meta.st = "unbound"
        BY <2>1, <2>13, <3>2
      <4>2. ~Claimed(j, r)
        BY <4>1 DEF HomeInv, BoundOnce
      <4> QED BY <2>8, <4>2
    <3> QED BY <3>1, <3>2
  <2>14. BoundOnce'
    <3>1. \A j \in Items : \A c, d \in Aliases : HasMeta(<<c, j>>)' /\ HasMeta(<<d, j>>)' => c = d
      BY <2>10 DEF HomeInv, BoundOnce
    <3>2. \A j \in Items : \A q, t \in Procs :
             At(proc'[q], Binding, j) /\ At(proc'[t], Binding, j) => q = t
      BY <2>3, <2>7 DEF HomeInv, BoundOnce
    <3> QED BY <2>12, <2>13, <3>1, <3>2 DEF BoundOnce
  <2> QED BY <2>9, <2>11, <2>14 DEF HomeInv
<1>9. \/ a = b /\ UNCHANGED outbox
      \/ UNCHANGED outbox /\ Becomes(p, Idle)
      \/ a # b /\ outbox' = [outbox EXCEPT ![<<b, i>>] = outbox[<<a, i>>], ![<<a, i>>] = NoDir]
  BY <1>2, <1>3 DEF BindMove
<1> QED BY <1>6, <1>7, <1>8, <1>9, RestDoes

\* An item that nobody claimed is claimed for the root it was bound to.
LEMMA BindMetaHome ==
    ASSUME IInv, HomeInv, NEW p \in Procs, BindMeta(p)
    PROVE  HomeInv'
<1>1. /\ proc[p].pc = "b_meta" /\ proc[p].pc \in Binding
      /\ proc[p].pc \notin {"idle", "f_item"} /\ UNCHANGED <<canonical, remembered>>
  BY PcSets DEF BindMeta, stores
<1>2. PICK i \in Items, a \in Aliases : Item(proc[p]) = i /\ proc[p].at = <<a, i>>
  BY <1>1, JobFacts, PlaceOf
<1>3. PICK m \in Meta : m = proc[p].meta
  BY <1>1, JobFacts
<1>4. OthersSame(p) /\ proc'[p].pc = "b_cache"
  BY BindMetaDoes
<1>5. At(proc[p], Binding, i)
  BY <1>1, <1>2 DEF At
<1>6. /\ outbox[<<a, i>>].meta.st = "unbound" /\ m.st = "pending"
      /\ \A q \in Procs : At(proc[q], Binding, i) => q = p
      /\ \A r \in Roots : ~Claimed(i, r)
  BY <1>2, <1>3, <1>5 DEF HomeInv, BoundOnce
<1>7. \A c \in Aliases : HasMeta(<<c, i>>) => c = a
  BY <1>2, <1>6 DEF HomeInv, BoundOnce, HasMeta
<1>8. remembered[i] \notin {"no", "started"}
  BY <1>2, <1>6 DEF HomeInv, RememberedOnce, HasMeta
<1>9. \A c \in Aliases, j \in Items :
         outbox'[<<c, j>>].meta = IF c = a /\ j = i THEN m ELSE outbox[<<c, j>>].meta
  <2>1. outbox' = [outbox EXCEPT ![<<a, i>>] = [outbox[<<a, i>>] EXCEPT !.exists = TRUE, !.meta = m]]
    BY <1>2, <1>3 DEF BindMeta, IInv, TypeOK
  <2>2. outbox \in [Places -> Dir]
    BY DEF IInv, TypeOK
  <2>3. [outbox[<<a, i>>] EXCEPT !.exists = TRUE, !.meta = m].meta = m
    BY <1>2, <2>2 DEF Places, Dir
  <2> QED BY <1>2, <2>1, <2>2, <2>3 DEF Places
<1>10. /\ \A q \in Procs : q # p => proc'[q] = proc[q]
       /\ \A j \in Items : /\ ~At(proc'[p], Remembering, j) /\ ~At(proc'[p], Enqueuing, j)
                           /\ ~At(proc'[p], Binding, j) /\ ~At(proc'[p], Taking \cup Binding, j)
                           /\ \A r \in Roots : ~Carries(proc'[p], j, r)
  BY <1>4, Roles DEF OthersSame, At, Remembering, Carries
<1>11. ASSUME NEW j \in Items, NEW r \in Roots, Claimed(j, r)'
       PROVE  Claimed(j, r) \/ (j = i /\ r = m.expected)
  <2>1. \/ \E k \in Parts : canonical[r][j][k].st # "absent"
        \/ \E c \in Aliases : /\ outbox'[<<c, j>>].meta.st = "pending"
                              /\ outbox'[<<c, j>>].meta.expected = r
        \/ \E q \in Procs : Carries(proc'[q], j, r)
    BY <1>1, <1>11 DEF Claimed
  <2> QED BY <1>9, <1>10, <2>1 DEF Claimed
<1>12. OneClaim'
  BY <1>6, <1>11 DEF HomeInv, OneClaim
<1>13. /\ \A j \in Items : Nowhere(j)' <=> Nowhere(j)
       /\ \A j \in Items \ {i} : \A c \in Aliases : HasMeta(<<c, j>>)' <=> HasMeta(<<c, j>>)
       /\ \A c \in Aliases : HasMeta(<<c, i>>)' => c = a
  BY <1>1, <1>7, <1>9 DEF Nowhere, HasMeta
<1>14. RememberedOnce'
  <2> SUFFICES ASSUME NEW j \in Items
      PROVE  /\ remembered'[j] = "no" => Nowhere(j)'
             /\ \A q \in Procs : At(proc'[q], Remembering, j) => remembered'[j] = "started"
             /\ \A q, t \in Procs :
                   At(proc'[q], Remembering, j) /\ At(proc'[t], Remembering, j) => q = t
             /\ remembered'[j] \in {"no", "started"} =>
                   /\ \A c \in Aliases : ~HasMeta(<<c, j>>)'
                   /\ \A q \in Procs : ~At(proc'[q], Taking \cup Binding, j)
             /\ \A q \in Procs : At(proc'[q], Enqueuing, j) => Nowhere(j)'
    BY DEF RememberedOnce
  <2> QED BY <1>1, <1>8, <1>10, <1>13 DEF HomeInv, RememberedOnce
<1>15. ASSUME NEW j \in Items, NEW q \in Procs, At(proc'[q], Binding, j)
       PROVE  outbox'[proc'[q].at].meta.st = "unbound" /\ proc'[q].meta.st = "pending"
  <2>1. q # p /\ proc'[q] = proc[q] /\ At(proc[q], Binding, j) /\ j # i
    BY <1>6, <1>10, <1>15
  <2>2. proc[q].pc \notin {"idle", "f_item"} /\ Item(proc[q]) = j
    BY <2>1, Roles DEF At
  <2>3. PICK c \in Aliases : proc[q].at = <<c, j>>
    BY <2>2, PlaceOf
  <2>4. outbox[proc[q].at].meta.st = "unbound" /\ proc[q].meta.st = "pending"
    BY <2>1 DEF HomeInv, BoundOnce
  <2> QED BY <1>9, <2>1, <2>3, <2>4
<1>16. ASSUME NEW j \in Items, NEW c \in Aliases, outbox'[<<c, j>>].meta.st = "unbound",
              NEW r \in Roots
       PROVE  ~Claimed(j, r)'
  <2>1. j # i
    <3>1. CASE c = a BY <1>6, <1>9, <1>16, <3>1
    <3>2. CASE c # a BY <1>7, <1>9, <1>16, <3>2 DEF HasMeta
    <3> QED BY <3>1, <3>2
  <2>2. ~Claimed(j, r)
    BY <1>9, <1>16, <2>1 DEF HomeInv, BoundOnce
  <2> QED BY <1>11, <2>1, <2>2
<1>17. BoundOnce'
  <2>1. \A j \in Items : \A c, d \in Aliases : HasMeta(<<c, j>>)' /\ HasMeta(<<d, j>>)' => c = d
    BY <1>13 DEF HomeInv, BoundOnce
  <2>2. \A j \in Items : \A q, t \in Procs :
           At(proc'[q], Binding, j) /\ At(proc'[t], Binding, j) => q = t
    BY <1>10 DEF HomeInv, BoundOnce
  <2> QED BY <1>15, <1>16, <2>1, <2>2 DEF BoundOnce
<1> QED BY <1>12, <1>14, <1>17 DEF HomeInv

\* A writer touches files of its item under its root only.
LEMMA PutTouches ==
    ASSUME IInv, NEW p \in Procs, proc[p].pc \in Storing \cup Publishing,
           NEW f, PutAt(proc[p].root, Item(proc[p]), proc[p].part, f)
    PROVE  \A r \in Roots, i \in Items :
              \/ \A k \in Parts : canonical'[r][i][k] = canonical[r][i][k]
              \/ At(proc[p], Storing \cup Publishing, i) /\ r = proc[p].root
<1>1. proc[p].root \in Roots /\ Item(proc[p]) \in Items /\ proc[p].part \in Parts
  BY JobFacts, PcSets, Roles
<1> QED BY <1>1, PutDoes DEF At

LEMMA WriteHome ==
    ASSUME IInv, HomeInv, NEW p \in Procs, WriteFile(p) \/ WriteCopied(p)
    PROVE  HomeInv'
<1>1. /\ proc[p].pc \in Writing /\ proc[p].pc \in Storing /\ UNCHANGED outbox
      /\ proc[p].pc \notin {"idle", "f_item"}
  BY PcSets DEF WriteFile, WriteCopied
<1>2. \/ UNCHANGED canonical
      \/ \E f : PutAt(proc[p].root, Item(proc[p]), proc[p].part, f)
  BY DEF WriteFile, WriteCopied
<1>3. \A r \in Roots, i \in Items :
         \/ \A k \in Parts : canonical'[r][i][k].st = canonical[r][i][k].st
         \/ At(proc[p], Storing \cup Publishing, i) /\ r = proc[p].root
  <2>1. proc[p].pc \in Storing \cup Publishing
    BY <1>1
  <2>2. ASSUME NEW f, PutAt(proc[p].root, Item(proc[p]), proc[p].part, f),
               NEW r \in Roots, NEW i \in Items
        PROVE  \/ \A k \in Parts : canonical'[r][i][k] = canonical[r][i][k]
               \/ At(proc[p], Storing \cup Publishing, i) /\ r = proc[p].root
    BY <2>1, <2>2, PutTouches
  <2> QED BY <1>2, <2>2
<1>4. CASE WroteFile(p, proc[p])
  <2>1. CASE KeepsRole(p) /\ UNCHANGED remembered
    BY <1>1, <1>3, <1>4, <2>1, WroteFileDoes, HomeMoves
  <2>2. CASE Gone(p) /\ remembered' = [remembered EXCEPT ![Item(proc[p])] = "stored"]
    BY <1>1, <1>3, <1>4, <2>2, WroteFileDoes, HomeMoves
  <2> QED BY <1>1, <1>4, <2>1, <2>2, PcSets, WroteFileDoes DEF KeepsRole
<1>5. CASE Becomes(p, [proc[p] EXCEPT !.pc = "w_copy"]) /\ UNCHANGED remembered
  <2>1. KeepsRole(p) /\ OthersSame(p)
    BY <1>1, <1>5, PcSets, GoesOnDoes DEF KeepsRole
  <2> QED BY <1>1, <1>3, <1>5, <2>1, HomeMoves
<1>6. CASE Becomes(p, Idle) /\ UNCHANGED remembered
  BY <1>1, <1>3, <1>6, RestDoes, HomeMoves
<1> QED BY <1>4, <1>5, <1>6 DEF WriteFile, WriteCopied

LEMMA FlushHome ==
    ASSUME IInv, HomeInv, NEW p \in Procs,
           FlushLook(p) \/ FlushPut(p) \/ FlushCopied(p) \/ FlushSettle(p)
    PROVE  HomeInv'
<1>1. /\ proc[p].pc \in Publishing /\ proc[p].pc \in Taking
      /\ proc[p].pc \notin {"idle", "f_item"}
      /\ UNCHANGED <<outbox, remembered>>
  BY PcSets DEF FlushLook, FlushPut, FlushCopied, FlushSettle, Taking
<1>2. \/ UNCHANGED canonical
      \/ \E f : PutAt(proc[p].root, Item(proc[p]), proc[p].part, f)
  BY DEF FlushLook, FlushPut, FlushCopied, FlushSettle, stores
<1>3. \A r \in Roots, i \in Items :
         \/ \A k \in Parts : canonical'[r][i][k].st = canonical[r][i][k].st
         \/ At(proc[p], Storing \cup Publishing, i) /\ r = proc[p].root
  <2>1. proc[p].pc \in Storing \cup Publishing
    BY <1>1
  <2>2. CASE UNCHANGED canonical BY <2>2
  <2>3. ASSUME NEW f, PutAt(proc[p].root, Item(proc[p]), proc[p].part, f)
        PROVE  \A r \in Roots, i \in Items :
                  \/ \A k \in Parts : canonical'[r][i][k].st = canonical[r][i][k].st
                  \/ At(proc[p], Storing \cup Publishing, i) /\ r = proc[p].root
    <3>1. \A r \in Roots, i \in Items :
             \/ \A k \in Parts : canonical'[r][i][k] = canonical[r][i][k]
             \/ At(proc[p], Storing \cup Publishing, i) /\ r = proc[p].root
      BY <2>1, <2>3, PutTouches
    <3> QED BY <3>1
  <2> QED BY <1>2, <2>2, <2>3
<1>4. \/ \E outcome : Report(p, outcome)
      \/ \E result : Published(p, result)
      \/ \E pc \in {"f_put", "f_copy", "f_remove"} : Becomes(p, [proc[p] EXCEPT !.pc = pc])
  BY DEF FlushLook, FlushPut, FlushCopied, FlushSettle
<1>5. CASE \E outcome : Report(p, outcome)
  BY <1>1, <1>3, <1>5, ReportDoes, HomeMoves
<1>6. CASE \E result : Published(p, result)
  <2>1. KeepsRole(p) /\ OthersSame(p)
    BY <1>1, <1>6, PcSets, PublishedDoes DEF KeepsRole, Taking
  <2> QED BY <1>1, <1>3, <2>1, HomeMoves
<1>7. CASE \E pc \in {"f_put", "f_copy", "f_remove"} : Becomes(p, [proc[p] EXCEPT !.pc = pc])
  <2>1. PICK pc \in {"f_put", "f_copy", "f_remove"} : Becomes(p, [proc[p] EXCEPT !.pc = pc])
    BY <1>7
  <2>2. KeepsRole(p) /\ OthersSame(p)
    BY <1>1, <2>1, PcSets, GoesOnDoes DEF KeepsRole, Taking
  <2> QED BY <1>1, <1>3, <2>2, HomeMoves
<1> QED BY <1>4, <1>5, <1>6, <1>7

\* What the steps of a remover and of an enqueuer do to the directories.
LEMMA RemoveDoes ==
    ASSUME IInv, NEW p \in Procs, FlushRemove(p)
    PROVE  /\ proc[p].pc = "f_remove"
           /\ OthersSame(p) /\ (Gone(p) \/ UNCHANGED proc)
           /\ \A d \in Places \ {proc[p].at} : outbox'[d] = outbox[d]
           /\ \/ outbox'[proc[p].at].meta = outbox[proc[p].at].meta
              \/ outbox'[proc[p].at].meta.st = "absent"
<1> DEFINE d == proc[p].at
<1>1. proc[p].pc = "f_remove" /\ d \in Places
  BY JobFacts DEF FlushRemove
<1>2. outbox \in [Places -> Dir]
  BY DEF IInv, TypeOK
<1>3. CASE \E name \in FilesIn(d) :
             /\ outbox' = [outbox EXCEPT ![d] = WithoutFile(outbox[d], name)]
             /\ UNCHANGED proc
  <2>1. PICK name \in FilesIn(d) :
             /\ outbox' = [outbox EXCEPT ![d] = WithoutFile(outbox[d], name)]
             /\ UNCHANGED proc
    BY <1>3
  <2>2. name \in {"meta", "note", "event"} /\ outbox[d] \in Dir
    BY <1>1, <1>2 DEF FilesIn, Parts
  <2>3. NoMeta.st = "absent"
    BY DEF NoMeta
  <2> HIDE DEF d
  <2>4. \/ WithoutFile(outbox[d], name).meta = outbox[d].meta
        \/ WithoutFile(outbox[d], name).meta.st = "absent"
    BY <2>2, <2>3 DEF WithoutFile, Dir
  <2>5. OthersSame(p)
    BY <2>1 DEF OthersSame
  <2> QED BY <1>1, <1>2, <2>1, <2>4, <2>5 DEF d
<1>4. CASE UNCHANGED outbox /\ \E outcome : Report(p, outcome)
  BY <1>1, <1>4, ReportDoes
<1>5. CASE outbox' = [outbox EXCEPT ![d] = NoDir] /\ \E outcome : Report(p, outcome)
  <2>1. NoDir.meta.st = "absent"
    BY DEF NoDir, NoMeta
  <2> HIDE DEF d
  <2> QED BY <1>1, <1>2, <1>5, <2>1, ReportDoes DEF d
<1> QED BY <1>3, <1>4, <1>5 DEF FlushRemove

LEMMA RemoveHome ==
    ASSUME IInv, HomeInv, NEW p \in Procs, FlushRemove(p)
    PROVE  HomeInv'
<1>1. /\ UNCHANGED <<canonical, remembered>>
      /\ proc[p].pc = "f_remove" /\ proc[p].pc \notin {"idle", "f_item"}
      /\ proc[p].pc \in Taking
  BY RemoveDoes DEF FlushRemove, stores, Taking
<1>2. PICK i \in Items, a \in Aliases : Item(proc[p]) = i /\ proc[p].at = <<a, i>>
  BY <1>1, JobFacts, PlaceOf
<1>3. proc[p].root \in Roots /\ Carries(proc[p], i, proc[p].root)
  BY <1>1, <1>2, JobFacts, Roles DEF Carries, At
<1>4. outbox[<<a, i>>].meta.st # "unbound"
  BY <1>2, <1>3 DEF HomeInv, BoundOnce, Claimed
<1>5. CASE UNCHANGED proc
  <2>1. KeepsRole(p)
    BY <1>1, <1>5 DEF KeepsRole, SameJob
  <2> QED BY <1>1, <1>2, <1>4, <2>1, RemoveDoes, HomeMoves
<1>6. CASE Gone(p)
  BY <1>1, <1>2, <1>4, <1>6, RemoveDoes, HomeMoves
<1> QED BY <1>5, <1>6, RemoveDoes

\* The directory of an item that is being enqueued, or bound.
LEMMA EnqueueDoes ==
    ASSUME IInv, NEW p \in Procs, EnqueueNote(p) \/ EnqueueEvent(p)
    PROVE  /\ proc[p].pc \in {"q_note", "q_event"}
           /\ OthersSame(p) /\ SameJob(p) /\ proc'[p].pc \in {"q_event", "q_meta"}
           /\ \A d \in Places \ {proc[p].at} : outbox'[d] = outbox[d]
           /\ \/ outbox'[proc[p].at].meta = outbox[proc[p].at].meta
              \/ outbox'[proc[p].at].meta.st = "absent"
<1>1. /\ proc[p].pc \in {"q_note", "q_event"}
      /\ proc[p].at \in Places
  BY JobFacts DEF EnqueueNote, EnqueueEvent
<1>2. outbox \in [Places -> Dir]
  BY DEF IInv, TypeOK
<1>3. \E pc \in {"q_event", "q_meta"} : Becomes(p, [proc[p] EXCEPT !.pc = pc])
  BY DEF EnqueueNote, EnqueueEvent
<1>4. OthersSame(p) /\ SameJob(p) /\ proc'[p].pc \in {"q_event", "q_meta"}
  <2>1. PICK pc \in {"q_event", "q_meta"} : Becomes(p, [proc[p] EXCEPT !.pc = pc])
    BY <1>3
  <2> QED BY <2>1, GoesOnDoes
<1>5. CASE EnqueueNote(p)
  <2> DEFINE n == [NoDir EXCEPT !.exists = TRUE, !.note = Whole(proc[p].meta.hash)]
  <2>1. n.meta.st = "absent"
    BY DEF NoDir, NoMeta
  <2>2. outbox' = [outbox EXCEPT ![proc[p].at] = n]
    BY <1>5 DEF EnqueueNote
  <2> HIDE DEF n
  <2> QED BY <1>1, <1>2, <1>4, <2>1, <2>2
<1>6. CASE EnqueueEvent(p)
  <2> DEFINE n == [outbox[proc[p].at] EXCEPT !.event = Whole(proc[p].meta.hash)]
  <2>1. n.meta = outbox[proc[p].at].meta
    BY <1>1, <1>2 DEF Dir
  <2>2. outbox' = [outbox EXCEPT ![proc[p].at] = n]
    BY <1>6 DEF EnqueueEvent
  <2> HIDE DEF n
  <2> QED BY <1>1, <1>2, <1>4, <2>1, <2>2
<1> QED BY <1>5, <1>6

LEMMA EnqueueHome ==
    ASSUME IInv, HomeInv, NEW p \in Procs, EnqueueNote(p) \/ EnqueueEvent(p)
    PROVE  HomeInv'
<1>1. UNCHANGED <<canonical, remembered>>
  BY DEF EnqueueNote, EnqueueEvent, stores
<1>2. proc[p].pc \in Enqueuing /\ proc[p].pc \notin {"idle", "f_item"}
  BY EnqueueDoes DEF Enqueuing
<1>3. PICK i \in Items, a \in Aliases : Item(proc[p]) = i /\ proc[p].at = <<a, i>>
  BY <1>2, JobFacts, PlaceOf
<1>4. outbox[<<a, i>>].meta.st = "absent"
  BY <1>2, <1>3 DEF HomeInv, RememberedOnce, HasMeta, At, Remembering
<1>5. KeepsRole(p)
  BY <1>2, EnqueueDoes DEF KeepsRole, Enqueuing
<1> QED BY <1>1, <1>3, <1>4, <1>5, EnqueueDoes, HomeMoves

LEMMA BindPayloadDoes ==
    ASSUME IInv, NEW p \in Procs, BindNote(p) \/ BindEvent(p)
    PROVE  /\ proc[p].pc \in {"b_note", "b_event"}
           /\ OthersSame(p)
           /\ Gone(p) \/ (SameJob(p) /\ proc'[p].pc \in {"b_event", "b_meta"})
           /\ \A d \in Places \ {proc[p].at} : outbox'[d] = outbox[d]
           /\ outbox'[proc[p].at].meta = outbox[proc[p].at].meta
<1>1. proc[p].pc \in {"b_note", "b_event"} /\ proc[p].at \in Places
  BY JobFacts DEF BindNote, BindEvent
<1>2. outbox \in [Places -> Dir]
  BY DEF IInv, TypeOK
<1>3. OthersSame(p) /\ (Gone(p) \/ (SameJob(p) /\ proc'[p].pc \in {"b_event", "b_meta"}))
  <2>1. \/ Becomes(p, Idle)
        \/ \E pc \in {"b_event", "b_meta"} : Becomes(p, [proc[p] EXCEPT !.pc = pc])
    BY DEF BindNote, BindEvent
  <2>2. CASE Becomes(p, Idle)
    BY <2>2, RestDoes
  <2>3. ASSUME NEW pc \in {"b_event", "b_meta"}, Becomes(p, [proc[p] EXCEPT !.pc = pc])
        PROVE  OthersSame(p) /\ SameJob(p) /\ proc'[p].pc \in {"b_event", "b_meta"}
    BY <2>3, GoesOnDoes
  <2> QED BY <2>1, <2>2, <2>3
<1>4. ASSUME NEW n, outbox' = [outbox EXCEPT ![proc[p].at] = n],
             n.meta = outbox[proc[p].at].meta
      PROVE  /\ \A d \in Places \ {proc[p].at} : outbox'[d] = outbox[d]
             /\ outbox'[proc[p].at].meta = outbox[proc[p].at].meta
  BY <1>1, <1>2, <1>4
<1>5. CASE BindNote(p)
  <2> DEFINE n == [outbox[proc[p].at] EXCEPT !.exists = TRUE, !.note = Whole(proc[p].meta.hash)]
  <2>1. n.meta = outbox[proc[p].at].meta
    BY <1>1, <1>2 DEF Dir
  <2>2. outbox' = [outbox EXCEPT ![proc[p].at] = n]
    BY <1>1, <1>2, <1>5 DEF BindNote
  <2> HIDE DEF n
  <2> QED BY <1>1, <1>3, <1>4, <2>1, <2>2
<1>6. CASE BindEvent(p)
  <2> DEFINE n == [outbox[proc[p].at] EXCEPT !.exists = TRUE, !.event = Whole(proc[p].meta.hash)]
  <2>1. n.meta = outbox[proc[p].at].meta
    BY <1>1, <1>2 DEF Dir
  <2>2. outbox' = [outbox EXCEPT ![proc[p].at] = n]
    BY <1>1, <1>2, <1>6 DEF BindEvent
  <2> HIDE DEF n
  <2> QED BY <1>1, <1>3, <1>4, <2>1, <2>2
<1> QED BY <1>5, <1>6

LEMMA BindPayloadHome ==
    ASSUME IInv, HomeInv, NEW p \in Procs, BindNote(p) \/ BindEvent(p)
    PROVE  HomeInv'
<1>1. UNCHANGED <<canonical, remembered>>
  BY DEF BindNote, BindEvent, stores
<1>2. Gone(p) \/ KeepsRole(p)
  BY BindPayloadDoes, PcSets DEF KeepsRole
<1> QED BY <1>1, <1>2, BindPayloadDoes, HomeMoves

\* A step between jobs.
LEMMA FlushStartDoes ==
    ASSUME IInv, NEW p \in Procs, FlushStart(p)
    PROVE  Gone(p) /\ OthersSame(p)
<1> DEFINE t == [Idle EXCEPT !.pc = "f_item", !.cfg = config,
                             !.todo = {d \in Places : outbox[d].exists}]
<1>1. t.pc = "f_item"
  BY DEF Idle
<1>2. Becomes(p, t)
  BY DEF FlushStart
<1> HIDE DEF t
<1> QED BY <1>1, <1>2, BecomesDoes DEF Gone

LEMMA IdleHome ==
    ASSUME IInv, HomeInv, NEW p \in Procs,
           FlushStart(p) \/ FlushEnd(p) \/ Crash(p) \/ RecordIdentity(p)
    PROVE  HomeInv'
<1>1. UNCHANGED <<outbox, canonical, remembered>>
  BY DEF FlushStart, FlushEnd, Crash, RecordIdentity, stores
<1>2. OthersSame(p) /\ (Gone(p) \/ KeepsRole(p))
  BY FlushStartDoes, RecordIdentityDoes, RestDoes, PcSets
     DEF FlushEnd, Crash, KeepsRole
<1> QED BY <1>1, <1>2, HomeMoves

LEMMA EditDoes ==
    ASSUME IInv, NEW r \in Roots, NEW i \in Items, NEW k \in Parts, Edit(r, i, k)
    PROVE  /\ \A q \in Roots, j \in Items, l \in Parts :
                 canonical'[q][j][l].st = canonical[q][j][l].st
           /\ UNCHANGED <<outbox, archive, remembered, proc>>
<1> DEFINE f == [canonical[r][i][k] EXCEPT !.edited = TRUE]
<1>1. canonical \in Tree /\ canonical[r][i][k] \in File
  BY DEF IInv, TypeOK, Tree
<1>2. f.st = canonical[r][i][k].st
  BY <1>1 DEF File
<1>3. \A q \in Roots, j \in Items, l \in Parts :
         canonical'[q][j][l] = IF q = r /\ j = i /\ l = k THEN f ELSE canonical[q][j][l]
  BY <1>1 DEF Edit, Tree
<1> HIDE DEF f
<1> QED BY <1>2, <1>3 DEF Edit

LEMMA HomeStep == SerialBind /\ IInv /\ HomeInv /\ [Next]_vars => HomeInv'
<1> SUFFICES ASSUME SerialBind, IInv, HomeInv, [Next]_vars PROVE HomeInv'
  OBVIOUS
<1>1. ASSUME NEW p \in Procs, Start(p) PROVE HomeInv'
  BY <1>1, RememberHome, BindStartHome, IdleHome DEF Start
<1>2. ASSUME NEW p \in Procs, RememberStep(p) PROVE HomeInv'
  BY <1>2, IdleHome, WriteHome, EnqueueHome, EnqueueMetaHome DEF RememberStep
<1>3. ASSUME NEW p \in Procs, FlushStep(p) PROVE HomeInv'
  BY <1>3, PickHome, FlushHome, RemoveHome, IdleHome DEF FlushStep
<1>4. ASSUME NEW p \in Procs, BindStep(p) PROVE HomeInv'
  BY <1>4, BindMoveHome, BindPayloadHome, BindMetaHome DEF BindStep
<1>5. CASE Environment
  <2>1. ASSUME NEW r \in Roots, Mount(r) \/ Unmount(r) PROVE HomeInv'
    BY <2>1, HomeRests DEF Mount, Unmount, stores
  <2>2. ASSUME NEW a \in Aliases, NEW r \in Owners, Repoint(a, r) PROVE HomeInv'
    BY <2>2, HomeRests DEF Repoint, stores
  <2>3. ASSUME NEW r \in Roots, NEW i \in Items, NEW k \in Parts, Edit(r, i, k) PROVE HomeInv'
    BY <2>3, EditDoes, HomeRests
  <2> QED BY <1>5, <2>1, <2>2, <2>3, IdleHome DEF Environment
<1>6. CASE UNCHANGED vars
  BY <1>6, HomeRests DEF vars
<1> QED BY <1>1, <1>2, <1>3, <1>4, <1>5, <1>6 DEF Next, Step

LEMMA HomeInit == Init => HomeInv
<1> SUFFICES ASSUME Init PROVE HomeInv
  OBVIOUS
<1>1. /\ \A i \in Items : Nowhere(i) /\ remembered[i] = "no"
      /\ \A d \in Places : outbox[d].meta.st = "absent"
      /\ \A p \in Procs : proc[p].pc = "idle"
  BY IdleFields DEF Init, NoTree, Nowhere, Absent, NoDir, NoMeta
<1>2. \A i \in Items, a \in Aliases : outbox[<<a, i>>].meta.st = "absent"
  BY <1>1 DEF Places
<1>3. \A p \in Procs, i \in Items : \A S \in {Remembering, Enqueuing, Binding, Storing \cup Taking,
                                              Taking \cup Binding} : ~At(proc[p], S, i)
  BY <1>1, Roles DEF At, Remembering
<1>4. \A i \in Items, r \in Roots : ~Claimed(i, r)
  BY <1>1, <1>2, <1>3 DEF Claimed, Carries, Nowhere
<1>5. RememberedOnce
  BY <1>1, <1>2, <1>3 DEF RememberedOnce, HasMeta
<1>6. BoundOnce
  BY <1>2, <1>3 DEF BoundOnce, HasMeta
<1> QED BY <1>4, <1>5, <1>6 DEF HomeInv, OneClaim

\* One memory never ends up in two stores, for any number of processes that
\* remember, flush and bind while aliases are re-pointed and stores come and
\* go, as long as nobody binds one item from two shells at once: the first
\* store that is meant for an item is the only one that is ever written to.
THEOREM OneHomeForEach == ASSUME SerialBind PROVE Spec => []SingleHome
<1>1. IInv /\ HomeInv => SingleHome
  BY DEF HomeInv, OneClaim, Claimed, SingleHome, Parts
<1>2. IInv /\ HomeInv /\ [Next]_vars => HomeInv'
  BY HomeStep
<1> QED BY <1>1, <1>2, HomeInit, Invariance, PTL DEF Spec

-----------------------------------------------------------------------------
(* Nothing accepted is lost, and the local copy goes last.                 *)

InArchive(i) == \E r \in Roots : PartsOf(i) \cup {"meta"} \subseteq archive[r][i]
Safe(i) == InArchive(i) /\ \E r \in Roots : Delivered(i, r)
PayloadAt(d) == \A k \in PartsOf(d[2]) : outbox[d][k].st = "whole"

\* What a process has done so far, and who vouches for the item meanwhile.
StepOK(s) ==
    /\ s.pc \in Storing =>
          /\ s.part = "event" => /\ canonical[s.root][Item(s)]["note"].st = "whole"
                                 /\ Item(s) \in EventItems
          /\ s.part = "note" => canonical[s.root][Item(s)]["event"].st = "absent"
    /\ s.pc \in Enqueuing => s.meta.st # "absent"
    /\ s.pc = "q_event" => outbox[s.at].note.st = "whole"
    /\ s.pc = "q_meta" => PayloadAt(s.at)
    /\ s.pc \in Publishing =>
          /\ \A k \in Parts : s.res[k] \in {"written", "present"} =>
                canonical[s.root][Item(s)][k].st = "whole"
          /\ s.part = "event" => s.res["note"] # "none"
          /\ s.pc = "f_settle" => \A k \in PartsOf(Item(s)) : s.res[k] # "none"
          /\ HasMeta(s.at) \/ Safe(Item(s))
    /\ s.pc = "f_remove" => Delivered(Item(s), s.root) /\ Safe(Item(s))

\* Metadata in the outbox stands for a payload beside it, or for one that is
\* delivered and archived; and what was accepted has the one or the other.
KeptInv ==
    /\ \A p \in Procs : StepOK(proc[p])
    /\ \A d \in Places : HasMeta(d) => PayloadAt(d) \/ Safe(d[2])
    /\ \A i \in Items :
          /\ remembered[i] = "stored" => \E r \in Roots : Delivered(i, r)
          /\ remembered[i] = "queued" => Safe(i) \/ \E a \in Aliases : HasMeta(<<a, i>>)

\* Stores and archives only grow.
Grows == /\ \A r \in Roots, i \in Items, k \in Parts :
               canonical[r][i][k].st = "whole" => canonical'[r][i][k].st = "whole"
         /\ \A r \in Roots, i \in Items : archive[r][i] \subseteq archive'[r][i]

LEMMA PartsFacts ==
    ASSUME NEW i
    PROVE  /\ PartsOf(i) \subseteq Parts /\ "note" \in PartsOf(i)
           /\ \A k \in PartsOf(i) : k = "note" \/ k = "event"
           /\ "event" \in PartsOf(i) <=> i \in EventItems
           /\ Parts = {"note", "event"}
BY DEF PartsOf, Parts

LEMMA ArchiveGrows ==
    ASSUME IInv, [Next]_vars
    PROVE  \A r \in Roots, i \in Items : archive[r][i] \subseteq archive'[r][i]
<1> DEFINE Goal == \A r \in Roots, i \in Items : archive[r][i] \subseteq archive'[r][i]
<1>1. CASE UNCHANGED archive
  BY <1>1
<1>2. ASSUME NEW p \in Procs, FlushSettle(p) PROVE Goal
  <2>1. proc[p].root \in Roots /\ Item(proc[p]) \in Items
    BY <1>2, JobFacts, PcSets DEF FlushSettle
  <2>2. archive \in [Roots -> [Items -> SUBSET {"meta", "note", "event"}]]
    BY DEF IInv, TypeOK
  <2>3. \/ UNCHANGED archive
        \/ archive' = [archive EXCEPT ![proc[p].root][Item(proc[p])] = @ \cup Snapshot(proc[p].at)]
    BY <1>2 DEF FlushSettle
  <2> QED BY <1>1, <2>1, <2>2, <2>3
<1>3. UNCHANGED archive \/ \E p \in Procs : FlushSettle(p)
  <2>1. ASSUME NEW p \in Procs, Start(p) PROVE UNCHANGED archive
    BY <2>1 DEF Start, RememberOnline, RememberOffline, BindStart, FlushStart, stores
  <2>2. ASSUME NEW p \in Procs, RememberStep(p) PROVE UNCHANGED archive
    BY <2>2 DEF RememberStep, RecordIdentity, WriteFile, WriteCopied, EnqueueNote, EnqueueEvent,
       EnqueueMeta, stores
  <2>3. ASSUME NEW p \in Procs, FlushStep(p), ~FlushSettle(p) PROVE UNCHANGED archive
    BY <2>3 DEF FlushStep, FlushPick, FlushLook, FlushPut, FlushCopied, FlushRemove, FlushEnd, stores
  <2>4. ASSUME NEW p \in Procs, BindStep(p) PROVE UNCHANGED archive
    BY <2>4 DEF BindStep, BindMove, BindNote, BindEvent, BindMeta, stores
  <2>5. ASSUME Environment PROVE UNCHANGED archive
    BY <2>5 DEF Environment, Mount, Unmount, Repoint, Edit, Crash, stores
  <2>6. ASSUME UNCHANGED vars PROVE UNCHANGED archive
    BY <2>6 DEF vars
  <2> QED BY <2>1, <2>2, <2>3, <2>4, <2>5, <2>6 DEF Next, Step
<1> QED BY <1>1, <1>2, <1>3

LEMMA StepGrows ==
    ASSUME IInv, CopyInv, [Next]_vars
    PROVE  Grows
<1>1. Stable
  BY CopyStep
<1>2. \A r \in Roots, i \in Items, k \in Parts : canonical[r][i][k] \in File
  BY DEF IInv, TypeOK, Tree
<1>3. ASSUME NEW r \in Roots, NEW i \in Items, NEW k \in Parts, canonical[r][i][k].st = "whole"
      PROVE  canonical'[r][i][k].st = "whole"
  <2>1. canonical'[r][i][k] \in {canonical[r][i][k], [canonical[r][i][k] EXCEPT !.edited = TRUE]}
    BY <1>1, <1>3 DEF Stable
  <2>2. [canonical[r][i][k] EXCEPT !.edited = TRUE].st = canonical[r][i][k].st
    BY <1>2 DEF File
  <2> QED BY <1>3, <2>1, <2>2
<1> QED BY <1>3, ArchiveGrows DEF Grows

LEMMA SafeStays ==
    ASSUME Grows, NEW i \in Items
    PROVE  /\ \A r \in Roots : Delivered(i, r) => Delivered(i, r)'
           /\ InArchive(i) => InArchive(i)'
           /\ Safe(i) => Safe(i)'
<1>1. \A r \in Roots : Delivered(i, r) => Delivered(i, r)'
  BY PartsFacts DEF Grows, Delivered, HasPayload
<1>2. InArchive(i) => InArchive(i)'
  BY DEF Grows, InArchive
<1> QED BY <1>1, <1>2 DEF Safe

\* What the step of p may change for the others.
Elsewhere(p) ==
    /\ OthersSame(p)
    /\ \A r \in Roots, i \in Items :
          \/ \A k \in Parts : canonical'[r][i][k].st = canonical[r][i][k].st
          \/ At(proc[p], Storing \cup Publishing, i)
    /\ \A d \in Places : \/ outbox'[d] = outbox[d]
                         \/ At(proc[p], Enqueuing \cup Binding \cup {"f_remove"}, d[2])

LEMMA OthersOK ==
    ASSUME IInv, HomeInv, KeptInv, Grows, NEW p \in Procs, Elsewhere(p),
           NEW q \in Procs, q # p
    PROVE  StepOK(proc[q])'
<1>1. proc'[q] = proc[q] /\ StepOK(proc[q])
  BY DEF Elsewhere, OthersSame, KeptInv
<1>2. CASE proc[q].pc \in {"idle", "f_item"} \cup Binding \cup {"b_cache"}
  BY <1>1, <1>2, PcSets DEF StepOK, Enqueuing
<1>3. CASE proc[q].pc \notin {"idle", "f_item"} \cup Binding \cup {"b_cache"}
  <2>1. PICK i \in Items, a \in Aliases : Item(proc[q]) = i /\ proc[q].at = <<a, i>>
    BY <1>3, JobFacts, PlaceOf
  <2>2. <<a, i>> \in Places /\ <<a, i>>[2] = i
    BY DEF Places
  <2>3. CASE proc[q].pc \in Storing
    <3>1. At(proc[q], Remembering, i) /\ proc[q].root \in Roots
      BY <2>1, <2>3, JobFacts, PcSets, Roles DEF At, Remembering
    <3>2. ~At(proc[p], Storing \cup Publishing, i)
      BY <3>1 DEF HomeInv, RememberedOnce, At, Remembering, Taking
    <3>3. \A k \in Parts : canonical'[proc[q].root][i][k].st = canonical[proc[q].root][i][k].st
      BY <3>1, <3>2 DEF Elsewhere
    <3> QED BY <1>1, <2>1, <2>3, <3>3, PcSets DEF StepOK, Parts, Enqueuing
  <2>4. CASE proc[q].pc \in Enqueuing
    <3>1. At(proc[q], Remembering, i)
      BY <2>1, <2>4 DEF At, Remembering
    <3>2. ~At(proc[p], Enqueuing \cup Binding \cup {"f_remove"}, i)
      BY <3>1 DEF HomeInv, RememberedOnce, At, Remembering, Taking
    <3>3. outbox'[<<a, i>>] = outbox[<<a, i>>]
      BY <2>2, <3>2 DEF Elsewhere
    <3> QED BY <1>1, <2>1, <2>2, <2>4, <3>3, PcSets DEF StepOK, Enqueuing, PayloadAt
  <2>5. CASE proc[q].pc \in Publishing
    <3>1. /\ At(proc[q], Taking, i) /\ proc[q].root \in Roots
          /\ Carries(proc[q], i, proc[q].root)
      BY <2>1, <2>5, JobFacts, PcSets, Roles DEF At, Taking, Carries
    <3>2. remembered[i] \notin {"no", "started"}
      BY <3>1 DEF HomeInv, RememberedOnce, At
    <3>3. ~At(proc[p], Enqueuing, i)
      BY <3>2 DEF HomeInv, RememberedOnce, At, Remembering
    <3>4. ~At(proc[p], Binding, i)
      <4>1. SUFFICES ASSUME At(proc[p], Binding, i) PROVE FALSE
        OBVIOUS
      <4>2. PICK b \in Aliases : proc[p].at = <<b, i>>
        BY <4>1, PlaceOf, Roles DEF At
      <4>3. outbox[<<b, i>>].meta.st = "unbound"
        BY <4>1, <4>2 DEF HomeInv, BoundOnce
      <4> QED BY <3>1, <4>3 DEF HomeInv, BoundOnce, Claimed
    <3>5. HasMeta(<<a, i>>) \/ Safe(i)
      BY <1>1, <2>1, <2>5 DEF StepOK
    <3>6. (HasMeta(<<a, i>>) \/ Safe(i))'
      <4>1. CASE outbox'[<<a, i>>] = outbox[<<a, i>>]
        BY <3>5, <4>1, SafeStays DEF HasMeta
      <4>2. CASE At(proc[p], {"f_remove"}, i)
        <5>1. Safe(i)
          BY <4>2 DEF KeptInv, StepOK, At
        <5> QED BY <5>1, SafeStays
      <4> QED BY <2>2, <3>3, <3>4, <4>1, <4>2 DEF Elsewhere, At
    <3>7. \A k \in Parts : canonical[proc[q].root][i][k].st = "whole" =>
             canonical'[proc[q].root][i][k].st = "whole"
      BY <3>1 DEF Grows
    <3> QED BY <1>1, <2>1, <2>5, <3>6, <3>7, PcSets DEF StepOK, Enqueuing
  <2>6. CASE proc[q].pc = "f_remove"
    <3>1. proc[q].root \in Roots /\ Delivered(i, proc[q].root) /\ Safe(i)
      BY <1>1, <2>1, <2>6, JobFacts, PcSets DEF StepOK
    <3>2. Delivered(i, proc[q].root)' /\ Safe(i)'
      <4>1. PICK r \in Roots : r = proc[q].root
        BY <3>1
      <4>2. Delivered(i, r)' /\ Safe(i)'
        BY <3>1, <4>1, SafeStays
      <4> QED BY <1>1, <4>1, <4>2
    <3> QED BY <1>1, <2>1, <2>6, <3>2, PcSets DEF StepOK, Enqueuing
  <2> QED BY <1>3, <2>3, <2>4, <2>5, <2>6, PcSets DEF IInv, TypeOK, Process, Control, Enqueuing
<1> QED BY <1>2, <1>3

\* It remains to look at the process itself and at its item.
LEMMA KeptMoves ==
    ASSUME IInv, HomeInv, KeptInv, Grows, NEW p \in Procs, Elsewhere(p),
           StepOK(proc[p])',
           \A d \in Places : outbox'[d] # outbox[d] /\ HasMeta(d)' =>
              PayloadAt(d)' \/ Safe(d[2])',
           \A i \in Items : remembered'[i] = "stored" =>
              remembered[i] = "stored" \/ \E r \in Roots : Delivered(i, r)',
           \A i \in Items : remembered'[i] = "queued" =>
              \/ Safe(i)' \/ \E a \in Aliases : HasMeta(<<a, i>>)'
              \/ /\ remembered[i] = "queued"
                 /\ \A a \in Aliases : outbox'[<<a, i>>] = outbox[<<a, i>>]
    PROVE  KeptInv'
<1>1. \A q \in Procs : StepOK(proc[q])'
  BY OthersOK
<1>2. ASSUME NEW d \in Places, HasMeta(d)'
      PROVE  PayloadAt(d)' \/ Safe(d[2])'
  <2>1. CASE outbox'[d] # outbox[d]
    BY <1>2, <2>1
  <2>2. CASE outbox'[d] = outbox[d]
    <3>1. PayloadAt(d) \/ Safe(d[2])
      BY <1>2, <2>2 DEF KeptInv, HasMeta
    <3>2. d[2] \in Items
      BY PlaceParts
    <3>3. Safe(d[2]) => Safe(d[2])'
      BY <3>2, SafeStays
    <3> QED BY <2>2, <3>1, <3>3 DEF PayloadAt
  <2> QED BY <2>1, <2>2
<1>3. ASSUME NEW i \in Items, remembered'[i] = "stored"
      PROVE  \E r \in Roots : Delivered(i, r)'
  BY <1>3, SafeStays DEF KeptInv
<1>4. ASSUME NEW i \in Items, remembered'[i] = "queued"
      PROVE  Safe(i)' \/ \E a \in Aliases : HasMeta(<<a, i>>)'
  <2>1. CASE remembered[i] = "queued" /\ \A a \in Aliases : outbox'[<<a, i>>] = outbox[<<a, i>>]
    BY <2>1, SafeStays DEF KeptInv, HasMeta
  <2> QED BY <1>4, <2>1
<1> QED BY <1>1, <1>2, <1>3, <1>4 DEF KeptInv

\* A step that leaves the outbox and the stores alone.
LEMMA KeptQuiet ==
    ASSUME IInv, HomeInv, KeptInv, Grows, NEW p \in Procs, OthersSame(p),
           StepOK(proc[p])', UNCHANGED <<outbox, canonical>>,
           \A i \in Items : remembered'[i] \in {remembered[i], "started"}
    PROVE  KeptInv'
<1>1. Elsewhere(p)
  BY DEF Elsewhere
<1> QED BY <1>1, KeptMoves

\* A process that has nothing in hand.
LEMMA FreeOK ==
    ASSUME NEW p \in Procs,
           \/ Gone(p)
           \/ proc'[p].pc \in Binding \cup {"b_cache"}
           \/ proc'[p].pc = "q_note" /\ proc'[p].meta.st # "absent"
    PROVE  StepOK(proc[p])'
BY PcSets DEF StepOK, Gone, Enqueuing

\* The file a writer works on; its root is mounted.
LEMMA WriterFacts ==
    ASSUME IInv, CopyInv, StableMounts, NEW p \in Procs,
           proc[p].pc \in Storing \cup Publishing
    PROVE  \E i \in Items, a \in Aliases, r \in Roots, k \in Parts :
              /\ Item(proc[p]) = i /\ proc[p].at = <<a, i>>
              /\ proc[p].root = r /\ proc[p].part = k
              /\ r \in mounted
              /\ \A l \in Parts : FileAt(r, i, l) = canonical[r][i][l]
<1>1. proc[p].pc \notin {"idle", "f_item"} /\ proc[p].pc \in InStore
  BY PcSets
<1>2. PICK a \in Aliases : proc[p].at = <<a, Item(proc[p])>>
  BY <1>1, PlaceOf
<1>3. proc[p].root \in mounted
  BY DEF CopyInv
<1> QED BY <1>1, <1>2, <1>3, JobFacts DEF FileAt

\* A step of a writer.
LEMMA WriterKept ==
    ASSUME IInv, HomeInv, KeptInv, Grows, NEW p \in Procs,
           proc[p].pc \in Storing \cup Publishing, OthersSame(p), UNCHANGED outbox,
           \/ UNCHANGED canonical
           \/ \E f : PutAt(proc[p].root, Item(proc[p]), proc[p].part, f),
           StepOK(proc[p])',
           \A i \in Items : \/ remembered'[i] = remembered[i]
                            \/ remembered'[i] = "stored" /\ \E r \in Roots : Delivered(i, r)'
    PROVE  KeptInv'
<1>1. \A r \in Roots, i \in Items :
         \/ \A k \in Parts : canonical'[r][i][k].st = canonical[r][i][k].st
         \/ At(proc[p], Storing \cup Publishing, i)
  <2>1. CASE UNCHANGED canonical BY <2>1
  <2>2. ASSUME NEW f, PutAt(proc[p].root, Item(proc[p]), proc[p].part, f)
        PROVE  \A r \in Roots, i \in Items :
                  \/ \A k \in Parts : canonical'[r][i][k].st = canonical[r][i][k].st
                  \/ At(proc[p], Storing \cup Publishing, i)
    <3>1. \A r \in Roots, i \in Items :
             \/ \A k \in Parts : canonical'[r][i][k] = canonical[r][i][k]
             \/ At(proc[p], Storing \cup Publishing, i) /\ r = proc[p].root
      BY <2>2, PutTouches
    <3> QED BY <3>1
  <2> QED BY <2>1, <2>2
<1>2. Elsewhere(p)
  BY <1>1 DEF Elsewhere
<1>3. \A i \in Items : remembered'[i] = "stored" =>
         remembered[i] = "stored" \/ \E r \in Roots : Delivered(i, r)'
  OBVIOUS
<1>4. \A i \in Items : remembered'[i] = "queued" => remembered[i] = "queued"
  OBVIOUS
<1> QED BY <1>2, <1>3, <1>4, KeptMoves

\* hm remember stands for a file it has written, and tells its caller only
\* after the last one.
LEMMA WroteFileKept ==
    ASSUME IInv, CopyInv, HomeInv, KeptInv, Grows, StableMounts, NEW p \in Procs,
           proc[p].pc \in Writing, WroteFile(p, proc[p]), UNCHANGED outbox,
           PutAt(proc[p].root, Item(proc[p]), proc[p].part, Whole(proc[p].root))
    PROVE  KeptInv'
<1>1. proc[p].pc \in Storing
  BY PcSets
<1>2. PICK i \in Items, a \in Aliases, r \in Roots, k \in Parts :
         /\ Item(proc[p]) = i /\ proc[p].at = <<a, i>> /\ proc[p].root = r /\ proc[p].part = k
         /\ r \in mounted
  BY <1>1, WriterFacts
<1>3. \A l \in Parts : canonical'[r][i][l] = IF l = k THEN Whole(r) ELSE canonical[r][i][l]
  BY <1>2, PutDoes
<1>4. k = "event" => canonical[r][i]["note"].st = "whole"
  BY <1>1, <1>2 DEF KeptInv, StepOK
<1>5. Whole(r).st = "whole"
  BY DEF Whole
<1>6. CASE /\ k = "note" /\ i \in EventItems
           /\ proc'[p].pc = "w_put" /\ proc'[p].part = "event" /\ SameJob(p)
           /\ UNCHANGED remembered
  <2>1. Item(proc'[p]) = i /\ proc'[p].root = r
    BY <1>2, <1>6 DEF SameJob, Item
  <2>2. canonical'[r][i]["note"].st = "whole"
    BY <1>3, <1>5, <1>6 DEF Parts
  <2>3. StepOK(proc[p])'
    BY <1>6, <2>1, <2>2, PcSets DEF StepOK, Enqueuing
  <2> QED BY <1>1, <1>6, <2>3, WroteFileDoes, WriterKept
<1>7. CASE /\ k = "event" \/ i \notin EventItems
           /\ Gone(p)
           /\ remembered' = [remembered EXCEPT ![i] = "stored"]
  <2>1. \A l \in PartsOf(i) : canonical'[r][i][l].st = "whole"
    BY <1>3, <1>4, <1>5, <1>7, PartsFacts
  <2>2. Delivered(i, r)'
    BY <2>1 DEF Delivered, HasPayload
  <2>3. StepOK(proc[p])'
    BY <1>7, FreeOK
  <2>4. \A j \in Items : remembered'[j] = remembered[j] \/ (j = i /\ remembered'[j] = "stored")
    BY <1>7 DEF IInv, TypeOK
  <2> QED BY <1>1, <2>2, <2>3, <2>4, WroteFileDoes, WriterKept
<1> QED BY <1>2, <1>6, <1>7, WroteFileDoes

LEMMA WriteKept ==
    ASSUME IInv, CopyInv, HomeInv, KeptInv, Grows, StableMounts, NEW p \in Procs,
           WriteFile(p) \/ WriteCopied(p)
    PROVE  KeptInv'
<1>1. /\ proc[p].pc \in Writing /\ proc[p].pc \in Storing /\ UNCHANGED outbox
  BY PcSets DEF WriteFile, WriteCopied
<1>2. CASE /\ WroteFile(p, proc[p])
           /\ PutAt(proc[p].root, Item(proc[p]), proc[p].part, Whole(proc[p].root))
  BY <1>1, <1>2, WroteFileKept
<1>3. CASE /\ PutAt(proc[p].root, Item(proc[p]), proc[p].part, Torn)
           /\ Becomes(p, [proc[p] EXCEPT !.pc = "w_copy"]) /\ UNCHANGED remembered
  <2>1. PICK i \in Items, a \in Aliases, r \in Roots, k \in Parts :
           /\ Item(proc[p]) = i /\ proc[p].at = <<a, i>> /\ proc[p].root = r /\ proc[p].part = k
    BY <1>1, WriterFacts
  <2>2. \A l \in Parts : l # k => canonical'[r][i][l] = canonical[r][i][l]
    BY <1>3, <2>1, PutDoes
  <2>3. /\ OthersSame(p) /\ proc'[p].pc = "w_copy"
        /\ Item(proc'[p]) = i /\ proc'[p].root = r /\ proc'[p].part = k
    BY <1>3, <2>1, GoesOnDoes DEF SameJob, Item
  <2>4. /\ k = "event" => canonical[r][i]["note"].st = "whole" /\ i \in EventItems
        /\ k = "note" => canonical[r][i]["event"].st = "absent"
    BY <1>1, <2>1 DEF KeptInv, StepOK
  <2>5. StepOK(proc[p])'
    BY <2>2, <2>3, <2>4, PcSets DEF StepOK, Parts, Enqueuing
  <2> QED BY <1>1, <1>3, <2>3, <2>5, WriterKept
<1>4. CASE /\ \/ UNCHANGED canonical
              \/ PutAt(proc[p].root, Item(proc[p]), proc[p].part, Absent)
           /\ Becomes(p, Idle) /\ UNCHANGED remembered
  <2>1. StepOK(proc[p])' /\ OthersSame(p)
    BY <1>4, RestDoes, FreeOK
  <2> QED BY <1>1, <1>4, <2>1, WriterKept
<1> QED BY <1>2, <1>3, <1>4 DEF WriteFile, WriteCopied, Landed

\* A flush stands for a payload that it has written or found.
LEMMA PublishedKept ==
    ASSUME IInv, CopyInv, HomeInv, KeptInv, Grows, StableMounts, NEW p \in Procs,
           proc[p].pc \in Publishing, UNCHANGED <<outbox, remembered>>,
           NEW result, Published(p, result), result # "none",
           \/ UNCHANGED canonical
           \/ \E f : PutAt(proc[p].root, Item(proc[p]), proc[p].part, f),
           result \in {"written", "present"} =>
              canonical'[proc[p].root][Item(proc[p])][proc[p].part].st = "whole"
    PROVE  KeptInv'
<1>1. PICK i \in Items, a \in Aliases, r \in Roots, k \in Parts :
         /\ Item(proc[p]) = i /\ proc[p].at = <<a, i>> /\ proc[p].root = r /\ proc[p].part = k
  BY WriterFacts
<1>2. PICK old, new : old = proc[p].res /\ new = proc'[p].res
  OBVIOUS
<1>3. /\ OthersSame(p) /\ proc'[p].pc \in {"f_look", "f_settle"}
      /\ Item(proc'[p]) = i /\ proc'[p].root = r /\ proc'[p].at = <<a, i>>
      /\ new[k] = result /\ \A l \in Parts \ {k} : new[l] = old[l]
      /\ proc'[p].pc = "f_look" => k = "note" /\ proc'[p].part = "event"
      /\ proc'[p].pc = "f_settle" => proc'[p].part = k /\ (k = "event" \/ i \notin EventItems)
  BY <1>1, <1>2, PublishedDoes DEF SameJob, Item
<1>4. /\ \A l \in Parts : old[l] \in {"written", "present"} => canonical[r][i][l].st = "whole"
      /\ k = "event" => old["note"] # "none"
      /\ HasMeta(<<a, i>>) \/ Safe(i)
  BY <1>1, <1>2 DEF KeptInv, StepOK
<1>5. \A l \in Parts : new[l] \in {"written", "present"} => canonical'[r][i][l].st = "whole"
  <2>1. result \in {"written", "present"} => canonical'[r][i][k].st = "whole"
    BY <1>1
  <2> QED BY <1>3, <1>4, <2>1 DEF Grows
<1>6. /\ proc'[p].part = "event" => new["note"] # "none"
      /\ proc'[p].pc = "f_settle" => \A l \in PartsOf(i) : new[l] # "none"
  BY <1>3, <1>4, PartsFacts
<1>7. (HasMeta(<<a, i>>) \/ Safe(i))'
  BY <1>4, SafeStays DEF HasMeta
<1>8. StepOK(proc[p])'
  BY <1>2, <1>3, <1>5, <1>6, <1>7, PcSets DEF StepOK, Enqueuing
<1> QED BY <1>3, <1>8, WriterKept

\* ... and goes on with the same results meanwhile.
LEMMA PublisherKept ==
    ASSUME IInv, CopyInv, HomeInv, KeptInv, Grows, StableMounts, NEW p \in Procs,
           proc[p].pc \in Publishing, UNCHANGED <<outbox, remembered>>,
           NEW pc \in {"f_put", "f_copy"}, Becomes(p, [proc[p] EXCEPT !.pc = pc]),
           \/ UNCHANGED canonical
           \/ \E f : PutAt(proc[p].root, Item(proc[p]), proc[p].part, f)
    PROVE  KeptInv'
<1>1. PICK i \in Items, a \in Aliases, r \in Roots, k \in Parts :
         /\ Item(proc[p]) = i /\ proc[p].at = <<a, i>> /\ proc[p].root = r /\ proc[p].part = k
  BY WriterFacts
<1>2. PICK res : res = proc[p].res
  OBVIOUS
<1>3. /\ OthersSame(p) /\ proc'[p].pc = pc /\ proc'[p].res = res
      /\ Item(proc'[p]) = i /\ proc'[p].root = r /\ proc'[p].at = <<a, i>>
      /\ proc'[p].part = k
  BY <1>1, <1>2, GoesOnDoes DEF SameJob, Item
<1>4. /\ \A l \in Parts : res[l] \in {"written", "present"} => canonical[r][i][l].st = "whole"
      /\ k = "event" => res["note"] # "none"
      /\ HasMeta(<<a, i>>) \/ Safe(i)
  BY <1>1, <1>2 DEF KeptInv, StepOK
<1>5. (HasMeta(<<a, i>>) \/ Safe(i))'
  BY <1>4, SafeStays DEF HasMeta
<1>6. \A l \in Parts : res[l] \in {"written", "present"} => canonical'[r][i][l].st = "whole"
  BY <1>4 DEF Grows
<1>7. StepOK(proc[p])'
  BY <1>3, <1>4, <1>5, <1>6, PcSets DEF StepOK, Enqueuing
<1> QED BY <1>3, <1>7, WriterKept

\* ... or leaves the item alone.
LEMMA ReportKept ==
    ASSUME IInv, HomeInv, KeptInv, Grows, NEW p \in Procs,
           proc[p].pc \in Publishing, UNCHANGED <<outbox, remembered>>,
           NEW outcome, Report(p, outcome),
           \/ UNCHANGED canonical
           \/ \E f : PutAt(proc[p].root, Item(proc[p]), proc[p].part, f)
    PROVE  KeptInv'
<1>1. OthersSame(p) /\ StepOK(proc[p])'
  BY ReportDoes, FreeOK
<1> QED BY <1>1, WriterKept

LEMMA FlushKept ==
    ASSUME IInv, CopyInv, HomeInv, KeptInv, Grows, StableMounts, NEW p \in Procs,
           FlushLook(p) \/ FlushPut(p) \/ FlushCopied(p)
    PROVE  KeptInv'
<1>1. proc[p].pc \in Publishing /\ UNCHANGED <<outbox, remembered>>
  BY PcSets DEF FlushLook, FlushPut, FlushCopied
<1>2. PICK i \in Items, a \in Aliases, r \in Roots, k \in Parts :
         /\ Item(proc[p]) = i /\ proc[p].at = <<a, i>> /\ proc[p].root = r /\ proc[p].part = k
         /\ r \in mounted
         /\ \A l \in Parts : FileAt(r, i, l) = canonical[r][i][l]
  BY <1>1, WriterFacts
<1>3. Whole(proc[p].meta.hash).st = "whole"
  BY DEF Whole
<1>4. ASSUME NEW f, PutAt(r, i, k, f)
      PROVE  canonical'[r][i][k] = f
  BY <1>2, <1>4, PutDoes
<1>5. CASE FlushLook(p)
  <2>1. CASE \E outcome : Report(p, outcome) /\ UNCHANGED canonical
    BY <1>1, <2>1, ReportKept
  <2>2. CASE Published(p, "mismatch") /\ UNCHANGED canonical
    BY <1>1, <2>2, PublishedKept
  <2>3. CASE Published(p, "conflict") /\ UNCHANGED canonical
    BY <1>1, <2>3, PublishedKept
  <2>4. CASE /\ Published(p, "present") /\ UNCHANGED canonical
             /\ FileAt(r, i, k) = Whole(proc[p].meta.hash)
    <3>1. canonical'[r][i][k].st = "whole"
      BY <1>2, <1>3, <2>4
    <3> QED BY <1>1, <1>2, <2>4, <3>1, PublishedKept
  <2>5. CASE Becomes(p, [proc[p] EXCEPT !.pc = "f_put"]) /\ UNCHANGED canonical
    BY <1>1, <2>5, PublisherKept
  <2> QED BY <1>2, <1>5, <2>1, <2>2, <2>3, <2>4, <2>5 DEF FlushLook, stores
<1>6. CASE FlushPut(p)
  <2>1. CASE /\ PutAt(r, i, k, Whole(proc[p].meta.hash)) /\ Published(p, "written")
    <3>1. canonical'[r][i][k].st = "whole"
      BY <1>3, <1>4, <2>1
    <3> QED BY <1>1, <1>2, <2>1, <3>1, PublishedKept
  <2>2. CASE PutAt(r, i, k, Torn) /\ Becomes(p, [proc[p] EXCEPT !.pc = "f_copy"])
    BY <1>1, <1>2, <2>2, PublisherKept
  <2>3. CASE /\ Published(p, "present") /\ UNCHANGED canonical
             /\ FileAt(r, i, k) = Whole(proc[p].meta.hash)
    <3>1. canonical'[r][i][k].st = "whole"
      BY <1>2, <1>3, <2>3
    <3> QED BY <1>1, <1>2, <2>3, <3>1, PublishedKept
  <2>4. CASE Published(p, "conflict") /\ UNCHANGED canonical
    BY <1>1, <2>4, PublishedKept
  <2>5. CASE Report(p, "failed") /\ UNCHANGED canonical
    BY <1>1, <2>5, ReportKept
  <2> QED BY <1>2, <1>6, <2>1, <2>2, <2>3, <2>4, <2>5 DEF FlushPut, Landed
<1>7. CASE FlushCopied(p)
  <2>1. CASE /\ PutAt(r, i, k, Whole(proc[p].meta.hash)) /\ Published(p, "written")
    <3>1. canonical'[r][i][k].st = "whole"
      BY <1>3, <1>4, <2>1
    <3> QED BY <1>1, <1>2, <2>1, <3>1, PublishedKept
  <2>2. CASE PutAt(r, i, k, Absent) /\ Report(p, "failed")
    BY <1>1, <1>2, <2>2, ReportKept
  <2> QED BY <1>2, <1>7, <2>1, <2>2 DEF FlushCopied
<1> QED BY <1>5, <1>6, <1>7

\* The files that write_archive takes, when the directory has all of them.
LEMMA SnapshotTakes ==
    ASSUME NEW d \in Places, HasMeta(d), PayloadAt(d)
    PROVE  PartsOf(d[2]) \cup {"meta"} \subseteq Snapshot(d)
BY PartsFacts DEF HasMeta, PayloadAt, Snapshot, FilesIn

LEMMA SettleKept ==
    ASSUME IInv, CopyInv, HomeInv, KeptInv, Grows, StableMounts, NEW p \in Procs,
           FlushSettle(p)
    PROVE  KeptInv'
<1>1. /\ proc[p].pc = "f_settle" /\ proc[p].pc \in Publishing
      /\ UNCHANGED <<outbox, remembered, canonical>>
  BY PcSets DEF FlushSettle
<1>2. CASE \E outcome : Report(p, outcome)
  BY <1>1, <1>2, ReportKept
<1>3. CASE /\ ~Refused({proc[p].res[k] : k \in Parts})
           /\ Becomes(p, [proc[p] EXCEPT !.pc = "f_remove"])
           /\ Reachable(proc[p].root) =>
                 archive' = [archive EXCEPT ![proc[p].root][Item(proc[p])] = @ \cup Snapshot(proc[p].at)]
  <2>1. PICK i \in Items, a \in Aliases, r \in Roots, k \in Parts :
           /\ Item(proc[p]) = i /\ proc[p].at = <<a, i>> /\ proc[p].root = r /\ proc[p].part = k
           /\ r \in mounted
    BY <1>1, WriterFacts
  <2>2. PICK res \in [Parts -> Result] : res = proc[p].res
    BY DEF IInv, TypeOK, Process
  <2>3. \A l \in PartsOf(i) : res[l] \in {"written", "present"}
    <3>1. \A l \in PartsOf(i) : l \in Parts /\ res[l] # "none"
      BY <1>1, <2>1, <2>2, PartsFacts DEF KeptInv, StepOK
    <3>2. \A l \in Parts : res[l] # "mismatch" /\ res[l] # "conflict"
      BY <1>3, <2>2 DEF Refused
    <3> QED BY <2>2, <3>1, <3>2 DEF Result
  <2>4. Delivered(i, r)
    <3>1. \A l \in PartsOf(i) : canonical[r][i][l].st = "whole"
      BY <1>1, <2>1, <2>2, <2>3, PartsFacts DEF KeptInv, StepOK
    <3> QED BY <3>1 DEF Delivered, HasPayload
  <2>5. Delivered(i, r)'
    BY <2>4, SafeStays
  <2>6. Safe(i)'
    <3>1. <<a, i>> \in Places /\ <<a, i>>[2] = i
      BY DEF Places
    <3>2. (HasMeta(<<a, i>>) /\ PayloadAt(<<a, i>>)) \/ Safe(i)
      <4>1. HasMeta(<<a, i>>) \/ Safe(i)
        BY <1>1, <2>1 DEF KeptInv, StepOK
      <4>2. HasMeta(<<a, i>>) => PayloadAt(<<a, i>>) \/ Safe(i)
        BY <3>1 DEF KeptInv
      <4> QED BY <4>1, <4>2
    <3>3. CASE HasMeta(<<a, i>>) /\ PayloadAt(<<a, i>>)
      <4>1. PartsOf(i) \cup {"meta"} \subseteq Snapshot(<<a, i>>)
        BY <3>1, <3>3, SnapshotTakes
      <4>2. archive' = [archive EXCEPT ![r][i] = archive[r][i] \cup Snapshot(<<a, i>>)]
        BY <1>3, <2>1 DEF Reachable, IInv, TypeOK
      <4>3. archive'[r][i] = archive[r][i] \cup Snapshot(<<a, i>>)
        BY <4>2 DEF IInv, TypeOK
      <4>4. InArchive(i)'
        BY <4>1, <4>3 DEF InArchive
      <4> QED BY <2>5, <4>4 DEF Safe
    <3> QED BY <3>2, <3>3, SafeStays
  <2>7. /\ OthersSame(p) /\ proc'[p].pc = "f_remove"
        /\ Item(proc'[p]) = i /\ proc'[p].root = r
    BY <1>3, <2>1, GoesOnDoes DEF SameJob, Item
  <2>8. StepOK(proc[p])'
    BY <2>5, <2>6, <2>7, PcSets DEF StepOK, Enqueuing
  <2> QED BY <1>1, <2>7, <2>8, WriterKept
<1> QED BY <1>2, <1>3 DEF FlushSettle

\* What a flush removes is delivered and archived.
LEMMA RemoveKept ==
    ASSUME IInv, HomeInv, KeptInv, Grows, NEW p \in Procs, FlushRemove(p)
    PROVE  KeptInv'
<1>1. proc[p].pc = "f_remove" /\ UNCHANGED <<remembered, canonical>>
  BY DEF FlushRemove, stores
<1>2. PICK i \in Items, a \in Aliases : Item(proc[p]) = i /\ proc[p].at = <<a, i>>
  BY <1>1, JobFacts, PlaceOf
<1>3. PICK r \in Roots : proc[p].root = r
  BY <1>1, JobFacts, PcSets
<1>4. Delivered(i, r) /\ Safe(i)
  BY <1>1, <1>2, <1>3 DEF KeptInv, StepOK
<1>5. Delivered(i, r)' /\ Safe(i)'
  BY <1>4, SafeStays
<1>6. /\ OthersSame(p) /\ (Gone(p) \/ UNCHANGED proc)
      /\ \A d \in Places \ {<<a, i>>} : outbox'[d] = outbox[d]
  BY <1>2, RemoveDoes
<1>7. <<a, i>> \in Places /\ <<a, i>>[2] = i
  BY DEF Places
<1>8. StepOK(proc[p])'
  <2>1. CASE Gone(p) BY <2>1, FreeOK
  <2>2. CASE UNCHANGED proc
    BY <1>1, <1>2, <1>3, <1>5, <2>2, PcSets DEF StepOK, Enqueuing
  <2> QED BY <1>6, <2>1, <2>2
<1>9. Elsewhere(p)
  BY <1>1, <1>2, <1>6, <1>7 DEF Elsewhere, At
<1>10. \A d \in Places : outbox'[d] # outbox[d] => Safe(d[2])'
  BY <1>5, <1>6, <1>7
<1>11. ASSUME NEW j \in Items, j # i, NEW b \in Aliases PROVE outbox'[<<b, j>>] = outbox[<<b, j>>]
  BY <1>6, <1>11 DEF Places
<1>12. \A j \in Items : remembered'[j] = "queued" =>
          \/ Safe(j)'
          \/ remembered[j] = "queued" /\ \A b \in Aliases : outbox'[<<b, j>>] = outbox[<<b, j>>]
  BY <1>1, <1>5, <1>11
<1> QED BY <1>1, <1>8, <1>9, <1>10, <1>12, KeptMoves

\* A step that writes in the directory of its item only.
LEMMA DirectoryKept ==
    ASSUME IInv, HomeInv, KeptInv, Grows, NEW p \in Procs,
           NEW i \in Items, NEW a \in Aliases, Item(proc[p]) = i,
           proc[p].pc \in Enqueuing \cup Binding,
           OthersSame(p), UNCHANGED canonical,
           \A d \in Places \ {<<a, i>>} : outbox'[d] = outbox[d],
           StepOK(proc[p])',
           HasMeta(<<a, i>>)' => PayloadAt(<<a, i>>)' \/ Safe(i)',
           \A j \in Items \ {i} : remembered'[j] = remembered[j],
           remembered'[i] = "stored" => remembered[i] = "stored",
           remembered'[i] = "queued" => Safe(i)' \/ HasMeta(<<a, i>>)'
    PROVE  KeptInv'
<1>1. <<a, i>> \in Places /\ <<a, i>>[2] = i
  BY DEF Places
<1>2. Elsewhere(p)
  BY <1>1 DEF Elsewhere, At
<1>3. \A d \in Places : outbox'[d] # outbox[d] /\ HasMeta(d)' => PayloadAt(d)' \/ Safe(d[2])'
  BY <1>1
<1>4. ASSUME NEW j \in Items, j # i, NEW b \in Aliases PROVE outbox'[<<b, j>>] = outbox[<<b, j>>]
  BY <1>4 DEF Places
<1>5. \A j \in Items : remembered'[j] = "stored" => remembered[j] = "stored"
  OBVIOUS
<1>6. \A j \in Items : remembered'[j] = "queued" =>
         \/ Safe(j)' \/ \E b \in Aliases : HasMeta(<<b, j>>)'
         \/ remembered[j] = "queued" /\ \A b \in Aliases : outbox'[<<b, j>>] = outbox[<<b, j>>]
  <2> SUFFICES ASSUME NEW j \in Items, remembered'[j] = "queued"
               PROVE  \/ Safe(j)' \/ \E b \in Aliases : HasMeta(<<b, j>>)'
                      \/ /\ remembered[j] = "queued"
                         /\ \A b \in Aliases : outbox'[<<b, j>>] = outbox[<<b, j>>]
    OBVIOUS
  <2>1. CASE j = i BY <2>1
  <2>2. CASE j # i BY <1>4, <2>2
  <2> QED BY <2>1, <2>2
<1> QED BY <1>2, <1>3, <1>5, <1>6, KeptMoves

\* The metadata comes last, when note and event are there.
LEMMA EnqueueKept ==
    ASSUME IInv, HomeInv, KeptInv, Grows, NEW p \in Procs, EnqueueNote(p) \/ EnqueueEvent(p)
    PROVE  KeptInv'
<1>1. /\ proc[p].pc \in {"q_note", "q_event"} /\ proc[p].pc \in Enqueuing
      /\ proc[p].pc \notin {"idle", "f_item"}
      /\ UNCHANGED <<remembered, canonical>>
  BY DEF EnqueueNote, EnqueueEvent, stores, Enqueuing
<1>2. PICK i \in Items, a \in Aliases : Item(proc[p]) = i /\ proc[p].at = <<a, i>>
  BY <1>1, JobFacts, PlaceOf
<1>3. PICK m \in Meta : proc[p].meta = m /\ m.st # "absent"
  BY <1>1, JobFacts DEF KeptInv, StepOK
<1>4. /\ remembered[i] = "started"
      /\ ~HasMeta(<<a, i>>)
  BY <1>1, <1>2 DEF HomeInv, RememberedOnce, At, Remembering
<1>5. <<a, i>> \in Places /\ <<a, i>>[2] = i /\ outbox \in [Places -> Dir]
  BY DEF Places, IInv, TypeOK
<1>6. /\ OthersSame(p) /\ proc'[p].at = <<a, i>> /\ proc'[p].meta = m
      /\ proc'[p].pc \in {"q_event", "q_meta"}
      /\ \A d \in Places \ {<<a, i>>} : outbox'[d] = outbox[d]
      /\ ~HasMeta(<<a, i>>)'
  BY <1>2, <1>3, <1>4, EnqueueDoes DEF SameJob, HasMeta
<1>7. Whole(m.hash).st = "whole"
  BY DEF Whole
<1>8. CASE EnqueueNote(p)
  <2> DEFINE n == [NoDir EXCEPT !.exists = TRUE, !.note = Whole(m.hash)]
  <2>1. n.note = Whole(m.hash)
    BY DEF NoDir
  <2>2. outbox' = [outbox EXCEPT ![<<a, i>>] = n]
    BY <1>2, <1>3, <1>8 DEF EnqueueNote
  <2>3. \E pc : /\ pc = (IF i \in EventItems THEN "q_event" ELSE "q_meta")
                /\ Becomes(p, [proc[p] EXCEPT !.pc = pc])
    BY <1>2, <1>8 DEF EnqueueNote
  <2>4. proc'[p].pc = IF i \in EventItems THEN "q_event" ELSE "q_meta"
    BY <2>3, GoesOnDoes
  <2> HIDE DEF n
  <2>5. outbox'[<<a, i>>].note.st = "whole"
    BY <1>5, <1>7, <2>1, <2>2
  <2>6. i \notin EventItems => PayloadAt(<<a, i>>)'
    BY <1>5, <2>5, PartsFacts DEF PayloadAt
  <2>7. StepOK(proc[p])'
    BY <1>3, <1>6, <2>4, <2>5, <2>6, PcSets DEF StepOK
  <2> QED BY <1>1, <1>2, <1>4, <1>6, <2>7, DirectoryKept
<1>9. CASE EnqueueEvent(p)
  <2> DEFINE n == [outbox[<<a, i>>] EXCEPT !.event = Whole(m.hash)]
  <2>1. n.event = Whole(m.hash) /\ n.note = outbox[<<a, i>>].note
    BY <1>5 DEF Dir
  <2>2. outbox' = [outbox EXCEPT ![<<a, i>>] = n]
    BY <1>2, <1>3, <1>9 DEF EnqueueEvent
  <2>3. proc'[p].pc = "q_meta"
    BY <1>9, GoesOnDoes DEF EnqueueEvent
  <2>4. outbox[<<a, i>>].note.st = "whole"
    BY <1>2, <1>9 DEF KeptInv, StepOK, EnqueueEvent
  <2> HIDE DEF n
  <2>5. outbox'[<<a, i>>].note.st = "whole" /\ outbox'[<<a, i>>].event.st = "whole"
    BY <1>5, <1>7, <2>1, <2>2, <2>4
  <2>6. PayloadAt(<<a, i>>)'
    BY <1>5, <2>5, PartsFacts DEF PayloadAt
  <2>7. StepOK(proc[p])'
    BY <1>3, <1>6, <2>3, <2>6, PcSets DEF StepOK
  <2> QED BY <1>1, <1>2, <1>4, <1>6, <2>7, DirectoryKept
<1> QED BY <1>8, <1>9

LEMMA EnqueueMetaKept ==
    ASSUME IInv, HomeInv, KeptInv, Grows, NEW p \in Procs, EnqueueMeta(p)
    PROVE  KeptInv'
<1>1. /\ proc[p].pc = "q_meta" /\ proc[p].pc \in Enqueuing
      /\ proc[p].pc \notin {"idle", "f_item"} /\ UNCHANGED canonical
  BY DEF EnqueueMeta, stores, Enqueuing
<1>2. PICK i \in Items, a \in Aliases : Item(proc[p]) = i /\ proc[p].at = <<a, i>>
  BY <1>1, JobFacts, PlaceOf
<1>3. PICK m \in Meta : proc[p].meta = m /\ m.st # "absent"
  BY <1>1, JobFacts DEF KeptInv, StepOK
<1>4. <<a, i>> \in Places /\ <<a, i>>[2] = i /\ outbox \in [Places -> Dir]
  BY DEF Places, IInv, TypeOK
<1>5. PayloadAt(<<a, i>>)
  BY <1>1, <1>2 DEF KeptInv, StepOK
<1> DEFINE n == [outbox[<<a, i>>] EXCEPT !.meta = m]
<1>6. n.meta = m /\ n.note = outbox[<<a, i>>].note /\ n.event = outbox[<<a, i>>].event
  BY <1>4 DEF Dir
<1>7. /\ outbox' = [outbox EXCEPT ![<<a, i>>] = n]
      /\ remembered' = [remembered EXCEPT ![i] = "queued"]
  BY <1>2, <1>3 DEF EnqueueMeta
<1> HIDE DEF n
<1>8. /\ outbox'[<<a, i>>] = n
      /\ \A d \in Places \ {<<a, i>>} : outbox'[d] = outbox[d]
      /\ \A j \in Items : remembered'[j] = IF j = i THEN "queued" ELSE remembered[j]
  BY <1>4, <1>7 DEF IInv, TypeOK
<1>9. HasMeta(<<a, i>>)'
  BY <1>3, <1>6, <1>8 DEF HasMeta
<1>10. PayloadAt(<<a, i>>)'
  BY <1>4, <1>5, <1>6, <1>8, PartsFacts DEF PayloadAt
<1>11. OthersSame(p) /\ StepOK(proc[p])'
  BY RestDoes, FreeOK DEF EnqueueMeta
<1> QED BY <1>1, <1>2, <1>8, <1>9, <1>10, <1>11, DirectoryKept

\* bind_item writes whole payloads beside the metadata it found.
LEMMA BindPayloadKept ==
    ASSUME IInv, HomeInv, KeptInv, Grows, NEW p \in Procs, BindNote(p) \/ BindEvent(p)
    PROVE  KeptInv'
<1>1. /\ proc[p].pc \in Binding /\ proc[p].pc \notin {"idle", "f_item"}
      /\ UNCHANGED <<remembered, canonical>>
  BY PcSets DEF BindNote, BindEvent, stores
<1>2. PICK i \in Items, a \in Aliases : Item(proc[p]) = i /\ proc[p].at = <<a, i>>
  BY <1>1, JobFacts, PlaceOf
<1>3. PICK m \in Meta : proc[p].meta = m
  BY <1>1, JobFacts
<1>4. <<a, i>> \in Places /\ <<a, i>>[2] = i /\ outbox \in [Places -> Dir]
  BY DEF Places, IInv, TypeOK
<1>5. /\ OthersSame(p) /\ (Gone(p) \/ proc'[p].pc \in Binding)
      /\ \A d \in Places \ {<<a, i>>} : outbox'[d] = outbox[d]
      /\ outbox'[<<a, i>>].meta = outbox[<<a, i>>].meta
  BY <1>2, BindPayloadDoes, PcSets
<1>6. StepOK(proc[p])'
  BY <1>5, FreeOK
<1>7. Whole(m.hash).st = "whole"
  BY DEF Whole
<1>8. \A k \in Parts : outbox'[<<a, i>>][k].st \in {outbox[<<a, i>>][k].st, "whole"}
  <2>1. CASE BindNote(p)
    <3> DEFINE n == [outbox[<<a, i>>] EXCEPT !.exists = TRUE, !.note = Whole(m.hash)]
    <3>1. n.note = Whole(m.hash) /\ n.event = outbox[<<a, i>>].event
      BY <1>4 DEF Dir
    <3>2. outbox' = [outbox EXCEPT ![<<a, i>>] = n]
      BY <1>2, <1>3, <1>4, <2>1 DEF BindNote
    <3> HIDE DEF n
    <3> QED BY <1>4, <1>7, <3>1, <3>2 DEF Parts
  <2>2. CASE BindEvent(p)
    <3> DEFINE n == [outbox[<<a, i>>] EXCEPT !.exists = TRUE, !.event = Whole(m.hash)]
    <3>1. n.event = Whole(m.hash) /\ n.note = outbox[<<a, i>>].note
      BY <1>4 DEF Dir
    <3>2. outbox' = [outbox EXCEPT ![<<a, i>>] = n]
      BY <1>2, <1>3, <1>4, <2>2 DEF BindEvent
    <3> HIDE DEF n
    <3> QED BY <1>4, <1>7, <3>1, <3>2 DEF Parts
  <2> QED BY <2>1, <2>2
<1>9. HasMeta(<<a, i>>)
  <2>1. outbox[<<a, i>>].meta.st = "unbound"
    BY <1>1, <1>2 DEF HomeInv, BoundOnce, At
  <2> QED BY <2>1 DEF HasMeta
<1>10. HasMeta(<<a, i>>)' /\ (PayloadAt(<<a, i>>)' \/ Safe(i)')
  <2>1. HasMeta(<<a, i>>)'
    BY <1>5, <1>9 DEF HasMeta
  <2>2. PayloadAt(<<a, i>>) \/ Safe(i)
    BY <1>4, <1>9 DEF KeptInv
  <2>3. PayloadAt(<<a, i>>) => PayloadAt(<<a, i>>)'
    BY <1>4, <1>8, PartsFacts DEF PayloadAt
  <2> QED BY <2>1, <2>2, <2>3, SafeStays
<1> QED BY <1>1, <1>2, <1>5, <1>6, <1>10, DirectoryKept

LEMMA BindMetaKept ==
    ASSUME IInv, HomeInv, KeptInv, Grows, NEW p \in Procs, BindMeta(p)
    PROVE  KeptInv'
<1>1. /\ proc[p].pc \in Binding /\ proc[p].pc \notin {"idle", "f_item"}
      /\ UNCHANGED <<remembered, canonical>>
  BY PcSets DEF BindMeta, stores
<1>2. PICK i \in Items, a \in Aliases : Item(proc[p]) = i /\ proc[p].at = <<a, i>>
  BY <1>1, JobFacts, PlaceOf
<1>3. PICK m \in Meta : proc[p].meta = m
  BY <1>1, JobFacts
<1>4. <<a, i>> \in Places /\ <<a, i>>[2] = i /\ outbox \in [Places -> Dir]
  BY DEF Places, IInv, TypeOK
<1>5. outbox[<<a, i>>].meta.st = "unbound" /\ m.st = "pending"
  BY <1>1, <1>2, <1>3 DEF HomeInv, BoundOnce, At
<1> DEFINE n == [outbox[<<a, i>>] EXCEPT !.exists = TRUE, !.meta = m]
<1>6. n.meta = m /\ n.note = outbox[<<a, i>>].note /\ n.event = outbox[<<a, i>>].event
  BY <1>4 DEF Dir
<1>7. outbox' = [outbox EXCEPT ![<<a, i>>] = n]
  BY <1>2, <1>3, <1>4 DEF BindMeta
<1> HIDE DEF n
<1>8. /\ outbox'[<<a, i>>] = n
      /\ \A d \in Places \ {<<a, i>>} : outbox'[d] = outbox[d]
  BY <1>4, <1>7
<1>9. HasMeta(<<a, i>>)'
  BY <1>5, <1>6, <1>8 DEF HasMeta
<1>10. PayloadAt(<<a, i>>)' \/ Safe(i)'
  <2>1. PayloadAt(<<a, i>>) \/ Safe(i)
    BY <1>4, <1>5 DEF KeptInv, HasMeta
  <2>2. PayloadAt(<<a, i>>) => PayloadAt(<<a, i>>)'
    BY <1>4, <1>6, <1>8, PartsFacts DEF PayloadAt
  <2> QED BY <2>1, <2>2, SafeStays
<1>11. OthersSame(p) /\ StepOK(proc[p])'
  BY BindMetaDoes, FreeOK
<1> QED BY <1>1, <1>2, <1>8, <1>9, <1>10, <1>11, DirectoryKept

\* A renamed directory takes its payload along.
LEMMA BindMoveKept ==
    ASSUME IInv, HomeInv, KeptInv, Grows, NEW p \in Procs, BindMove(p)
    PROVE  KeptInv'
<1>1. /\ proc[p].pc = "b_move" /\ proc[p].pc \in Binding
      /\ proc[p].pc \notin {"idle", "f_item"} /\ UNCHANGED <<canonical, remembered>>
  BY PcSets DEF BindMove, stores
<1>2. PICK i \in Items, a \in Aliases : Item(proc[p]) = i /\ proc[p].at = <<a, i>>
  BY <1>1, JobFacts, PlaceOf
<1>3. PICK b \in Aliases : b = proc[p].meta.store
  BY <1>1, JobFacts DEF Meta
<1>4. \/ Becomes(p, Idle)
      \/ Becomes(p, [proc[p] EXCEPT !.pc = "b_note", !.at = <<b, i>>])
  BY <1>2, <1>3 DEF BindMove
<1>5. OthersSame(p) /\ (Gone(p) \/ proc'[p].pc = "b_note")
  BY <1>4, RestDoes, BindMoveDoes
<1>6. StepOK(proc[p])'
  BY <1>5, PcSets, FreeOK
<1>7. CASE UNCHANGED outbox
  BY <1>1, <1>5, <1>6, <1>7, KeptQuiet
<1>8. CASE a # b /\ outbox' = [outbox EXCEPT ![<<b, i>>] = outbox[<<a, i>>], ![<<a, i>>] = NoDir]
  <2>1. \A c \in Aliases, j \in Items :
           outbox'[<<c, j>>] = IF j = i /\ c = a THEN NoDir
                               ELSE IF j = i /\ c = b THEN outbox[<<a, i>>]
                               ELSE outbox[<<c, j>>]
    BY <1>2, <1>3, <1>8 DEF IInv, TypeOK, Places
  <2>2. outbox[<<a, i>>].meta.st = "unbound"
    BY <1>1, <1>2 DEF HomeInv, BoundOnce, At
  <2>3. NoDir.meta.st = "absent"
    BY DEF NoDir, NoMeta
  <2>4. /\ <<a, i>> \in Places /\ <<b, i>> \in Places
        /\ <<a, i>>[2] = i /\ <<b, i>>[2] = i
    BY DEF Places
  <2>5. PayloadAt(<<a, i>>) \/ Safe(i)
    BY <2>2, <2>4 DEF KeptInv, HasMeta
  <2>6. HasMeta(<<b, i>>)' /\ (PayloadAt(<<b, i>>)' \/ Safe(i)')
    <3>1. outbox'[<<b, i>>] = outbox[<<a, i>>]
      BY <1>8, <2>1
    <3>2. HasMeta(<<b, i>>)'
      BY <2>2, <3>1 DEF HasMeta
    <3>3. PayloadAt(<<a, i>>) => PayloadAt(<<b, i>>)'
      BY <2>4, <3>1 DEF PayloadAt
    <3> QED BY <2>5, <3>2, <3>3, SafeStays
  <2>7. \A d \in Places : outbox'[d] = outbox[d] \/ d[2] = i
    BY <2>1, PlaceParts
  <2>8. Elsewhere(p)
    BY <1>1, <1>2, <1>5, <2>7 DEF Elsewhere, At
  <2>9. ASSUME NEW d \in Places, outbox'[d] # outbox[d], HasMeta(d)'
        PROVE  PayloadAt(d)' \/ Safe(d[2])'
    <3>1. d = <<d[1], i>> /\ d[1] \in Aliases
      BY <2>7, <2>9, PlaceParts
    <3>2. d = <<b, i>>
      BY <2>1, <2>3, <2>9, <3>1 DEF HasMeta
    <3> QED BY <2>4, <2>6, <3>2
  <2>10. \A j \in Items : remembered'[j] = "queued" =>
            \/ \E c \in Aliases : HasMeta(<<c, j>>)'
            \/ remembered[j] = "queued" /\ \A c \in Aliases : outbox'[<<c, j>>] = outbox[<<c, j>>]
    BY <1>1, <2>1, <2>6
  <2> QED BY <1>1, <1>6, <2>8, <2>9, <2>10, KeptMoves
<1> QED BY <1>2, <1>3, <1>7, <1>8 DEF BindMove

\* A command begins, or goes on without a file.
LEMMA StartKept ==
    ASSUME IInv, HomeInv, KeptInv, Grows, NEW p \in Procs, Start(p)
    PROVE  KeptInv'
<1>1. ASSUME NEW i \in Items, NEW a \in Aliases, RememberOnline(p, i, a)
      PROVE  KeptInv'
  <2>1. /\ UNCHANGED <<outbox, canonical>>
        /\ \A j \in Items : remembered'[j] \in {remembered[j], "started"}
    BY <1>1 DEF RememberOnline, stores, IInv, TypeOK
  <2>2. Nowhere(i)
    BY <1>1, NotBegun DEF RememberOnline
  <2>3. PICK r \in Roots : proc'[p].root = r
    BY <1>1, RememberOnlineDoes
  <2>4. canonical'[r][i]["event"].st = "absent"
    BY <2>1, <2>2 DEF Nowhere, Parts
  <2>5. /\ proc'[p].pc = "w_cache" /\ Item(proc'[p]) = i /\ proc'[p].part = "note"
        /\ OthersSame(p)
    BY <1>1, RememberOnlineDoes DEF Item
  <2>6. StepOK(proc[p])'
    BY <2>3, <2>4, <2>5, PcSets DEF StepOK, Enqueuing
  <2> QED BY <2>1, <2>5, <2>6, KeptQuiet
<1>2. ASSUME NEW i \in Items, NEW a \in Aliases, RememberOffline(p, i, a)
      PROVE  KeptInv'
  <2>1. /\ UNCHANGED <<outbox, canonical>>
        /\ \A j \in Items : remembered'[j] \in {remembered[j], "started"}
    BY <1>2 DEF RememberOffline, stores, IInv, TypeOK
  <2> QED BY <1>2, <2>1, RememberOfflineDoes, FreeOK, KeptQuiet
<1>3. ASSUME NEW i \in Items, NEW a \in Aliases, BindStart(p, i, a)
      PROVE  KeptInv'
  <2>1. UNCHANGED <<outbox, canonical, remembered>>
    BY <1>3 DEF BindStart, stores
  <2>2. OthersSame(p) /\ proc'[p].pc \in Binding
    BY <1>3, BindStartDoes, PcSets
  <2> QED BY <2>1, <2>2, FreeOK, KeptQuiet
<1>4. CASE FlushStart(p)
  BY <1>4, FlushStartDoes, FreeOK, KeptQuiet DEF FlushStart, stores
<1> QED BY <1>1, <1>2, <1>3, <1>4 DEF Start

LEMMA IdleKept ==
    ASSUME IInv, HomeInv, KeptInv, Grows, NEW p \in Procs,
           RecordIdentity(p) \/ FlushEnd(p) \/ Crash(p) \/ \E d \in Places : FlushPick(p, d)
    PROVE  KeptInv'
<1>1. UNCHANGED <<outbox, canonical, remembered>>
  BY DEF FlushEnd, Crash, RecordIdentity, FlushPick, stores
<1>2. CASE Gone(p) /\ OthersSame(p)
  BY <1>1, <1>2, FreeOK, KeptQuiet
<1>3. CASE /\ proc[p].pc = "w_cache" /\ proc'[p].pc = "w_put"
           /\ SameJob(p) /\ proc'[p].part = proc[p].part /\ OthersSame(p)
  <2>1. StepOK(proc[p])
    BY DEF KeptInv
  <2>2. Item(proc'[p]) = Item(proc[p])
    BY <1>3 DEF SameJob, Item
  <2>3. StepOK(proc[p])'
    BY <1>1, <1>3, <2>1, <2>2, PcSets DEF StepOK, SameJob, Enqueuing
  <2> QED BY <1>1, <1>3, <2>3, KeptQuiet
<1>4. ASSUME NEW d \in Places, OthersSame(p),
             proc'[p].pc = "f_look", proc'[p].at = d, outbox[d].meta.st = "pending",
             proc'[p].part = "note", \A k \in Parts : proc'[p].res[k] = "none"
      PROVE  KeptInv'
  <2>1. HasMeta(d)'
    BY <1>1, <1>4 DEF HasMeta
  <2>2. StepOK(proc[p])'
    BY <1>4, <2>1, PcSets DEF StepOK, Enqueuing
  <2> QED BY <1>1, <1>4, <2>2, KeptQuiet
<1>5. CASE RecordIdentity(p)
  BY <1>2, <1>3, <1>5, RecordIdentityDoes
<1>6. ASSUME NEW d \in Places, FlushPick(p, d) PROVE KeptInv'
  BY <1>2, <1>4, <1>6, FlushPickDoes
<1>7. CASE FlushEnd(p) \/ Crash(p)
  BY <1>2, <1>7, RestDoes DEF FlushEnd, Crash
<1> QED BY <1>5, <1>6, <1>7

\* A step of nobody.
LEMMA KeptRests ==
    ASSUME IInv, KeptInv, Grows, UNCHANGED <<outbox, remembered, proc>>,
           \A r \in Roots, i \in Items, k \in Parts :
              canonical'[r][i][k].st = canonical[r][i][k].st
    PROVE  KeptInv'
<1>1. \A i \in Items : /\ \A r \in Roots : Delivered(i, r) => Delivered(i, r)'
                       /\ Safe(i) => Safe(i)'
  BY SafeStays
<1>2. /\ \A d : HasMeta(d)' <=> HasMeta(d)
      /\ \A d : PayloadAt(d)' <=> PayloadAt(d)
  BY DEF HasMeta, PayloadAt
<1>3. ASSUME NEW q \in Procs PROVE StepOK(proc[q])'
  <2>1. StepOK(proc[q]) /\ proc'[q] = proc[q]
    BY DEF KeptInv
  <2>2. CASE proc[q].pc \in {"idle", "f_item", "b_cache"} \cup Binding
    BY <2>1, <2>2, PcSets DEF StepOK, Enqueuing
  <2>3. CASE proc[q].pc \in Enqueuing
    BY <1>2, <2>1, <2>3, PcSets DEF StepOK, Enqueuing
  <2>4. CASE proc[q].pc \in Storing \cup Publishing \cup {"f_remove"}
    <3>1. PICK i \in Items, a \in Aliases, r \in Roots :
             Item(proc[q]) = i /\ proc[q].at = <<a, i>> /\ proc[q].root = r
      BY <2>4, JobFacts, PlaceOf, PcSets
    <3>2. \A k \in Parts : canonical'[r][i][k].st = canonical[r][i][k].st
      OBVIOUS
    <3>3. Item(proc'[q]) = i /\ proc'[q].at = <<a, i>> /\ proc'[q].root = r
      BY <2>1, <3>1
    <3>4. CASE proc[q].pc \in Storing
      BY <2>1, <3>1, <3>2, <3>3, <3>4, PcSets DEF StepOK, Enqueuing, Parts
    <3>5. CASE proc[q].pc \in Publishing
      BY <1>1, <1>2, <2>1, <3>1, <3>2, <3>3, <3>5, PcSets DEF StepOK, Enqueuing
    <3>6. CASE proc[q].pc = "f_remove"
      BY <1>1, <2>1, <3>1, <3>3, <3>6, PcSets DEF StepOK, Enqueuing
    <3> QED BY <2>4, <3>4, <3>5, <3>6
  <2> QED BY <2>2, <2>3, <2>4, PcSets DEF IInv, TypeOK, Process, Control, Enqueuing
<1>4. ASSUME NEW d \in Places, HasMeta(d)' PROVE PayloadAt(d)' \/ Safe(d[2])'
  BY <1>1, <1>2, <1>4, PlaceParts DEF KeptInv
<1>5. ASSUME NEW i \in Items
      PROVE  /\ remembered'[i] = "stored" => \E r \in Roots : Delivered(i, r)'
             /\ remembered'[i] = "queued" => Safe(i)' \/ \E a \in Aliases : HasMeta(<<a, i>>)'
  BY <1>1, <1>2 DEF KeptInv
<1> QED BY <1>3, <1>4, <1>5 DEF KeptInv

LEMMA KeptStep ==
    ASSUME StableMounts, IInv, CopyInv, HomeInv, KeptInv, [Next]_vars
    PROVE  KeptInv'
<1>0. Grows
  BY StepGrows
<1>1. ASSUME NEW p \in Procs, Start(p) PROVE KeptInv'
  BY <1>0, <1>1, StartKept
<1>2. ASSUME NEW p \in Procs, RememberStep(p) PROVE KeptInv'
  BY <1>0, <1>2, IdleKept, WriteKept, EnqueueKept, EnqueueMetaKept DEF RememberStep
<1>3. ASSUME NEW p \in Procs, FlushStep(p) PROVE KeptInv'
  BY <1>0, <1>3, IdleKept, FlushKept, SettleKept, RemoveKept DEF FlushStep
<1>4. ASSUME NEW p \in Procs, BindStep(p) PROVE KeptInv'
  BY <1>0, <1>4, BindMoveKept, BindPayloadKept, BindMetaKept DEF BindStep
<1>5. CASE Environment
  <2>1. ASSUME NEW r \in Roots, Mount(r) \/ Unmount(r) PROVE KeptInv'
    BY <1>0, <2>1, KeptRests DEF Mount, Unmount, stores
  <2>2. ASSUME NEW a \in Aliases, NEW r \in Owners, Repoint(a, r) PROVE KeptInv'
    BY <1>0, <2>2, KeptRests DEF Repoint, stores
  <2>3. ASSUME NEW r \in Roots, NEW i \in Items, NEW k \in Parts, Edit(r, i, k) PROVE KeptInv'
    BY <1>0, <2>3, EditDoes, KeptRests
  <2>4. ASSUME NEW p \in Procs, Crash(p) PROVE KeptInv'
    BY <1>0, <2>4, IdleKept
  <2> QED BY <1>5, <2>1, <2>2, <2>3, <2>4 DEF Environment
<1>6. CASE UNCHANGED vars
  BY <1>0, <1>6, KeptRests DEF vars
<1> QED BY <1>1, <1>2, <1>3, <1>4, <1>5, <1>6 DEF Next, Step

LEMMA KeptInit == Init => KeptInv
<1> SUFFICES ASSUME Init PROVE KeptInv
  OBVIOUS
<1>1. /\ \A i \in Items : remembered[i] = "no"
      /\ \A d \in Places : outbox[d].meta.st = "absent"
      /\ \A p \in Procs : proc[p].pc = "idle"
  BY IdleFields DEF Init, NoDir, NoMeta
<1>2. \A p \in Procs : StepOK(proc[p])
  BY <1>1, PcSets DEF StepOK, Enqueuing
<1> QED BY <1>1, <1>2 DEF KeptInv, HasMeta

LEMMA KeptAlways ==
    ASSUME StableMounts, SerialBind
    PROVE  Spec => [](IInv /\ CopyInv /\ HomeInv /\ KeptInv)
<1>1. IInv /\ CopyInv /\ [Next]_vars => CopyInv'
  BY CopyStep
<1>2. IInv /\ HomeInv /\ [Next]_vars => HomeInv'
  BY HomeStep
<1>3. IInv /\ CopyInv /\ HomeInv /\ KeptInv /\ [Next]_vars => KeptInv'
  BY KeptStep
<1> QED BY <1>1, <1>2, <1>3, CopyInit, HomeInit, KeptInit, Invariance, PTL DEF Spec

LEMMA QueuedIs ==
    ASSUME NEW d
    PROVE  Queued(d) <=> PayloadAt(d) /\ HasMeta(d)
BY PartsFacts DEF Queued, HasPayload, PayloadAt, HasMeta

LEMMA QueuedIsNext ==
    ASSUME NEW d
    PROVE  Queued(d)' <=> PayloadAt(d)' /\ HasMeta(d)'
BY PartsFacts DEF Queued, HasPayload, PayloadAt, HasMeta

\* A memory whose `hm remember` returned success is never lost, for any number
\* of processes that die at any step, of faults and of racing flushes, when a
\* store is not unmounted under a process writing to it and nobody binds one
\* item from two shells at once.
THEOREM NothingIsLost == ASSUME StableMounts, SerialBind PROVE Spec => []NoLoss
<1>1. ASSUME KeptInv PROVE NoLoss
  <2> SUFFICES ASSUME NEW i \in Items, remembered[i] \in {"stored", "queued"}
               PROVE  \/ \E r \in Roots : Delivered(i, r)
                      \/ \E a \in Aliases : Queued(<<a, i>>)
    BY DEF NoLoss
  <2>1. CASE Safe(i) \/ remembered[i] = "stored"
    BY <1>1, <2>1 DEF Safe, KeptInv
  <2>2. ASSUME NEW a \in Aliases, HasMeta(<<a, i>>), ~Safe(i)
        PROVE  Queued(<<a, i>>)
    <3>1. <<a, i>> \in Places /\ <<a, i>>[2] = i
      BY DEF Places
    <3> QED BY <1>1, <2>2, <3>1, QueuedIs DEF KeptInv
  <2> QED BY <1>1, <2>1, <2>2 DEF KeptInv
<1> QED BY <1>1, KeptAlways, PTL

\* Whenever a flush is about to remove the local copy, the store of that root
\* holds the memory: what flush_item saw published stays published.
THEOREM RemovalIsSafe == ASSUME StableMounts, SerialBind PROVE Spec => []SafeBeforeRemoval
<1>1. KeptInv => SafeBeforeRemoval
  BY DEF KeptInv, StepOK, SafeBeforeRemoval
<1> QED BY <1>1, KeptAlways, PTL

\* Once the outbox gave up the metadata of a queued memory, its files are in
\* the archive of a store, whichever of the racing flushers removed them: a
\* flusher that finds the directory half removed by another archives less, but
\* then the other one has archived all of it.
THEOREM ArchiveIsComplete ==
    ASSUME StableMounts, SerialBind PROVE Spec => []ArchivedBeforeRemoved
<1>1. KeptInv => ArchivedBeforeRemoved
  BY DEF KeptInv, Safe, InArchive, HasMeta, ArchivedBeforeRemoved
<1> QED BY <1>1, KeptAlways, PTL

-----------------------------------------------------------------------------
(* The outbox implements Delivery.                                         *)

IsAccepted(i) == remembered[i] \in {"stored", "queued"}
IsHeld(i) == \E a \in Aliases : Queued(<<a, i>>)

\* A step of Delivery, or one that nobody can see.
Promises == [Promised!Next]_(Promised!vars)

\* What of the promise concerns item i does not change.
Unseen(i) == /\ IsAccepted(i)' <=> IsAccepted(i)
             /\ IsHeld(i)' <=> IsHeld(i)
             /\ \A r \in Roots : Delivered(i, r)' <=> Delivered(i, r)

LEMMA StutterPromises ==
    ASSUME \A i \in Items : Unseen(i)
    PROVE  Promises
<1>1. {i \in Items : IsAccepted(i)}' = {i \in Items : IsAccepted(i)}
  BY DEF Unseen
<1>2. {i \in Items : IsHeld(i)}' = {i \in Items : IsHeld(i)}
  BY DEF Unseen
<1>3. [i \in Items |-> {r \in Roots : Delivered(i, r)}]'
        = [i \in Items |-> {r \in Roots : Delivered(i, r)}]
  BY DEF Unseen
<1>4. UNCHANGED Promised!vars
  BY <1>1, <1>2, <1>3 DEF Promised!vars, IsAccepted, IsHeld
<1> QED BY <1>4 DEF Promises

LEMMA QueuePromises ==
    ASSUME NEW i \in Items, \A j \in Items \ {i} : Unseen(j),
           ~IsAccepted(i), IsAccepted(i)', IsHeld(i)',
           \A r \in Roots : Delivered(i, r)' <=> Delivered(i, r)
    PROVE  Promises
<1>1. {j \in Items : IsAccepted(j)}' = {j \in Items : IsAccepted(j)} \cup {i}
  BY DEF Unseen
<1>2. {j \in Items : IsHeld(j)}' = {j \in Items : IsHeld(j)} \cup {i}
  BY DEF Unseen
<1>3. [j \in Items |-> {r \in Roots : Delivered(j, r)}]'
        = [j \in Items |-> {r \in Roots : Delivered(j, r)}]
  BY DEF Unseen
<1>4. i \notin {j \in Items : IsAccepted(j)}
  OBVIOUS
<1>5. Promised!Queue(i)
  BY <1>1, <1>2, <1>3, <1>4 DEF Promised!Queue, IsAccepted, IsHeld
<1> QED BY <1>5 DEF Promises, Promised!Next

\* The one store that now holds item i, which no store held before.
OnlyNow(i, r) == /\ \A q \in Roots : ~Delivered(i, q)
                 /\ \A q \in Roots : Delivered(i, q)' <=> q = r

LEMMA HomesNow ==
    ASSUME NEW i \in Items, NEW r \in Roots, OnlyNow(i, r), \A j \in Items \ {i} : Unseen(j)
    PROVE  /\ [j \in Items |-> {q \in Roots : Delivered(j, q)}][i] = {}
           /\ [j \in Items |-> {q \in Roots : Delivered(j, q)}]'
                = [[j \in Items |-> {q \in Roots : Delivered(j, q)}] EXCEPT ![i] = {r}]
<1>1. {q \in Roots : Delivered(i, q)} = {} /\ {q \in Roots : Delivered(i, q)}' = {r}
  BY DEF OnlyNow
<1>2. ASSUME NEW j \in Items, j # i
      PROVE  {q \in Roots : Delivered(j, q)}' = {q \in Roots : Delivered(j, q)}
  BY <1>2 DEF Unseen
<1>3. [j \in Items |-> {q \in Roots : Delivered(j, q)}]'
        = [j \in Items |-> IF j = i THEN {r} ELSE {q \in Roots : Delivered(j, q)}]
  BY <1>1, <1>2
<1>4. [j \in Items |-> IF j = i THEN {r} ELSE {q \in Roots : Delivered(j, q)}]
        = [[j \in Items |-> {q \in Roots : Delivered(j, q)}] EXCEPT ![i] = {r}]
  OBVIOUS
<1>5. [j \in Items |-> {q \in Roots : Delivered(j, q)}][i] = {}
  BY <1>1
<1> QED BY <1>3, <1>4, <1>5

LEMMA StorePromises ==
    ASSUME NEW i \in Items, NEW r \in Roots, \A j \in Items \ {i} : Unseen(j),
           ~IsAccepted(i), IsAccepted(i)', IsHeld(i)' <=> IsHeld(i), OnlyNow(i, r)
    PROVE  Promises
<1>1. {j \in Items : IsAccepted(j)}' = {j \in Items : IsAccepted(j)} \cup {i}
  BY DEF Unseen
<1>2. {j \in Items : IsHeld(j)}' = {j \in Items : IsHeld(j)}
  BY DEF Unseen
<1>3. i \notin {j \in Items : IsAccepted(j)}
  OBVIOUS
<1>4. Promised!StoreDirectly(i, r)
  BY <1>1, <1>2, <1>3, HomesNow DEF Promised!StoreDirectly, IsAccepted, IsHeld
<1> QED BY <1>4 DEF Promises, Promised!Next

LEMMA DeliverPromises ==
    ASSUME NEW i \in Items, NEW r \in Roots, \A j \in Items \ {i} : Unseen(j),
           IsAccepted(i)' <=> IsAccepted(i), IsHeld(i), IsHeld(i)', OnlyNow(i, r)
    PROVE  Promises
<1>1. {j \in Items : IsAccepted(j)}' = {j \in Items : IsAccepted(j)}
  BY DEF Unseen
<1>2. {j \in Items : IsHeld(j)}' = {j \in Items : IsHeld(j)}
  BY DEF Unseen
<1>3. i \in {j \in Items : IsHeld(j)}
  OBVIOUS
<1>4. Promised!Deliver(i, r)
  BY <1>1, <1>2, <1>3, HomesNow DEF Promised!Deliver, IsAccepted, IsHeld
<1> QED BY <1>4 DEF Promises, Promised!Next

LEMMA ReleasePromises ==
    ASSUME NEW i \in Items, \A j \in Items \ {i} : Unseen(j),
           IsAccepted(i)' <=> IsAccepted(i), IsHeld(i), ~IsHeld(i)',
           \A r \in Roots : Delivered(i, r)' <=> Delivered(i, r),
           \E r \in Roots : Delivered(i, r)
    PROVE  Promises
<1>1. {j \in Items : IsAccepted(j)}' = {j \in Items : IsAccepted(j)}
  BY DEF Unseen
<1>2. {j \in Items : IsHeld(j)}' = {j \in Items : IsHeld(j)} \ {i}
  BY DEF Unseen
<1>3. [j \in Items |-> {r \in Roots : Delivered(j, r)}]'
        = [j \in Items |-> {r \in Roots : Delivered(j, r)}]
  BY DEF Unseen
<1>4. i \in {j \in Items : IsHeld(j)}
  OBVIOUS
<1>5. [j \in Items |-> {r \in Roots : Delivered(j, r)}][i] # {}
  OBVIOUS
<1>6. Promised!Release(i)
  BY <1>1, <1>2, <1>3, <1>4, <1>5 DEF Promised!Release, IsAccepted, IsHeld
<1> QED BY <1>6 DEF Promises, Promised!Next

\* A step that makes no file whole, and queues, accepts and removes nothing.
LEMMA QuietPromises ==
    ASSUME UNCHANGED outbox,
           \A r \in Roots, i \in Items, k \in Parts :
              canonical'[r][i][k].st = "whole" <=> canonical[r][i][k].st = "whole",
           \A i \in Items : IsAccepted(i)' <=> IsAccepted(i)
    PROVE  Promises
<1>1. ASSUME NEW i \in Items, NEW r \in Roots PROVE Delivered(i, r)' <=> Delivered(i, r)
  BY PartsFacts DEF Delivered, HasPayload
<1>2. \A i \in Items : IsHeld(i)' <=> IsHeld(i)
  BY DEF IsHeld, Queued
<1> QED BY <1>1, <1>2, StutterPromises DEF Unseen

\* A step in one directory.
LEMMA DirectoryUnseen ==
    ASSUME UNCHANGED canonical, NEW i \in Items, NEW a \in Aliases,
           \A d \in Places \ {<<a, i>>} : outbox'[d] = outbox[d],
           \A j \in Items \ {i} : remembered'[j] = remembered[j]
    PROVE  /\ \A j \in Items \ {i} : Unseen(j)
           /\ \A r \in Roots : Delivered(i, r)' <=> Delivered(i, r)
           /\ \A b \in Aliases \ {a} : Queued(<<b, i>>)' <=> Queued(<<b, i>>)
<1>1. \A j \in Items, r \in Roots : Delivered(j, r)' <=> Delivered(j, r)
  BY DEF Delivered, HasPayload
<1>2. \A j \in Items, b \in Aliases :
         <<b, j>> # <<a, i>> => (Queued(<<b, j>>)' <=> Queued(<<b, j>>))
  BY DEF Places, Queued
<1>3. ASSUME NEW j \in Items \ {i} PROVE Unseen(j)
  BY <1>1, <1>2 DEF Unseen, IsHeld, IsAccepted
<1> QED BY <1>1, <1>2, <1>3

LEMMA DirectoryPromises ==
    ASSUME UNCHANGED <<canonical, remembered>>, NEW i \in Items, NEW a \in Aliases,
           \A d \in Places \ {<<a, i>>} : outbox'[d] = outbox[d],
           Queued(<<a, i>>)' <=> Queued(<<a, i>>)
    PROVE  Promises
<1>1. /\ \A j \in Items \ {i} : Unseen(j)
      /\ \A r \in Roots : Delivered(i, r)' <=> Delivered(i, r)
      /\ \A b \in Aliases \ {a} : Queued(<<b, i>>)' <=> Queued(<<b, i>>)
  BY DirectoryUnseen
<1>2. (IsHeld(i)' <=> IsHeld(i)) /\ (IsAccepted(i)' <=> IsAccepted(i))
  BY <1>1 DEF IsHeld, IsAccepted
<1>3. Unseen(i)
  BY <1>1, <1>2 DEF Unseen
<1> QED BY <1>1, <1>3, StutterPromises

\* A step that writes one file of one store.
LEMMA PutUnseen ==
    ASSUME UNCHANGED outbox, NEW i \in Items, NEW r \in Roots, NEW k \in Parts, NEW f,
           \A q \in Roots, j \in Items, l \in Parts :
              canonical'[q][j][l] = IF q = r /\ j = i /\ l = k THEN f ELSE canonical[q][j][l],
           \A j \in Items \ {i} : remembered'[j] = remembered[j]
    PROVE  /\ \A j \in Items \ {i} : Unseen(j)
           /\ \A q \in Roots \ {r} : Delivered(i, q)' <=> Delivered(i, q)
           /\ IsHeld(i)' <=> IsHeld(i)
<1>1. ASSUME NEW j \in Items, NEW q \in Roots, j # i \/ q # r
      PROVE  Delivered(j, q)' <=> Delivered(j, q)
  BY <1>1, PartsFacts DEF Delivered, HasPayload
<1>2. \A j \in Items : IsHeld(j)' <=> IsHeld(j)
  BY DEF IsHeld, Queued
<1>3. \A j \in Items \ {i} : Unseen(j)
  BY <1>1, <1>2 DEF Unseen, IsAccepted
<1> QED BY <1>1, <1>2, <1>3

\* Where a process puts an item, no other store has it.
LEMMA NotElsewhere ==
    ASSUME HomeInv, NEW p \in Procs, NEW i \in Items, NEW r \in Roots,
           Item(proc[p]) = i, proc[p].root = r, proc[p].pc \in Storing \cup Taking,
           NEW q \in Roots, Delivered(i, q)
    PROVE  q = r
<1>1. Carries(proc[p], i, r)
  BY DEF Carries, At
<1>2. canonical[q][i]["note"].st = "whole" /\ "note" \in Parts
  BY PartsFacts DEF Delivered, HasPayload
<1>3. Claimed(i, r) /\ Claimed(i, q)
  BY <1>1, <1>2 DEF Claimed
<1> QED BY <1>3 DEF HomeInv, OneClaim

\* A file that becomes whole was not whole before.
LEMMA WasNotWhole ==
    ASSUME IInv, CopyInv, StableMounts, NEW p \in Procs,
           proc[p].pc \in Storing \cup Publishing,
           NEW i \in Items, NEW r \in Roots, NEW k \in Parts,
           Item(proc[p]) = i, proc[p].root = r, proc[p].part = k,
           Copying(proc[p]) \/ FileAt(r, i, k).st = "absent"
    PROVE  canonical[r][i][k].st # "whole"
<1>1. FileAt(r, i, k) = canonical[r][i][k]
  BY WriterFacts
<1> QED BY <1>1 DEF CopyInv

\* A file that does not become whole is invisible.
LEMMA PutPromises ==
    ASSUME IInv, NEW p \in Procs, UNCHANGED <<outbox, remembered>>,
           NEW i \in Items, NEW r \in Roots, NEW k \in Parts,
           canonical[r][i][k].st # "whole",
           NEW f, f.st # "whole", PutAt(r, i, k, f)
    PROVE  Promises
<1>1. \A q \in Roots, j \in Items, l \in Parts :
         canonical'[q][j][l].st = "whole" <=> canonical[q][j][l].st = "whole"
  BY PutDoes
<1>2. \A j \in Items : IsAccepted(j)' <=> IsAccepted(j)
  BY DEF IsAccepted
<1> QED BY <1>1, <1>2, QuietPromises

\* hm remember stores an item with its last file.
LEMMA WrotePromises ==
    ASSUME IInv, CopyInv, HomeInv, KeptInv, StableMounts, NEW p \in Procs,
           proc[p].pc \in Writing, WroteFile(p, proc[p]), UNCHANGED outbox,
           NEW i \in Items, NEW r \in Roots, NEW k \in Parts,
           Item(proc[p]) = i, proc[p].root = r, proc[p].part = k,
           canonical[r][i][k].st # "whole",
           PutAt(r, i, k, Whole(r))
    PROVE  Promises
<1>1. \A q \in Roots, j \in Items, l \in Parts :
         canonical'[q][j][l] = IF q = r /\ j = i /\ l = k THEN Whole(r) ELSE canonical[q][j][l]
  <2>1. r \in mounted
    BY PcSets DEF CopyInv
  <2> QED BY <2>1, PutDoes
<1>2. proc[p].pc \in Storing /\ Whole(r).st = "whole"
  BY PcSets DEF Whole
<1>3. /\ k = "event" => canonical[r][i]["note"].st = "whole" /\ i \in EventItems
      /\ k = "note" => canonical[r][i]["event"].st = "absent"
  BY <1>2 DEF KeptInv, StepOK
<1>4. k \in PartsOf(i) /\ ~Delivered(i, r)
  <2>1. k \in PartsOf(i)
    BY <1>3, PartsFacts
  <2> QED BY <2>1 DEF Delivered, HasPayload
<1>5. CASE k = "note" /\ i \in EventItems /\ UNCHANGED remembered
  <2>1. "event" \in PartsOf(i) /\ "event" \in Parts
    BY <1>5, PartsFacts
  <2>2. canonical'[r][i]["event"].st # "whole"
    BY <1>1, <1>3, <1>5, <2>1
  <2>3. ~Delivered(i, r)'
    BY <2>1, <2>2 DEF Delivered, HasPayload
  <2>4. /\ \A j \in Items \ {i} : Unseen(j)
        /\ \A q \in Roots \ {r} : Delivered(i, q)' <=> Delivered(i, q)
        /\ IsHeld(i)' <=> IsHeld(i)
    BY <1>1, <1>5, PutUnseen
  <2>5. Unseen(i)
    BY <1>4, <1>5, <2>3, <2>4 DEF Unseen, IsAccepted
  <2> QED BY <2>4, <2>5, StutterPromises
<1>6. CASE /\ k = "event" \/ i \notin EventItems
           /\ remembered' = [remembered EXCEPT ![i] = "stored"]
  <2>1. \A l \in PartsOf(i) : canonical'[r][i][l].st = "whole"
    BY <1>1, <1>2, <1>3, <1>6, PartsFacts
  <2>2. Delivered(i, r)'
    BY <2>1 DEF Delivered, HasPayload
  <2>3. /\ remembered'[i] = "stored"
        /\ \A j \in Items \ {i} : remembered'[j] = remembered[j]
    BY <1>6 DEF IInv, TypeOK
  <2>4. /\ \A j \in Items \ {i} : Unseen(j)
        /\ \A q \in Roots \ {r} : Delivered(i, q)' <=> Delivered(i, q)
        /\ IsHeld(i)' <=> IsHeld(i)
    BY <1>1, <2>3, PutUnseen
  <2>5. remembered[i] = "started"
    BY <1>2 DEF HomeInv, RememberedOnce, At, Remembering
  <2>6. \A q \in Roots : ~Delivered(i, q)
    BY <1>2, <1>4, NotElsewhere
  <2>7. OnlyNow(i, r)
    BY <2>2, <2>4, <2>6 DEF OnlyNow
  <2>8. ~IsAccepted(i) /\ IsAccepted(i)'
    BY <2>3, <2>5 DEF IsAccepted
  <2> QED BY <2>4, <2>7, <2>8, StorePromises
<1> QED BY <1>5, <1>6, WroteFileDoes

LEMMA WritePromises ==
    ASSUME IInv, CopyInv, HomeInv, KeptInv, StableMounts, NEW p \in Procs,
           WriteFile(p) \/ WriteCopied(p)
    PROVE  Promises
<1>1. proc[p].pc \in Writing /\ proc[p].pc \in Storing /\ UNCHANGED outbox
  BY PcSets DEF WriteFile, WriteCopied
<1>2. PICK i \in Items, a \in Aliases, r \in Roots, k \in Parts :
         Item(proc[p]) = i /\ proc[p].root = r /\ proc[p].part = k
  BY <1>1, WriterFacts
<1>3. Torn.st # "whole" /\ Absent.st # "whole"
  BY DEF Torn, Absent
<1>4. CASE UNCHANGED <<canonical, remembered>>
  BY <1>1, <1>4, QuietPromises DEF IsAccepted
<1>5. ASSUME Copying(proc[p]) \/ FileAt(r, i, k).st = "absent",
             \/ PutAt(r, i, k, Whole(r)) /\ WroteFile(p, proc[p])
             \/ PutAt(r, i, k, Torn) /\ UNCHANGED remembered
             \/ PutAt(r, i, k, Absent) /\ UNCHANGED remembered
      PROVE  Promises
  <2>1. canonical[r][i][k].st # "whole"
    BY <1>1, <1>2, <1>5, WasNotWhole
  <2>2. CASE PutAt(r, i, k, Whole(r)) /\ WroteFile(p, proc[p])
    BY <1>1, <1>2, <2>1, <2>2, WrotePromises
  <2>3. CASE PutAt(r, i, k, Torn) /\ UNCHANGED remembered
    BY <1>1, <1>3, <2>1, <2>3, PutPromises
  <2>4. CASE PutAt(r, i, k, Absent) /\ UNCHANGED remembered
    BY <1>1, <1>3, <2>1, <2>4, PutPromises
  <2> QED BY <1>5, <2>2, <2>3, <2>4
<1>6. CASE WriteFile(p)
  <2>1. \/ UNCHANGED <<canonical, remembered>>
        \/ /\ FileAt(r, i, k).st = "absent"
           /\ \/ PutAt(r, i, k, Whole(r)) /\ WroteFile(p, proc[p])
              \/ PutAt(r, i, k, Torn) /\ UNCHANGED remembered
    BY <1>2, <1>6 DEF WriteFile, Landed
  <2> QED BY <1>4, <1>5, <2>1
<1>7. CASE WriteCopied(p)
  <2>1. /\ Copying(proc[p])
        /\ \/ PutAt(r, i, k, Whole(r)) /\ WroteFile(p, proc[p])
           \/ PutAt(r, i, k, Absent) /\ UNCHANGED remembered
    BY <1>2, <1>7 DEF WriteCopied, Copying
  <2> QED BY <1>5, <2>1
<1> QED BY <1>6, <1>7

\* A flush delivers an item with the payload that completes it.
LEMMA PublishPromises ==
    ASSUME IInv, CopyInv, HomeInv, KeptInv, Grows, StableMounts, NEW p \in Procs,
           proc[p].pc \in Publishing, UNCHANGED <<outbox, remembered>>,
           NEW i \in Items, NEW r \in Roots, NEW k \in Parts, NEW f,
           Item(proc[p]) = i, proc[p].root = r, proc[p].part = k,
           PutAt(r, i, k, f)
    PROVE  Promises
<1>1. /\ \A q \in Roots, j \in Items, l \in Parts :
            canonical'[q][j][l] = IF q = r /\ j = i /\ l = k THEN f ELSE canonical[q][j][l]
      /\ proc[p].pc \in Taking
  <2>1. r \in mounted
    BY PcSets DEF CopyInv
  <2> QED BY <2>1, PutDoes DEF Taking
<1>2. /\ \A j \in Items \ {i} : Unseen(j)
      /\ \A q \in Roots \ {r} : Delivered(i, q)' <=> Delivered(i, q)
      /\ IsHeld(i)' <=> IsHeld(i)
      /\ IsAccepted(i)' <=> IsAccepted(i)
  BY <1>1, PutUnseen DEF IsAccepted
<1>3. CASE Delivered(i, r)' <=> Delivered(i, r)
  <2>1. Unseen(i)
    BY <1>2, <1>3 DEF Unseen
  <2> QED BY <1>2, <2>1, StutterPromises
<1>4. CASE ~(Delivered(i, r)' <=> Delivered(i, r))
  <2>1. Delivered(i, r)' /\ ~Delivered(i, r)
    BY <1>4, SafeStays
  <2>2. \A q \in Roots : ~Delivered(i, q)
    BY <1>1, <2>1, NotElsewhere
  <2>3. OnlyNow(i, r)
    BY <1>2, <2>1, <2>2 DEF OnlyNow
  <2>4. ~Safe(i)
    BY <2>2 DEF Safe
  <2>5. PICK a \in Aliases : proc[p].at = <<a, i>>
    BY PlaceOf, PcSets
  <2>6. HasMeta(<<a, i>>)
    BY <2>4, <2>5 DEF KeptInv, StepOK
  <2>7. <<a, i>> \in Places /\ <<a, i>>[2] = i
    BY DEF Places
  <2>8. IsHeld(i)
    BY <2>4, <2>6, <2>7, QueuedIs DEF KeptInv, IsHeld
  <2> QED BY <1>2, <2>3, <2>8, DeliverPromises
<1> QED BY <1>3, <1>4

LEMMA FlushPromises ==
    ASSUME IInv, CopyInv, HomeInv, KeptInv, Grows, StableMounts, NEW p \in Procs,
           FlushPut(p) \/ FlushCopied(p)
    PROVE  Promises
<1>1. proc[p].pc \in Publishing /\ UNCHANGED <<outbox, remembered>>
  BY PcSets DEF FlushPut, FlushCopied
<1>2. PICK i \in Items, a \in Aliases, r \in Roots, k \in Parts :
         Item(proc[p]) = i /\ proc[p].root = r /\ proc[p].part = k
  BY <1>1, WriterFacts
<1>3. UNCHANGED canonical \/ \E f : PutAt(r, i, k, f)
  BY <1>2 DEF FlushPut, FlushCopied
<1>4. CASE UNCHANGED canonical
  BY <1>1, <1>4, QuietPromises DEF IsAccepted
<1> QED BY <1>1, <1>2, <1>3, <1>4, PublishPromises

\* A half-written directory without metadata is not held yet.
LEMMA EnqueuePromises ==
    ASSUME IInv, HomeInv, NEW p \in Procs, EnqueueNote(p) \/ EnqueueEvent(p)
    PROVE  Promises
<1>1. /\ proc[p].pc \in Enqueuing /\ proc[p].pc \notin {"idle", "f_item"}
      /\ UNCHANGED <<remembered, canonical>>
  BY DEF EnqueueNote, EnqueueEvent, stores, Enqueuing
<1>2. PICK i \in Items, a \in Aliases : Item(proc[p]) = i /\ proc[p].at = <<a, i>>
  BY <1>1, JobFacts, PlaceOf
<1>3. ~HasMeta(<<a, i>>)
  BY <1>1, <1>2 DEF HomeInv, RememberedOnce, At, Remembering
<1>4. /\ \A d \in Places \ {<<a, i>>} : outbox'[d] = outbox[d]
      /\ ~HasMeta(<<a, i>>)'
  BY <1>2, <1>3, EnqueueDoes DEF HasMeta
<1>5. ~Queued(<<a, i>>) /\ ~Queued(<<a, i>>)'
  BY <1>3, <1>4, QueuedIs, QueuedIsNext
<1> QED BY <1>1, <1>4, <1>5, DirectoryPromises

\* With the metadata the item is held, and its caller is told so.
LEMMA EnqueueMetaPromises ==
    ASSUME IInv, HomeInv, KeptInv, NEW p \in Procs, EnqueueMeta(p)
    PROVE  Promises
<1>1. /\ proc[p].pc = "q_meta" /\ proc[p].pc \in Enqueuing
      /\ proc[p].pc \notin {"idle", "f_item"} /\ UNCHANGED canonical
  BY DEF EnqueueMeta, stores, Enqueuing
<1>2. PICK i \in Items, a \in Aliases : Item(proc[p]) = i /\ proc[p].at = <<a, i>>
  BY <1>1, JobFacts, PlaceOf
<1>3. PICK m \in Meta : proc[p].meta = m /\ m.st # "absent"
  BY <1>1, JobFacts DEF KeptInv, StepOK
<1>4. <<a, i>> \in Places /\ <<a, i>>[2] = i /\ outbox \in [Places -> Dir]
  BY DEF Places, IInv, TypeOK
<1>5. PayloadAt(<<a, i>>) /\ remembered[i] = "started"
  BY <1>1, <1>2 DEF KeptInv, StepOK, HomeInv, RememberedOnce, At, Remembering
<1> DEFINE n == [outbox[<<a, i>>] EXCEPT !.meta = m]
<1>6. n.meta = m /\ n.note = outbox[<<a, i>>].note /\ n.event = outbox[<<a, i>>].event
  BY <1>4 DEF Dir
<1>7. /\ outbox' = [outbox EXCEPT ![<<a, i>>] = n]
      /\ remembered' = [remembered EXCEPT ![i] = "queued"]
  BY <1>2, <1>3 DEF EnqueueMeta
<1> HIDE DEF n
<1>8. /\ outbox'[<<a, i>>] = n
      /\ \A d \in Places \ {<<a, i>>} : outbox'[d] = outbox[d]
      /\ remembered'[i] = "queued"
      /\ \A j \in Items \ {i} : remembered'[j] = remembered[j]
  BY <1>4, <1>7 DEF IInv, TypeOK
<1>9. HasMeta(<<a, i>>)'
  BY <1>3, <1>6, <1>8 DEF HasMeta
<1>10. PayloadAt(<<a, i>>)'
  BY <1>4, <1>5, <1>6, <1>8, PartsFacts DEF PayloadAt
<1>11. IsHeld(i)'
  BY <1>9, <1>10, QueuedIsNext DEF IsHeld
<1>12. ~IsAccepted(i) /\ IsAccepted(i)'
  BY <1>5, <1>8 DEF IsAccepted
<1>13. /\ \A j \in Items \ {i} : Unseen(j)
       /\ \A r \in Roots : Delivered(i, r)' <=> Delivered(i, r)
  BY <1>1, <1>8, DirectoryUnseen
<1> QED BY <1>11, <1>12, <1>13, QueuePromises

\* A removal takes files away.
LEMMA RemoveShrinks ==
    ASSUME IInv, NEW p \in Procs, FlushRemove(p), NEW d \in Places, proc[p].at = d
    PROVE  Queued(d)' => Queued(d)
<1>1. outbox \in [Places -> Dir]
  BY DEF IInv, TypeOK
<1>2. Absent.st = "absent" /\ NoMeta.st = "absent"
  BY DEF Absent, NoMeta
<1>3. /\ outbox'[d].meta = outbox[d].meta \/ outbox'[d].meta.st = "absent"
      /\ \A k \in Parts : outbox'[d][k] = outbox[d][k] \/ outbox'[d][k].st = "absent"
  <2>1. CASE UNCHANGED outbox
    BY <2>1
  <2>2. CASE outbox' = [outbox EXCEPT ![d] = NoDir]
    <3>1. NoDir.meta = NoMeta /\ NoDir.note = Absent /\ NoDir.event = Absent
      BY DEF NoDir
    <3> QED BY <1>1, <1>2, <2>2, <3>1 DEF Parts
  <2>3. ASSUME NEW name \in FilesIn(d), outbox' = [outbox EXCEPT ![d] = WithoutFile(outbox[d], name)]
        PROVE  /\ outbox'[d].meta = outbox[d].meta \/ outbox'[d].meta.st = "absent"
               /\ \A k \in Parts : outbox'[d][k] = outbox[d][k] \/ outbox'[d][k].st = "absent"
    <3>1. name \in {"meta", "note", "event"} /\ outbox[d] \in Dir
      BY <1>1 DEF FilesIn, Parts
    <3>2. PICK n : n = WithoutFile(outbox[d], name)
      OBVIOUS
    <3>3. /\ n.meta = outbox[d].meta \/ n.meta = NoMeta
          /\ n.note = outbox[d].note \/ n.note = Absent
          /\ n.event = outbox[d].event \/ n.event = Absent
      BY <3>1, <3>2 DEF WithoutFile, Dir
    <3>4. outbox'[d] = n
      BY <1>1, <2>3, <3>2
    <3> QED BY <1>2, <3>3, <3>4 DEF Parts
  <2> QED BY <2>1, <2>2, <2>3 DEF FlushRemove
<1>4. PayloadAt(d)' => PayloadAt(d)
  BY <1>3, PartsFacts DEF PayloadAt
<1>5. HasMeta(d)' => HasMeta(d)
  BY <1>3 DEF HasMeta
<1> QED BY <1>4, <1>5, QueuedIs, QueuedIsNext

LEMMA RemovePromises ==
    ASSUME IInv, KeptInv, NEW p \in Procs, FlushRemove(p)
    PROVE  Promises
<1>1. proc[p].pc = "f_remove" /\ UNCHANGED <<remembered, canonical>>
  BY DEF FlushRemove, stores
<1>2. PICK i \in Items, a \in Aliases : Item(proc[p]) = i /\ proc[p].at = <<a, i>>
  BY <1>1, JobFacts, PlaceOf
<1>3. \E r \in Roots : Delivered(i, r)
  BY <1>1, <1>2 DEF KeptInv, StepOK, Safe
<1>4. \A d \in Places \ {<<a, i>>} : outbox'[d] = outbox[d]
  BY <1>2, RemoveDoes
<1>5. /\ \A j \in Items \ {i} : Unseen(j)
      /\ \A r \in Roots : Delivered(i, r)' <=> Delivered(i, r)
      /\ \A b \in Aliases \ {a} : Queued(<<b, i>>)' <=> Queued(<<b, i>>)
  BY <1>1, <1>4, DirectoryUnseen
<1>6. IsHeld(i)' => IsHeld(i)
  <2>1. Queued(<<a, i>>)' => Queued(<<a, i>>)
    BY <1>2, RemoveShrinks DEF Places
  <2> QED BY <1>5, <2>1 DEF IsHeld
<1>7. IsAccepted(i)' <=> IsAccepted(i)
  BY <1>1 DEF IsAccepted
<1>8. CASE IsHeld(i) /\ ~IsHeld(i)'
  BY <1>3, <1>5, <1>7, <1>8, ReleasePromises
<1>9. CASE IsHeld(i)' <=> IsHeld(i)
  <2>1. Unseen(i)
    BY <1>5, <1>7, <1>9 DEF Unseen
  <2> QED BY <1>5, <2>1, StutterPromises
<1> QED BY <1>6, <1>8, <1>9

\* An unbound item is delivered nowhere, so it is held, and a bind does not
\* change that.
LEMMA BoundIsHeld ==
    ASSUME IInv, HomeInv, KeptInv, NEW i \in Items, NEW a \in Aliases,
           outbox[<<a, i>>].meta.st = "unbound"
    PROVE  /\ Queued(<<a, i>>) /\ \A b \in Aliases \ {a} : ~HasMeta(<<b, i>>)
<1>1. <<a, i>> \in Places /\ <<a, i>>[2] = i /\ HasMeta(<<a, i>>)
  BY DEF Places, HasMeta
<1>2. \A r \in Roots : ~Claimed(i, r)
  BY DEF HomeInv, BoundOnce
<1>3. \A r \in Roots : ~Delivered(i, r)
  BY <1>2, PartsFacts DEF Claimed, Delivered, HasPayload
<1>4. PayloadAt(<<a, i>>)
  BY <1>1, <1>3 DEF KeptInv, Safe
<1> QED BY <1>1, <1>4, QueuedIs DEF HomeInv, BoundOnce

LEMMA BindPromises ==
    ASSUME IInv, HomeInv, KeptInv, Grows, NEW p \in Procs,
           BindNote(p) \/ BindEvent(p) \/ BindMeta(p)
    PROVE  Promises
<1>1. /\ proc[p].pc \in Binding /\ proc[p].pc \notin {"idle", "f_item"}
      /\ UNCHANGED <<remembered, canonical>>
  BY PcSets DEF BindNote, BindEvent, BindMeta, stores
<1>2. PICK i \in Items, a \in Aliases : Item(proc[p]) = i /\ proc[p].at = <<a, i>>
  BY <1>1, JobFacts, PlaceOf
<1>3. outbox[<<a, i>>].meta.st = "unbound" /\ proc[p].meta.st = "pending"
  BY <1>1, <1>2 DEF HomeInv, BoundOnce, At
<1>4. Queued(<<a, i>>)
  BY <1>3, BoundIsHeld
<1>5. PICK m \in Meta : proc[p].meta = m
  BY <1>1, JobFacts
<1>6. <<a, i>> \in Places /\ <<a, i>>[2] = i /\ outbox \in [Places -> Dir]
  BY DEF Places, IInv, TypeOK
<1>7. Whole(m.hash).st = "whole"
  BY DEF Whole
<1>8. PICK n : /\ outbox' = [outbox EXCEPT ![<<a, i>>] = n]
               /\ n.meta = outbox[<<a, i>>].meta \/ n.meta = m
               /\ n.note = outbox[<<a, i>>].note \/ n.note = Whole(m.hash)
               /\ n.event = outbox[<<a, i>>].event \/ n.event = Whole(m.hash)
  <2>1. CASE BindNote(p)
    <3> DEFINE n == [outbox[<<a, i>>] EXCEPT !.exists = TRUE, !.note = Whole(m.hash)]
    <3>1. outbox' = [outbox EXCEPT ![<<a, i>>] = n]
      BY <1>2, <1>5, <1>6, <2>1 DEF BindNote
    <3>2. n.note = Whole(m.hash) /\ n.event = outbox[<<a, i>>].event /\ n.meta = outbox[<<a, i>>].meta
      BY <1>6 DEF Dir
    <3> HIDE DEF n
    <3> QED BY <3>1, <3>2
  <2>2. CASE BindEvent(p)
    <3> DEFINE n == [outbox[<<a, i>>] EXCEPT !.exists = TRUE, !.event = Whole(m.hash)]
    <3>1. outbox' = [outbox EXCEPT ![<<a, i>>] = n]
      BY <1>2, <1>5, <1>6, <2>2 DEF BindEvent
    <3>2. n.event = Whole(m.hash) /\ n.note = outbox[<<a, i>>].note /\ n.meta = outbox[<<a, i>>].meta
      BY <1>6 DEF Dir
    <3> HIDE DEF n
    <3> QED BY <3>1, <3>2
  <2>3. CASE BindMeta(p)
    <3> DEFINE n == [outbox[<<a, i>>] EXCEPT !.exists = TRUE, !.meta = m]
    <3>1. outbox' = [outbox EXCEPT ![<<a, i>>] = n]
      BY <1>2, <1>5, <1>6, <2>3 DEF BindMeta
    <3>2. n.meta = m /\ n.note = outbox[<<a, i>>].note /\ n.event = outbox[<<a, i>>].event
      BY <1>6 DEF Dir
    <3> HIDE DEF n
    <3> QED BY <3>1, <3>2
  <2> QED BY <2>1, <2>2, <2>3
<1>9. /\ outbox'[<<a, i>>] = n
      /\ \A d \in Places \ {<<a, i>>} : outbox'[d] = outbox[d]
  BY <1>6, <1>8
<1>10. HasMeta(<<a, i>>)'
  BY <1>3, <1>5, <1>8, <1>9 DEF HasMeta
<1>11. PayloadAt(<<a, i>>)'
  <2>1. PayloadAt(<<a, i>>)
    BY <1>4, QueuedIs
  <2> QED BY <1>6, <1>7, <1>8, <1>9, <2>1, PartsFacts DEF PayloadAt
<1>12. Queued(<<a, i>>)'
  BY <1>10, <1>11, QueuedIsNext
<1> QED BY <1>1, <1>4, <1>9, <1>12, DirectoryPromises

LEMMA BindMovePromises ==
    ASSUME IInv, HomeInv, KeptInv, NEW p \in Procs, BindMove(p)
    PROVE  Promises
<1>1. /\ proc[p].pc \in Binding /\ proc[p].pc \notin {"idle", "f_item"}
      /\ UNCHANGED <<canonical, remembered>>
  BY PcSets DEF BindMove, stores
<1>2. PICK i \in Items, a \in Aliases : Item(proc[p]) = i /\ proc[p].at = <<a, i>>
  BY <1>1, JobFacts, PlaceOf
<1>3. PICK b \in Aliases : b = proc[p].meta.store
  BY <1>1, JobFacts DEF Meta
<1>4. CASE UNCHANGED outbox
  BY <1>1, <1>4, QuietPromises DEF IsAccepted
<1>5. CASE a # b /\ outbox' = [outbox EXCEPT ![<<b, i>>] = outbox[<<a, i>>], ![<<a, i>>] = NoDir]
  <2>1. \A c \in Aliases, j \in Items :
           outbox'[<<c, j>>] = IF j = i /\ c = a THEN NoDir
                               ELSE IF j = i /\ c = b THEN outbox[<<a, i>>]
                               ELSE outbox[<<c, j>>]
    BY <1>2, <1>3, <1>5 DEF IInv, TypeOK, Places
  <2>2. outbox[<<a, i>>].meta.st = "unbound"
    BY <1>1, <1>2 DEF HomeInv, BoundOnce, At
  <2>3. Queued(<<a, i>>)
    BY <2>2, BoundIsHeld
  <2>4. Queued(<<b, i>>)'
    <3>1. outbox'[<<b, i>>] = outbox[<<a, i>>]
      BY <1>5, <2>1
    <3>2. <<a, i>>[2] = i /\ <<b, i>>[2] = i
      OBVIOUS
    <3> QED BY <2>3, <3>1, <3>2 DEF Queued, HasPayload
  <2>5. IsHeld(i) /\ IsHeld(i)'
    BY <2>3, <2>4 DEF IsHeld
  <2>6. \A j \in Items \ {i} : IsHeld(j)' <=> IsHeld(j)
    BY <2>1 DEF IsHeld, Queued
  <2>7. \A j \in Items, r \in Roots : Delivered(j, r)' <=> Delivered(j, r)
    BY <1>1 DEF Delivered, HasPayload
  <2>8. \A j \in Items : IsAccepted(j)' <=> IsAccepted(j)
    BY <1>1 DEF IsAccepted
  <2> QED BY <2>5, <2>6, <2>7, <2>8, StutterPromises DEF Unseen
<1> QED BY <1>2, <1>3, <1>4, <1>5 DEF BindMove

\* The steps that touch neither the outbox nor a store.
LEMMA IdlePromises ==
    ASSUME IInv, UNCHANGED <<outbox, canonical>>,
           \/ UNCHANGED remembered
           \/ \E i \in Items : /\ remembered[i] = "no"
                               /\ remembered' = [remembered EXCEPT ![i] = "started"]
    PROVE  Promises
<1>1. \A j \in Items : IsAccepted(j)' <=> IsAccepted(j)
  BY DEF IsAccepted, IInv, TypeOK
<1> QED BY <1>1, QuietPromises

\* Every step of every process is a step of Delivery, or changes nothing that
\* a caller was promised.
LEMMA StepPromises ==
    ASSUME StableMounts, IInv, CopyInv, HomeInv, KeptInv, [Next]_vars
    PROVE  Promises
<1>0. Grows
  BY StepGrows
<1>1. ASSUME NEW p \in Procs, Start(p) PROVE Promises
  <2>1. /\ UNCHANGED <<outbox, canonical>>
        /\ \/ UNCHANGED remembered
           \/ \E i \in Items : /\ remembered[i] = "no"
                               /\ remembered' = [remembered EXCEPT ![i] = "started"]
    BY <1>1 DEF Start, RememberOnline, RememberOffline, BindStart, FlushStart, stores
  <2> QED BY <2>1, IdlePromises
<1>2. ASSUME NEW p \in Procs, RememberStep(p) PROVE Promises
  <2>1. CASE RecordIdentity(p)
    BY <2>1, IdlePromises DEF RecordIdentity, stores
  <2> QED BY <1>2, <2>1, WritePromises, EnqueuePromises, EnqueueMetaPromises DEF RememberStep
<1>3. ASSUME NEW p \in Procs, FlushStep(p) PROVE Promises
  <2>1. CASE FlushLook(p) \/ FlushSettle(p) \/ FlushEnd(p) \/ \E d \in Places : FlushPick(p, d)
    BY <2>1, IdlePromises DEF FlushLook, FlushSettle, FlushEnd, FlushPick, stores
  <2> QED BY <1>0, <1>3, <2>1, FlushPromises, RemovePromises DEF FlushStep
<1>4. ASSUME NEW p \in Procs, BindStep(p) PROVE Promises
  BY <1>0, <1>4, BindMovePromises, BindPromises DEF BindStep
<1>5. CASE Environment
  <2>1. ASSUME NEW r \in Roots, NEW i \in Items, NEW k \in Parts, Edit(r, i, k) PROVE Promises
    <3>1. \A j \in Items : IsAccepted(j)' <=> IsAccepted(j)
      BY <2>1, EditDoes DEF IsAccepted
    <3> QED BY <2>1, <3>1, EditDoes, QuietPromises
  <2>2. ASSUME UNCHANGED <<outbox, canonical, remembered>> PROVE Promises
    BY <2>2, IdlePromises
  <2> QED BY <1>5, <2>1, <2>2 DEF Environment, Mount, Unmount, Repoint, Crash, stores
<1>6. CASE UNCHANGED vars
  BY <1>6, IdlePromises DEF vars
<1> QED BY <1>1, <1>2, <1>3, <1>4, <1>5, <1>6 DEF Next, Step

LEMMA InitPromises == Init => Promised!Init
<1> SUFFICES ASSUME Init PROVE Promised!Init
  OBVIOUS
<1>1. /\ \A i \in Items : remembered[i] = "no"
      /\ \A i \in Items, r \in Roots, k \in Parts : canonical[r][i][k].st = "absent"
      /\ \A d \in Places : outbox[d].meta.st = "absent"
  BY DEF Init, NoTree, Absent, NoDir, NoMeta
<1>2. {i \in Items : remembered[i] \in {"stored", "queued"}} = {}
  BY <1>1
<1>3. {i \in Items : \E a \in Aliases : Queued(<<a, i>>)} = {}
  BY <1>1 DEF Queued, Places
<1>4. \A i \in Items, r \in Roots : ~Delivered(i, r)
  BY <1>1, PartsFacts DEF Delivered, HasPayload
<1>5. [i \in Items |-> {r \in Roots : Delivered(i, r)}] = [i \in Items |-> {}]
  BY <1>4
<1> QED BY <1>2, <1>3, <1>5 DEF Promised!Init

\* The outbox, its flushers and its binders implement Delivery: seen through
\* what a caller was promised, everything that processes do, and every way
\* they die, is an acceptance, a delivery to the one home, a release of the
\* local copy after it, or nothing.
THEOREM OutboxImplementsDelivery ==
    ASSUME StableMounts, SerialBind PROVE Spec => KeepsPromise
<1>1. IInv /\ CopyInv /\ HomeInv /\ KeptInv /\ [Next]_vars => [Promised!Next]_(Promised!vars)
  BY StepPromises DEF Promises
<1> QED BY <1>1, InitPromises, KeptAlways, PTL DEF Spec, KeepsPromise, Promised!Spec

\* What remember and flush promise together: a memory whose caller was told of
\* success is in the local outbox or in a store, and never in two stores.
THEOREM PromiseKept == Promised!Spec => []Promised!Promise
<1>1. Promised!Init => Promised!Promise
  BY DEF Promised!Init, Promised!Promise
<1>2. Promised!Promise /\ [Promised!Next]_(Promised!vars) => Promised!Promise'
  <2> SUFFICES ASSUME Promised!Promise, [Promised!Next]_(Promised!vars)
               PROVE  Promised!Promise'
    OBVIOUS
  <2>1. CASE UNCHANGED Promised!vars BY <2>1 DEF Promised!vars, Promised!Promise
  <2>2. ASSUME NEW i \in Items, Promised!Queue(i)
        PROVE  Promised!Promise'
    BY <2>2 DEF Promised!Queue, Promised!Promise
  <2>3. ASSUME NEW i \in Items, Promised!Release(i)
        PROVE  Promised!Promise'
    BY <2>3 DEF Promised!Release, Promised!Promise
  <2>4. ASSUME NEW i \in Items, NEW r \in Roots, Promised!StoreDirectly(i, r)
        PROVE  Promised!Promise'
    <3>1. PICK d, e : /\ d = [j \in Items |-> {q \in Roots : Delivered(j, q)}]
                      /\ e = [j \in Items |-> {q \in Roots : Delivered(j, q)'}]
      OBVIOUS
    <3>2. /\ \A j \in Items : /\ d[j] = {q \in Roots : Delivered(j, q)}
                             /\ e[j] = {q \in Roots : Delivered(j, q)'}
          /\ e = [d EXCEPT ![i] = {r}]
      BY <2>4, <3>1 DEF Promised!StoreDirectly
    <3>3. \A j \in Items : e[j] = IF j = i THEN {r} ELSE d[j]
      BY <3>1, <3>2
    <3>4. \A j \in Items : /\ IsAccepted(j)' <=> IsAccepted(j) \/ j = i
                           /\ IsHeld(j)' <=> IsHeld(j)
      BY <2>4 DEF Promised!StoreDirectly, IsAccepted, IsHeld
    <3>5. \A j \in Items : /\ IsAccepted(j) => IsHeld(j) \/ d[j] # {}
                           /\ \A x, y \in d[j] : x = y
      BY <3>1 DEF Promised!Promise, IsAccepted, IsHeld
    <3>6. \A j \in Items : /\ IsAccepted(j)' => IsHeld(j)' \/ e[j] # {}
                           /\ \A x, y \in e[j] : x = y
      BY <3>3, <3>4, <3>5
    <3> QED BY <3>1, <3>6 DEF Promised!Promise, IsAccepted, IsHeld
  <2>5. ASSUME NEW i \in Items, NEW r \in Roots, Promised!Deliver(i, r)
        PROVE  Promised!Promise'
    BY <2>5 DEF Promised!Deliver, Promised!Promise
  <2> QED BY <2>1, <2>2, <2>3, <2>4, <2>5 DEF Promised!Next
<1> QED BY <1>1, <1>2, PTL DEF Promised!Spec

\* The outbox implements Delivery, so it keeps the promise of Delivery.
COROLLARY OutboxKeepsPromise ==
    ASSUME StableMounts, SerialBind PROVE Spec => []Promised!Promise
BY OutboxImplementsDelivery, PromiseKept, PTL DEF KeepsPromise

=============================================================================
