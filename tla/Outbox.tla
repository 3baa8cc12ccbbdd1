------------------------------- MODULE Outbox -------------------------------
(***************************************************************************)
(* The durable local outbox of hive-memory, and the `hm` processes that    *)
(* meet in it: `hm remember` (straight to the store, or queued when the    *)
(* store is away), `hm flush` and `hm refresh` (outbox::flush), and        *)
(* `hm flush --bind` (outbox::bind_item).  No lock protects the outbox, so *)
(* every file-system call that another process can observe is one action,  *)
(* and a process can die between any two of them.                          *)
(*                                                                         *)
(* A memory is an item: one note and, for the items in EventItems, one     *)
(* event, under file names made from its id.  What the properties tell     *)
(* apart of a file is whose identity is embedded in its bytes and whether  *)
(* it was edited after publication, so that is its content, and a content  *)
(* hash is that content.                                                   *)
(***************************************************************************)
EXTENDS Naturals

CONSTANTS
    Items,          \* memory ids
    EventItems,     \* the ids written with an event sidecar
    Aliases,        \* configured store names
    Roots,          \* store roots; a root stands for its manifest id too
    None,           \* no store: identity "unbound", alias not configured
    Procs,          \* hm processes
    InitConfig,     \* alias -> root in the config file at the start
    Declared,       \* alias -> `expected_id` of the config file, or None
    InitIdentities, \* the identity caches that earlier sessions may have left
    Links,          \* the store's file system has hard links
    StableMounts,   \* a root is never unmounted under a process writing to it
    SerialBind,     \* nobody binds one item from two shells at once
    MayRepoint,     \* the user may edit an alias while processes run
    MaxFaults       \* bound: processes that die or meet a failing copy

Owners == Roots \cup {None}
Parts  == {"note", "event"}
Places == Aliases \X Items      \* the directories outbox/<alias>/<id>

ASSUME OutboxAssumption ==
    /\ EventItems \subseteq Items
    /\ None \notin Roots
    /\ Aliases # {}
    /\ InitConfig \in [Aliases -> Owners]
    /\ Declared \in [Aliases -> Owners]
    /\ InitIdentities \subseteq [Aliases -> Owners]
    /\ {Links, StableMounts, SerialBind, MayRepoint} \subseteq BOOLEAN
    /\ Links \/ StableMounts
    /\ MaxFaults \in Nat

VARIABLES
    outbox,      \* data_dir/outbox: Places -> directory
    canonical,   \* what each store holds: root -> item -> files
    phantom,     \* what lies under a root's path while it is not mounted
    archive,     \* .outbox-archive of each root: root -> item -> file names
    mounted,     \* roots whose manifest can be read
    config,      \* the config file: alias -> root
    identities,  \* store-identities.toml: alias -> last seen manifest id
    remembered,  \* what `hm remember` told the caller about each item
    proc,        \* the running processes
    faults       \* processes that died, and copies that failed, so far

stores == <<canonical, phantom, archive>>
world  == <<mounted, config>>
vars == <<outbox, canonical, phantom, archive, mounted, config, identities,
          remembered, proc, faults>>

-----------------------------------------------------------------------------
(* Files, directories and process records.                                 *)

File == [st : {"absent", "torn", "whole"}, owner : Owners, edited : BOOLEAN]
Absent   == [st |-> "absent", owner |-> None, edited |-> FALSE]
Torn     == [st |-> "torn",   owner |-> None, edited |-> FALSE]
Whole(o) == [st |-> "whole",  owner |-> o,    edited |-> FALSE]

\* OutboxMeta: `hash` is the identity in the bytes that note_sha256 and
\* event_sha256 were computed from.
Meta == [st : {"absent", "pending", "unbound"}, store : Aliases,
         expected : Owners, hash : Owners]
NoMeta == [st |-> "absent", store |-> CHOOSE a \in Aliases : TRUE,
           expected |-> None, hash |-> None]

Dir   == [exists : BOOLEAN, note : File, event : File, meta : Meta]
NoDir == [exists |-> FALSE, note |-> Absent, event |-> Absent, meta |-> NoMeta]

Tree   == [Roots -> [Items -> [Parts -> File]]]
NoTree == [r \in Roots |-> [i \in Items |-> [k \in Parts |-> Absent]]]

PartsOf(i) == IF i \in EventItems THEN Parts ELSE {"note"}

Writing    == {"w_put", "w_copy"}                 \* memory::write_record
Publishing == {"f_look", "f_put", "f_copy", "f_settle"}  \* outbox::flush_item
Binding    == {"b_move", "b_note", "b_event", "b_meta"}  \* outbox::bind_item
Control == {"idle", "w_cache", "q_note", "q_event", "q_meta", "f_item",
            "f_remove", "b_cache"} \cup Writing \cup Publishing \cup Binding

Result  == {"none", "written", "present", "mismatch", "conflict"}
Outcome == {"none", "flushed", "skipped", "failed", "unbound", "pending"}

\* A process: where it is, the item and directory it works on, the metadata
\* it read (or is about to write), the root it resolved, and its snapshots of
\* the directory scan, the config and the identity cache.
Process == [pc : Control, at : Places \cup {<<>>}, meta : Meta, root : Owners,
            part : Parts, res : [Parts -> Result], out : Outcome,
            todo : SUBSET Places, cfg : [Aliases -> Owners],
            cache : [Aliases -> Owners]]

NoAlias == [a \in Aliases |-> None]

Idle == [pc |-> "idle", at |-> <<>>, meta |-> NoMeta, root |-> None,
         part |-> "note", res |-> [k \in Parts |-> "none"], out |-> "none",
         todo |-> {}, cfg |-> NoAlias, cache |-> NoAlias]

Item(s) == s.at[2]

TypeOK ==
    /\ outbox \in [Places -> Dir]
    /\ canonical \in Tree
    /\ phantom \in Tree
    /\ archive \in [Roots -> [Items -> SUBSET {"meta", "note", "event"}]]
    /\ mounted \subseteq Roots
    /\ config \in [Aliases -> Owners]
    /\ identities \in [Aliases -> Owners]
    /\ remembered \in [Items -> {"no", "started", "stored", "queued"}]
    /\ proc \in [Procs -> Process]
    /\ faults \in 0..MaxFaults

Init ==
    /\ outbox = [d \in Places |-> NoDir]
    /\ canonical = NoTree
    /\ phantom = NoTree
    /\ archive = [r \in Roots |-> [i \in Items |-> {}]]
    /\ mounted \in SUBSET Roots
    /\ config = InitConfig
    /\ identities \in InitIdentities
    /\ remembered = [i \in Items |-> "no"]
    /\ proc = [p \in Procs |-> Idle]
    /\ faults = 0

-----------------------------------------------------------------------------
(* Store paths.  A path under a root reaches the store only while the root *)
(* is mounted; otherwise create_dir_all builds a local directory there.    *)

FileAt(r, i, k) == IF r \in mounted THEN canonical[r][i][k] ELSE phantom[r][i][k]

PutAt(r, i, k, f) ==
    IF r \in mounted
    THEN canonical' = [canonical EXCEPT ![r][i][k] = f] /\ UNCHANGED phantom
    ELSE phantom' = [phantom EXCEPT ![r][i][k] = f] /\ UNCHANGED canonical

\* What write_atomic_create_new leaves at the final path by its first visible
\* step: a hard link shows all the bytes at once, the copy an empty file.
Landed(o) == IF Links THEN Whole(o) ELSE Torn

Becomes(p, s) == proc' = [proc EXCEPT ![p] = s]

\* store::read_manifest succeeds.
Reachable(r) == r \in mounted

-----------------------------------------------------------------------------
(* hm remember, hm note.                                                   *)

\* known_store_identity: a declared expected_id beats the last-seen cache.
KnownIdentity(a) == IF Declared[a] # None THEN Declared[a] ELSE identities[a]

\* run_write_memory with a reachable store: the manifest is read and its
\* identity is about to be recorded from this snapshot of the cache.
RememberOnline(p, i, a) ==
    /\ proc[p].pc = "idle" /\ remembered[i] = "no"
    /\ config[a] # None /\ Reachable(config[a])
    /\ remembered' = [remembered EXCEPT ![i] = "started"]
    /\ Becomes(p, [Idle EXCEPT !.pc = "w_cache", !.at = <<a, i>>,
                   !.root = config[a], !.cache = identities,
                   !.meta = [NoMeta EXCEPT !.store = a, !.expected = config[a],
                                           !.hash = config[a]]])
    /\ UNCHANGED <<outbox, stores, world, identities, faults>>

\* enqueue_outbox_memory: the store cannot be read, so the payload is
\* rendered with the known identity, or with the placeholder.
RememberOffline(p, i, a) ==
    LET id == KnownIdentity(a) IN
    /\ proc[p].pc = "idle" /\ remembered[i] = "no"
    /\ config[a] # None /\ ~Reachable(config[a])
    /\ remembered' = [remembered EXCEPT ![i] = "started"]
    /\ Becomes(p, [Idle EXCEPT !.pc = "q_note", !.at = <<a, i>>,
                   !.meta = [st |-> IF id = None THEN "unbound" ELSE "pending",
                             store |-> a, expected |-> id, hash |-> id]])
    /\ UNCHANGED <<outbox, stores, world, identities, faults>>

\* record_store_identity: the whole cache is written back from the snapshot.
RecordIdentity(p) ==
    LET s == proc[p] IN
    /\ s.pc \in {"w_cache", "b_cache"}
    /\ identities' = [s.cache EXCEPT ![s.meta.store] = s.root]
    /\ Becomes(p, IF s.pc = "w_cache"
                  THEN [s EXCEPT !.pc = "w_put", !.cache = NoAlias]
                  ELSE Idle)
    /\ UNCHANGED <<outbox, stores, world, remembered, faults>>

\* write_record after a file is complete: the event follows the note, and the
\* caller hears of success after the last of them.
WroteFile(p, s) ==
    IF s.part = "note" /\ Item(s) \in EventItems
    THEN /\ Becomes(p, [s EXCEPT !.pc = "w_put", !.part = "event"])
         /\ UNCHANGED remembered
    ELSE /\ Becomes(p, Idle)
         /\ remembered' = [remembered EXCEPT ![Item(s)] = "stored"]

\* memory::write_record publishes one file under a fresh name.
WriteFile(p) ==
    LET s == proc[p] IN
    /\ s.pc = "w_put"
    /\ \/ /\ FileAt(s.root, Item(s), s.part).st = "absent"
          /\ PutAt(s.root, Item(s), s.part, Landed(s.root))
          /\ IF Links THEN WroteFile(p, s)
             ELSE Becomes(p, [s EXCEPT !.pc = "w_copy"]) /\ UNCHANGED remembered
       \/ /\ ~Reachable(s.root)       \* the path cannot be created
          /\ Becomes(p, Idle)
          /\ UNCHANGED <<canonical, phantom, remembered>>
    /\ UNCHANGED <<outbox, archive, world, identities, faults>>

\* copy_temp_create_new finishes the copy, or fails and removes the file.
WriteCopied(p) ==
    LET s == proc[p] IN
    /\ s.pc = "w_copy"
    /\ \/ /\ PutAt(s.root, Item(s), s.part, Whole(s.root))
          /\ WroteFile(p, s)
          /\ UNCHANGED faults
       \/ /\ PutAt(s.root, Item(s), s.part, Absent)
          /\ faults < MaxFaults /\ faults' = faults + 1
          /\ Becomes(p, Idle) /\ UNCHANGED remembered
    /\ UNCHANGED <<outbox, archive, world, identities>>

\* outbox::enqueue creates the directory and note.md ...
EnqueueNote(p) ==
    LET s == proc[p] IN
    /\ s.pc = "q_note"
    /\ outbox' = [outbox EXCEPT ![s.at] = [NoDir EXCEPT !.exists = TRUE,
                                           !.note = Whole(s.meta.hash)]]
    /\ Becomes(p, [s EXCEPT !.pc = IF Item(s) \in EventItems THEN "q_event"
                                   ELSE "q_meta"])
    /\ UNCHANGED <<stores, world, identities, remembered, faults>>

\* ... then event.json, when the memory has one ...
EnqueueEvent(p) ==
    LET s == proc[p] IN
    /\ s.pc = "q_event"
    /\ outbox' = [outbox EXCEPT ![s.at].event = Whole(s.meta.hash)]
    /\ Becomes(p, [s EXCEPT !.pc = "q_meta"])
    /\ UNCHANGED <<stores, world, identities, remembered, faults>>

\* ... and meta.toml last: from here on a flush can see the item.
EnqueueMeta(p) ==
    LET s == proc[p] IN
    /\ s.pc = "q_meta"
    /\ outbox' = [outbox EXCEPT ![s.at].meta = s.meta]
    /\ remembered' = [remembered EXCEPT ![Item(s)] = "queued"]
    /\ Becomes(p, Idle)
    /\ UNCHANGED <<stores, world, identities, faults>>

RememberStep(p) ==
    \/ RecordIdentity(p) \/ WriteFile(p) \/ WriteCopied(p)
    \/ EnqueueNote(p) \/ EnqueueEvent(p) \/ EnqueueMeta(p)

-----------------------------------------------------------------------------
(* hm flush: outbox::flush scans the directories once, then handles each.  *)

\* collect_item_dirs, with the config this process loaded.
FlushStart(p) ==
    /\ proc[p].pc = "idle"
    /\ \E d \in Places : outbox[d].exists
    /\ Becomes(p, [Idle EXCEPT !.pc = "f_item", !.cfg = config,
                   !.todo = {d \in Places : outbox[d].exists}])
    /\ UNCHANGED <<outbox, stores, world, identities, remembered, faults>>

\* The report of one item (one bad item must not end the batch).
ReportLast(p, outcome) == Becomes(p, [Idle EXCEPT !.pc = "f_item", !.out = outcome])
Report(p, outcome) ==
    Becomes(p, [Idle EXCEPT !.pc = "f_item", !.cfg = proc[p].cfg,
                !.todo = proc[p].todo, !.out = outcome])

\* The manifest gate of flush_item; and a flush that trusts the alias, or
\* compares with the last-seen cache instead of the manifest.
GateOff(r, m) == TRUE
GateCached(r, m) == identities[m.store] = m.expected
Gate(r, m) == r = m.expected

\* flush_item reads meta.toml and the manifest behind its alias, and decides
\* whether this item may be published at all.
FlushPick(p, d) ==
    LET s == proc[p]
        m == outbox[d].meta
        r == s.cfg[m.store]
        ended(outcome) == Becomes(p, [Idle EXCEPT !.pc = "f_item", !.cfg = s.cfg,
                                      !.todo = s.todo \ {d}, !.out = outcome])
    IN
    /\ s.pc = "f_item" /\ d \in s.todo
    /\ \/ m.st = "absent" /\ ended("skipped")
       \/ m.st = "unbound" /\ ended("unbound")
       \/ /\ m.st = "pending"
          /\ \/ m.expected = None /\ ended("unbound")
             \/ m.expected # None /\ r = None /\ ended("failed")
             \/ m.expected # None /\ r # None /\ ~Reachable(r) /\ ended("pending")
             \/ /\ m.expected # None /\ r # None /\ Reachable(r)
                /\ IF ~Gate(r, m)
                   THEN ended("failed")
                   ELSE Becomes(p, [Idle EXCEPT !.pc = "f_look", !.cfg = s.cfg,
                                    !.todo = s.todo \ {d}, !.at = d, !.meta = m,
                                    !.root = r])
    /\ UNCHANGED <<outbox, stores, world, identities, remembered, faults>>

\* Whether another payload follows the one just published.
NothingFollows(s) == FALSE
FollowedByEvent(s) == s.part = "note" /\ Item(s) \in EventItems

\* publish_payload returned for one file; the event follows the note whatever
\* the note's result was.
Published(p, result) ==
    LET s == proc[p] IN
    Becomes(p, IF FollowedByEvent(s)
               THEN [s EXCEPT !.pc = "f_look", !.part = "event", !.res["note"] = result]
               ELSE [s EXCEPT !.pc = "f_settle", !.res[s.part] = result])

\* publish_payload reads the source, checks its hash, then reads the final path.
FlushLook(p) ==
    LET s == proc[p]
        source == outbox[s.at][s.part]
        final  == FileAt(s.root, Item(s), s.part)
    IN
    /\ s.pc = "f_look"
    /\ \/ source.st = "absent" /\ Report(p, "failed")
       \/ source.st # "absent" /\ source # Whole(s.meta.hash) /\ Published(p, "mismatch")
       \/ /\ source = Whole(s.meta.hash)
          /\ \/ final = source /\ Published(p, "present")
             \/ final.st # "absent" /\ final # source /\ Published(p, "conflict")
             \/ final.st = "absent" /\ Becomes(p, [s EXCEPT !.pc = "f_put"])
    /\ UNCHANGED <<outbox, stores, world, identities, remembered, faults>>

\* A final path that create_new may take, and one that write_atomic replaces.
MayReplace(final) == TRUE
MayCreate(final) == final.st = "absent"

\* write_atomic_create_new; when it is refused, the final path is read again.
FlushPut(p) ==
    LET s == proc[p]
        final == FileAt(s.root, Item(s), s.part)
    IN
    /\ s.pc = "f_put"
    /\ \/ /\ MayCreate(final)
          /\ PutAt(s.root, Item(s), s.part, Landed(s.meta.hash))
          /\ IF Links THEN Published(p, "written")
             ELSE Becomes(p, [s EXCEPT !.pc = "f_copy"])
       \/ /\ ~MayCreate(final)
          /\ Published(p, IF final = Whole(s.meta.hash) THEN "present" ELSE "conflict")
          /\ UNCHANGED <<canonical, phantom>>
       \/ /\ ~Reachable(s.root)       \* the path cannot be created
          /\ Report(p, "failed")
          /\ UNCHANGED <<canonical, phantom>>
    /\ UNCHANGED <<outbox, archive, world, identities, remembered, faults>>

\* copy_temp_create_new finishes the copy, or fails and removes the file.
FlushCopied(p) ==
    LET s == proc[p] IN
    /\ s.pc = "f_copy"
    /\ \/ /\ PutAt(s.root, Item(s), s.part, Whole(s.meta.hash))
          /\ Published(p, "written") /\ UNCHANGED faults
       \/ /\ PutAt(s.root, Item(s), s.part, Absent)
          /\ faults < MaxFaults /\ faults' = faults + 1
          /\ Report(p, "failed")
    /\ UNCHANGED <<outbox, archive, world, identities, remembered>>

\* The names archive_file finds in the item directory.
FilesIn(d) == {k \in Parts : outbox[d][k].st # "absent"}
              \cup (IF outbox[d].meta.st # "absent" THEN {"meta"} ELSE {})

\* The results that make flush_item leave the item alone.
RefusedMismatch(results) == "mismatch" \in results
Refused(results) == "mismatch" \in results \/ "conflict" \in results

\* What write_archive copies: the metadata and every payload.
PayloadSnapshot(d) == FilesIn(d) \ {"meta"}
Snapshot(d) == FilesIn(d)

\* flush_item after both payloads: refuse on a mismatch or a conflict, else
\* write_archive into the store.
FlushSettle(p) ==
    LET s == proc[p]
        results == {s.res[k] : k \in Parts}
    IN
    /\ s.pc = "f_settle"
    /\ \/ /\ Refused(results)
          /\ Report(p, "failed") /\ UNCHANGED archive
       \/ /\ ~Refused(results)
          /\ Becomes(p, [s EXCEPT !.pc = "f_remove"])
          /\ IF Reachable(s.root)
             THEN archive' = [archive EXCEPT ![s.root][Item(s)] = @ \cup Snapshot(s.at)]
             ELSE UNCHANGED archive
       \/ /\ ~Reachable(s.root)       \* the archive path cannot be created
          /\ Report(p, "failed") /\ UNCHANGED archive
    /\ UNCHANGED <<outbox, canonical, phantom, world, identities, remembered, faults>>

WithoutFile(dir, name) ==
    [dir EXCEPT ![name] = IF name = "meta" THEN NoMeta ELSE Absent]

\* fs::remove_dir_all: the files one by one in directory order, which is
\* arbitrary, then the directory.
FlushRemove(p) ==
    LET s == proc[p]
        allPresent == \A k \in PartsOf(Item(s)) : s.res[k] = "present"
    IN
    /\ s.pc = "f_remove"
    /\ \/ /\ ~outbox[s.at].exists
          /\ Report(p, "skipped") /\ UNCHANGED outbox
       \/ \E name \in FilesIn(s.at) :
          /\ outbox' = [outbox EXCEPT ![s.at] = WithoutFile(@, name)]
          /\ UNCHANGED proc
       \/ /\ outbox[s.at].exists /\ FilesIn(s.at) = {}
          /\ outbox' = [outbox EXCEPT ![s.at] = NoDir]
          /\ Report(p, IF allPresent THEN "skipped" ELSE "flushed")
    /\ UNCHANGED <<stores, world, identities, remembered, faults>>

FlushEnd(p) ==
    /\ proc[p].pc = "f_item" /\ proc[p].todo = {}
    /\ Becomes(p, Idle)
    /\ UNCHANGED <<outbox, stores, world, identities, remembered, faults>>

FlushStep(p) ==
    \/ \E d \in Places : FlushPick(p, d)
    \/ FlushLook(p) \/ FlushPut(p) \/ FlushCopied(p)
    \/ FlushSettle(p) \/ FlushRemove(p) \/ FlushEnd(p)

-----------------------------------------------------------------------------
(* hm flush --bind: outbox::bind_item.                                     *)

\* Only an unbound item may be bound.
AnyItem(m) == m.st # "absent"
Bindable(m) == m.st = "unbound"

\* find_item_dir must find exactly one directory, its item must be unbound and
\* the target's manifest readable.  meta is what BindMeta will write.
BindStart(p, i, a) ==
    /\ proc[p].pc = "idle"
    /\ SerialBind => \A q \in Procs : proc[q].pc \in Binding => Item(proc[q]) # i
    /\ \E b \in Aliases :
        /\ {c \in Aliases : outbox[<<c, i>>].exists} = {b}
        /\ Bindable(outbox[<<b, i>>].meta)
        /\ config[a] # None /\ Reachable(config[a])
        /\ Becomes(p, [Idle EXCEPT !.pc = "b_move", !.at = <<b, i>>,
                       !.root = config[a],
                       !.meta = [st |-> "pending", store |-> a,
                                 expected |-> config[a], hash |-> config[a]]])
    /\ UNCHANGED <<outbox, stores, world, identities, remembered, faults>>

\* The directory is renamed under the target alias unless something is already
\* there, and note.md is read back from its new place.
BindMove(p) ==
    LET s == proc[p]
        target == <<s.meta.store, Item(s)>>
        readNote(dir) == IF dir.note.st # "absent"
                         THEN Becomes(p, [s EXCEPT !.pc = "b_note", !.at = target])
                         ELSE Becomes(p, Idle)
    IN
    /\ s.pc = "b_move"
    /\ \/ target = s.at /\ readNote(outbox[s.at]) /\ UNCHANGED outbox
       \/ /\ target # s.at /\ ~outbox[target].exists /\ outbox[s.at].exists
          /\ outbox' = [outbox EXCEPT ![target] = outbox[s.at], ![s.at] = NoDir]
          /\ readNote(outbox[s.at])
       \/ /\ target # s.at /\ (outbox[target].exists \/ ~outbox[s.at].exists)
          /\ Becomes(p, Idle) /\ UNCHANGED outbox
    /\ UNCHANGED <<stores, world, identities, remembered, faults>>

\* rewrite_payload_identity replaces note.md (write_atomic creates the
\* directory again if it is gone) and reads event.json.
BindNote(p) ==
    LET s == proc[p] IN
    /\ s.pc = "b_note"
    /\ outbox' = [outbox EXCEPT ![s.at].exists = TRUE,
                                ![s.at].note = Whole(s.meta.hash)]
    /\ Becomes(p, IF Item(s) \notin EventItems
                  THEN [s EXCEPT !.pc = "b_meta"]
                  ELSE IF outbox[s.at].event.st # "absent"
                       THEN [s EXCEPT !.pc = "b_event"] ELSE Idle)
    /\ UNCHANGED <<stores, world, identities, remembered, faults>>

BindEvent(p) ==
    LET s == proc[p] IN
    /\ s.pc = "b_event"
    /\ outbox' = [outbox EXCEPT ![s.at].exists = TRUE,
                                ![s.at].event = Whole(s.meta.hash)]
    /\ Becomes(p, [s EXCEPT !.pc = "b_meta"])
    /\ UNCHANGED <<stores, world, identities, remembered, faults>>

\* Only now does the item become pending, with the hashes just rendered.
BindMeta(p) ==
    LET s == proc[p] IN
    /\ s.pc = "b_meta"
    /\ outbox' = [outbox EXCEPT ![s.at].exists = TRUE, ![s.at].meta = s.meta]
    /\ Becomes(p, [s EXCEPT !.pc = "b_cache", !.cache = identities])
    /\ UNCHANGED <<stores, world, identities, remembered, faults>>

BindStep(p) == BindMove(p) \/ BindNote(p) \/ BindEvent(p) \/ BindMeta(p)

-----------------------------------------------------------------------------
(* The environment.                                                        *)

Mount(r) ==
    /\ r \notin mounted /\ mounted' = mounted \cup {r}
    /\ UNCHANGED <<outbox, stores, config, identities, remembered, proc, faults>>

Unmount(r) ==
    /\ r \in mounted /\ mounted' = mounted \ {r}
    /\ StableMounts => \A p \in Procs :
          proc[p].pc \in Writing \cup Publishing \cup {"w_cache"} => proc[p].root # r
    /\ UNCHANGED <<outbox, stores, config, identities, remembered, proc, faults>>

\* The user edits the config file; running processes keep what they loaded.
Repoint(a, r) ==
    /\ MayRepoint /\ config' = [config EXCEPT ![a] = r]
    /\ UNCHANGED <<outbox, stores, mounted, identities, remembered, proc, faults>>

\* memory::retag_record rewrites a published note, then its event, in place.
Edit(r, i, k) ==
    /\ r \in mounted
    /\ canonical[r][i][k].st = "whole" /\ ~canonical[r][i][k].edited
    /\ k = "event" => canonical[r][i]["note"].edited
    /\ canonical' = [canonical EXCEPT ![r][i][k].edited = TRUE]
    /\ UNCHANGED <<outbox, phantom, archive, world, identities, remembered, proc, faults>>

\* A process dies (kill, power, timeout of the hook that spawned it).
Crash(p) ==
    /\ proc[p].pc # "idle" /\ faults < MaxFaults
    /\ faults' = faults + 1
    /\ Becomes(p, Idle)
    /\ UNCHANGED <<outbox, stores, world, identities, remembered>>

Environment ==
    \/ \E r \in Roots : Mount(r) \/ Unmount(r)
    \/ \E a \in Aliases, r \in Owners : Repoint(a, r)
    \/ \E r \in Roots, i \in Items, k \in Parts : Edit(r, i, k)
    \/ \E p \in Procs : Crash(p)

-----------------------------------------------------------------------------
\* A user or a hook starts a command.
Start(p) ==
    \/ \E i \in Items, a \in Aliases :
          RememberOnline(p, i, a) \/ RememberOffline(p, i, a) \/ BindStart(p, i, a)
    \/ FlushStart(p)

\* A started command goes on to its next file-system call.
Step(p) == RememberStep(p) \/ FlushStep(p) \/ BindStep(p)

Next == Environment \/ \E p \in Procs : Start(p) \/ Step(p)

Spec == Init /\ [][Next]_vars

\* A running process is scheduled until it ends or dies, and somebody (the
\* user, an agent, cron) runs `hm flush` or `hm refresh` again and again.
\* Nobody has to remember or bind anything, and mounts owe us nothing.
Fairness == \A p \in Procs : WF_vars(Step(p)) /\ WF_vars(FlushStart(p))

FairSpec == Spec /\ Fairness

-----------------------------------------------------------------------------
(* Safety.                                                                 *)

HasPayload(files, i) == \A k \in PartsOf(i) : files[k].st = "whole"

\* The outbox directory d holds everything a later flush needs.
Queued(d) == /\ HasPayload([k \in Parts |-> outbox[d][k]], d[2])
             /\ outbox[d].meta.st # "absent"

\* The store behind root r holds the complete memory.
Delivered(i, r) == HasPayload(canonical[r][i], i)

\* Memory never lands in a store it does not belong to: whatever happens to
\* aliases, caches, binds and mounts, every whole file of a store carries that
\* store's manifest id, never another's and never the "unbound" placeholder
\* (flush_item's manifest gate, rewrite_payload_identity).
NeverForeign ==
    \A r \in Roots, i \in Items, k \in Parts :
        canonical[r][i][k].st = "whole" => canonical[r][i][k].owner = r

\* A memory whose `hm remember` returned success is never lost: it is whole in
\* some store, or still queued with payload and metadata together, through
\* faults, racing flushes, moves by bind and half-finished removals
\* (enqueue's write order, publish before remove in flush_item).
NoLoss ==
    \A i \in Items : remembered[i] \in {"stored", "queued"} =>
        \/ \E r \in Roots : Delivered(i, r)
        \/ \E a \in Aliases : Queued(<<a, i>>)

\* "Payloads are now safely in the store": whenever a flush is about to remove
\* the local copy, the store of that root holds the memory (the comment before
\* write_archive in flush_item).
SafeBeforeRemoval ==
    \A p \in Procs : proc[p].pc = "f_remove" =>
        Delivered(Item(proc[p]), proc[p].root)

\* One memory never ends up in two stores: a bind that was interrupted and
\* repeated elsewhere, or an alias edited between two flushes, does not
\* publish the same item twice (bind_item only takes unbound items, flush_item
\* only the store it expects).
SingleHome ==
    \A i \in Items, q, r \in Roots :
        /\ canonical[q][i]["note"].st = "whole"
        /\ canonical[r][i]["note"].st = "whole"
        => q = r

\* Once the outbox gave up the metadata of a queued memory, its files are in
\* the archive of the store that took it: the safety net of write_archive is
\* in place before remove_dir_all begins, whichever flusher removes.
ArchivedBeforeRemoved ==
    \A i \in Items :
        /\ remembered[i] = "queued"
        /\ \A a \in Aliases : outbox[<<a, i>>].meta.st = "absent"
        => \E r \in Roots : PartsOf(i) \cup {"meta"} \subseteq archive[r][i]

\* A file that readers of the store have seen whole is never replaced or
\* removed by a write or a flush: it changes only by an edit of the record
\* itself (PublishMode::CreateNew, the conflict refusal of publish_payload).
PublishedIsStable ==
    [][\A r \in Roots, i \in Items, k \in Parts :
        canonical[r][i][k].st = "whole" =>
            canonical'[r][i][k] \in {canonical[r][i][k],
                                     [canonical[r][i][k] EXCEPT !.edited = TRUE]}]_vars

-----------------------------------------------------------------------------
(* Liveness.                                                               *)

\* Item i waits under alias a for root r.
Waiting(a, i, r) == \E b \in Aliases :
    /\ outbox[<<b, i>>].meta.st = "pending" /\ outbox[<<b, i>>].meta.expected = r
    /\ outbox[<<b, i>>].meta.store = a

\* From some time on the alias leads to r and r is mounted.
StaysReachable(a, r) == <>[](config[a] = r /\ r \in mounted)

TornFinal(i, r) == \E k \in Parts : canonical[r][i][k].st = "torn"

\* A pending memory reaches its store once the store stays mounted, although
\* flushers race and die and other items of the batch fail; only a torn final
\* file, which a copy interrupted by a crash leaves, may block it.
PendingIsDelivered ==
    \A a \in Aliases, i \in Items, r \in Roots :
        StaysReachable(a, r) =>
            (Waiting(a, i, r) ~> (Delivered(i, r) \/ TornFinal(i, r)))

\* Unless a process dies, a pending memory leaves the outbox for good, so
\* the queue does not fill with items that every flush reports as failed.
PendingLeaves ==
    \A a \in Aliases, i \in Items, r \in Roots :
        StaysReachable(a, r) /\ [](faults = 0) =>
            (Waiting(a, i, r) ~> \A b \in Aliases : outbox[<<b, i>>].meta.st = "absent")

-----------------------------------------------------------------------------
(* Refinement: the outbox keeps the promise of Delivery.                   *)

Promised == INSTANCE Delivery WITH
    accepted  <- {i \in Items : remembered[i] \in {"stored", "queued"}},
    held      <- {i \in Items : \E a \in Aliases : Queued(<<a, i>>)},
    delivered <- [i \in Items |-> {r \in Roots : Delivered(i, r)}]

\* Seen through this mapping, every step of every process is a step of
\* Delivery or changes nothing a caller was promised.
KeepsPromise == Promised!Spec

=============================================================================
