---------------------------- MODULE TriageIndex ----------------------------
(***************************************************************************)
(* The local triage index of one store: a JSONL file with the fingerprint  *)
(* of the canonical files in its header, rebuilt by whichever process      *)
(* finds it stale, under a host-local lock whose file may be pruned.       *)
(*                                                                         *)
(* The store is a cloud mount: files arrive in any order, parts of it are  *)
(* sometimes not listed, and a listed file may fail to be read.  A record  *)
(* is a note and, for some, an event; what matters of a file is which      *)
(* rewrite of the record it is from.  The fingerprint hashes path, size    *)
(* and mtime of every listed file and is taken to be exact.  An index file *)
(* over the size cap and orphaned indexes of temporary stores are left out.*)
(***************************************************************************)
EXTENDS Naturals

CONSTANTS
    Records,        \* memory ids
    Paired,         \* the ids that have an event sidecar
    Procs,          \* hm processes
    MayFlicker,     \* a file may vanish and come back within one rebuild
    MaxVersion,     \* bound: the write and the retags of a record
    MaxInodes,      \* bound: how often the lock file is created
    MaxFaults       \* bound: processes that die

ASSUME IndexAssumption ==
    /\ Paired \subseteq Records
    /\ MayFlicker \in BOOLEAN
    /\ MaxVersion \in Nat /\ MaxFaults \in Nat
    /\ MaxInodes \in Nat \ {0}

VARIABLES
    files,      \* canonical files of the store: record -> version of each part
    hidden,     \* files the mount does not list
    cache,      \* the index file, <<>> when there is none
    path,       \* inode at the path of the lock file, 0 when there is none
    inodes,     \* inodes of that name so far
    retried,    \* the marker of the last retry of an incomplete index is recent
    proc,       \* the running processes
    faults      \* processes that died

mount == <<files, hidden>>
lock  == <<path, inodes>>
vars  == <<files, hidden, cache, path, inodes, retried, proc, faults>>

-----------------------------------------------------------------------------
Version  == 0..MaxVersion       \* 0: the file does not exist
FileName == (Records \X {"note"}) \cup (Paired \X {"event"})
Fingerprint == [Records -> [note : Version, event : Version]]

\* Which version a row shows (0: no row), and whether it has an event.
Row  == [version : Version, paired : BOOLEAN]
NoRow == [version |-> 0, paired |-> FALSE]
Rows == [Records -> Row]
Empty == [r \in Records |-> NoRow]

\* An index file: IndexHeader and the entries.
Generation == [fingerprint : Fingerprint, rows : Rows, complete : BOOLEAN]

\* canonical_fingerprint of what the mount lists.
Listed(r, k, hide) == IF <<r, k>> \in hide THEN 0 ELSE files[r][k]
View(hide) == [r \in Records |-> [note |-> Listed(r, "note", hide),
                                  event |-> Listed(r, "event", hide)]]

\* entry_from_note: event metadata is preferred; without a note there is no row.
RowOf(note, event) ==
    IF note = 0 THEN NoRow
    ELSE IF event = 0 THEN [version |-> note, paired |-> FALSE]
    ELSE [version |-> event, paired |-> TRUE]
RowsOf(fp) == [r \in Records |-> RowOf(fp[r].note, fp[r].event)]

-----------------------------------------------------------------------------
\* The lock: open the file, try to lock it, check that the path still leads to
\* it.  A rebuild: read records, fingerprint again, publish.
Acquiring == {"k_open", "k_try", "k_verify"}
Building  == {"b_start", "b_read", "b_publish"}
Pruning   == {"u_open", "u_try", "u_verify", "u_unlink"}
Control == {"idle", "l_view", "l_read", "done"} \cup Acquiring \cup Building \cup Pruning

\* kind: load is load_or_rebuild_index; check and refresh are refresh_indexes,
\* with and without use_fresh_index.  fd, locked: the lock file it has open.
\* fresh: the freshness check that runs is the one after the lock.
\* owed: records listed since the call began, which a reader must be shown.
Process == [pc : Control, kind : {"none", "load", "check", "refresh", "prune"},
            fd : 0..MaxInodes, locked : BOOLEAN, contended : BOOLEAN,
            view : Fingerprint, todo : SUBSET Records, rows : Rows,
            warned : BOOLEAN, owed : SUBSET Records]

NoView == [r \in Records |-> [note |-> 0, event |-> 0]]
Idle == [pc |-> "idle", kind |-> "none", fd |-> 0, locked |-> FALSE,
         contended |-> FALSE, view |-> NoView, todo |-> {}, rows |-> Empty,
         warned |-> FALSE, owed |-> {}]

FileOpen(s) == s.locked \/ s.pc \in {"k_try", "u_try"} => s.fd # 0

\* Types; and a lock is taken, and held, on an open file.
TypeOK ==
    /\ files \in Fingerprint
    /\ hidden \subseteq FileName
    /\ cache \in Generation \cup {<<>>}
    /\ path \in 0..MaxInodes /\ inodes \in 0..MaxInodes
    /\ retried \in BOOLEAN
    /\ proc \in [Procs -> Process]
    /\ \A p \in Procs : FileOpen(proc[p])
    /\ faults \in 0..MaxFaults

Init ==
    /\ files = NoView /\ hidden = {}
    /\ cache = <<>>
    /\ path = 0 /\ inodes = 0
    /\ retried = FALSE
    /\ proc = [p \in Procs |-> Idle]
    /\ faults = 0

Becomes(p, s) == proc' = [proc EXCEPT ![p] = s]
\* The file is closed and with it the lock is gone.
Unlocked(s) == [s EXCEPT !.fd = 0, !.locked = FALSE]

\* load_or_rebuild_index returns rows to its caller; the others are finished.
Returns(p, rows, warned) ==
    Becomes(p, IF proc[p].kind # "load" THEN Idle
               ELSE [Idle EXCEPT !.pc = "done", !.kind = "load", !.rows = rows,
                                 !.warned = warned, !.owed = proc[p].owed])

-----------------------------------------------------------------------------
(* Commands.                                                               *)

\* A read command, or a session-start hook.
LoadStart(p) ==
    /\ proc[p].pc = "idle"
    /\ Becomes(p, [Idle EXCEPT !.pc = "l_view", !.kind = "load",
                   !.owed = {r \in Records : View(hidden)[r].note > 0}])
    /\ UNCHANGED <<mount, cache, lock, retried, faults>>

\* hm refresh, after a write or from time to time: the lock comes first.
RefreshStart(p, kind) ==
    /\ proc[p].pc = "idle"
    /\ Becomes(p, [Idle EXCEPT !.pc = "k_open", !.kind = kind])
    /\ UNCHANGED <<mount, cache, lock, retried, faults>>

\* prune_unreferenced_index_locks sees a lock file without an index.
PruneStart(p) ==
    /\ proc[p].pc = "idle" /\ path # 0 /\ cache = <<>>
    /\ Becomes(p, [Idle EXCEPT !.pc = "u_open", !.kind = "prune"])
    /\ UNCHANGED <<mount, cache, lock, retried, faults>>

-----------------------------------------------------------------------------
(* load_fresh_index: fingerprint the store, then read the index file.      *)

LoadView(p) ==
    /\ proc[p].pc = "l_view"
    /\ Becomes(p, [proc[p] EXCEPT !.view = View(hidden), !.pc = "l_read"])
    /\ UNCHANGED <<mount, cache, lock, retried, faults>>

\* The fingerprints agree; and a cache that is served whatever the store holds.
AnyGeneration(view) == cache # <<>>
IsFresh(view) == cache # <<>> /\ cache.fingerprint = view

\* A fresh index is served.  A periodic refresh does not trust an incomplete
\* one, unless it was retried lately (mark_incomplete_retry_due).
LoadRead(p) ==
    LET s == proc[p]
        retries == s.kind = "check" /\ ~cache.complete /\ ~retried
    IN
    /\ s.pc = "l_read"
    /\ \/ /\ IsFresh(s.view) /\ ~retries
          /\ Returns(p, cache.rows, ~cache.complete)
          /\ UNCHANGED retried
       \/ /\ IsFresh(s.view) /\ retries
          /\ Becomes(p, [s EXCEPT !.view = NoView, !.pc = "b_start"])
          /\ retried' = TRUE
       \/ /\ ~IsFresh(s.view)
          /\ Becomes(p, [s EXCEPT !.view = NoView,
                                  !.pc = IF s.locked THEN "b_start" ELSE "k_open"])
          /\ UNCHANGED retried
    /\ UNCHANGED <<mount, cache, lock, faults>>

-----------------------------------------------------------------------------
(* try_rebuild_lock.                                                       *)

Opens(p, pc) ==
    IF path # 0
    THEN Becomes(p, [proc[p] EXCEPT !.fd = path, !.pc = pc]) /\ UNCHANGED lock
    ELSE /\ inodes < MaxInodes
         /\ inodes' = inodes + 1 /\ path' = inodes + 1
         /\ Becomes(p, [proc[p] EXCEPT !.fd = inodes + 1, !.pc = pc])

LockOpen(p) ==
    /\ proc[p].pc = "k_open"
    /\ Opens(p, "k_try")
    /\ UNCHANGED <<mount, cache, retried, faults>>

Held(inode) == \E q \in Procs : proc[q].locked /\ proc[q].fd = inode

\* A contender waits and opens the file again; a reader that waited for one
\* second serves the previous generation, or fails; a refresh may give up.
LockTry(p) ==
    LET s == proc[p] IN
    /\ s.pc = "k_try"
    /\ \/ /\ ~Held(s.fd)
          /\ Becomes(p, [s EXCEPT !.locked = TRUE, !.pc = "k_verify"])
       \/ /\ Held(s.fd)
          /\ Becomes(p, [Unlocked(s) EXCEPT !.contended = (s.kind = "load"), !.pc = "k_open"])
       \/ /\ Held(s.fd)
          /\ IF cache # <<>> THEN Returns(p, cache.rows, TRUE) ELSE Becomes(p, Idle)
    /\ UNCHANGED <<mount, cache, lock, retried, faults>>

\* lock_path_matches_file; and an acquisition that trusts the open file.
AnyFile(inode) == TRUE
PathMatches(inode) == path = inode

\* A reader that waited looks once more whether the index is fresh by now, and
\* so does a periodic refresh; anybody else rebuilds.
LockVerify(p) ==
    LET s == proc[p] IN
    /\ s.pc = "k_verify"
    /\ Becomes(p, IF ~PathMatches(s.fd) THEN [Unlocked(s) EXCEPT !.pc = "k_open"]
                  ELSE IF s.kind = "check" \/ s.contended
                       THEN [s EXCEPT !.contended = FALSE, !.pc = "l_view"]
                       ELSE [s EXCEPT !.pc = "b_start"])
    /\ UNCHANGED <<mount, cache, lock, retried, faults>>

-----------------------------------------------------------------------------
(* rebuild_index, under the lock.                                          *)

\* fingerprint_before, and the list of notes.
BuildStart(p) ==
    LET seen == View(hidden) IN
    /\ proc[p].pc = "b_start"
    /\ Becomes(p, [proc[p] EXCEPT !.view = seen, !.pc = "b_read", !.warned = FALSE,
                   !.todo = {r \in Records : seen[r].note > 0}])
    /\ UNCHANGED <<mount, cache, lock, retried, faults>>

\* One note and its event.  A note that cannot be read has no row, an event
\* that cannot be read leaves the metadata of the note; both are warned about.
\* An event that is not listed is no reason for a warning.
BuildRead(p, r) ==
    LET s == proc[p]
        Reads(row, failed) ==
            Becomes(p, [s EXCEPT !.todo = @ \ {r}, !.rows[r] = row,
                                 !.warned = s.warned \/ failed])
        note  == Listed(r, "note", hidden)
        event == Listed(r, "event", hidden)
    IN
    /\ s.pc = "b_read" /\ r \in s.todo
    /\ \/ Reads(RowOf(note, event), note = 0)
       \/ Reads(NoRow, TRUE)
       \/ event > 0 /\ Reads(RowOf(note, 0), TRUE)
    /\ UNCHANGED <<mount, cache, lock, retried, faults>>

\* merge_regressed_snapshot: a row, or its event, that the mount lost is kept.
\* The previous generation is the one in place: only a lock holder replaces it.
Regressed(old, new) == old.version > 0 /\ (new.version = 0 \/ (old.paired /\ ~new.paired))
Candidate(rows) == rows
Merged(rows) ==
    IF cache = <<>> THEN rows
    ELSE [r \in Records |-> IF Regressed(cache.rows[r], rows[r]) THEN cache.rows[r]
                            ELSE rows[r]]

\* The second fingerprint: publish only what did not change meanwhile.
LastView(before, after) == TRUE
SameView(before, after) == before = after

BuildAfter(p) ==
    LET s == proc[p]
        after == View(hidden)
        rows == Merged(s.rows)
    IN
    /\ s.pc = "b_read" /\ s.todo = {}
    /\ \/ /\ SameView(s.view, after)
          /\ Becomes(p, [s EXCEPT !.view = after, !.rows = rows, !.pc = "b_publish",
                         !.warned = s.warned \/ rows # s.rows])
       \/ /\ ~SameView(s.view, after)
          /\ IF cache # <<>> THEN Returns(p, cache.rows, TRUE) ELSE Becomes(p, Idle)
    /\ UNCHANGED <<mount, cache, lock, retried, faults>>

\* write_atomic of header and rows.  The lock goes with the end of the call (in
\* a refresh, after the full-text index, which has no part in this module).
BuildPublish(p) ==
    LET s == proc[p] IN
    /\ s.pc = "b_publish"
    /\ cache' = [fingerprint |-> s.view, rows |-> s.rows, complete |-> ~s.warned]
    /\ Returns(p, s.rows, s.warned)
    /\ UNCHANGED <<mount, lock, retried, faults>>

LoadEnd(p) ==
    /\ proc[p].pc = "done"
    /\ Becomes(p, Idle)
    /\ UNCHANGED <<mount, cache, lock, retried, faults>>

-----------------------------------------------------------------------------
(* prune_unreferenced_index_locks.                                         *)

PruneOpen(p) ==
    /\ proc[p].pc = "u_open"
    /\ Becomes(p, IF path = 0 THEN Idle ELSE [proc[p] EXCEPT !.fd = path, !.pc = "u_try"])
    /\ UNCHANGED <<mount, cache, lock, retried, faults>>

PruneTry(p) ==
    LET s == proc[p] IN
    /\ s.pc = "u_try"
    /\ Becomes(p, IF Held(s.fd) THEN Idle ELSE [s EXCEPT !.locked = TRUE, !.pc = "u_verify"])
    /\ UNCHANGED <<mount, cache, lock, retried, faults>>

PruneVerify(p) ==
    LET s == proc[p] IN
    /\ s.pc = "u_verify"
    /\ Becomes(p, IF path = s.fd /\ cache = <<>> THEN [s EXCEPT !.pc = "u_unlink"]
                  ELSE Idle)
    /\ UNCHANGED <<mount, cache, lock, retried, faults>>

\* remove_file, while the lock on the removed file is held.
PruneUnlink(p) ==
    /\ proc[p].pc = "u_unlink"
    /\ path' = 0 /\ UNCHANGED inodes
    /\ Becomes(p, Idle)
    /\ UNCHANGED <<mount, cache, retried, faults>>

-----------------------------------------------------------------------------
(* The store and the mount.                                                *)

\* A write, a retag, or a copy of one that sync delivers: files of a record
\* need not arrive in the order in which they were written.
Arrive(r, k) ==
    /\ <<r, k>> \in FileName /\ files[r][k] < MaxVersion
    /\ files' = [files EXCEPT ![r][k] = @ + 1]
    /\ UNCHANGED <<hidden, cache, lock, retried, proc, faults>>

\* Without flicker a file comes or goes at most once while a rebuild reads.
OneWay(f, listed) ==
    MayFlicker \/ \A p \in Procs : proc[p].pc = "b_read" =>
                      (proc[p].view[f[1]][f[2]] > 0) = listed

\* The mount stops listing a file; nobody is owed a record it does not show.
Hide(f) ==
    /\ f \in FileName \ hidden /\ OneWay(f, TRUE)
    /\ hidden' = hidden \cup {f}
    /\ proc' = [p \in Procs |-> [proc[p] EXCEPT !.owed = @ \ {f[1]}]]
    /\ UNCHANGED <<files, cache, lock, retried, faults>>

Show(f) ==
    /\ f \in hidden /\ OneWay(f, FALSE)
    /\ hidden' = hidden \ {f}
    /\ UNCHANGED <<files, cache, lock, retried, proc, faults>>

RetryAges ==
    /\ retried /\ retried' = FALSE
    /\ UNCHANGED <<mount, cache, lock, proc, faults>>

\* A killed process: the kernel drops its lock.
Dies(p) ==
    /\ proc[p].pc # "idle" /\ faults < MaxFaults
    /\ faults' = faults + 1
    /\ Becomes(p, Idle)
    /\ UNCHANGED <<mount, cache, lock, retried>>

-----------------------------------------------------------------------------
Start(p) ==
    \/ LoadStart(p) \/ PruneStart(p)
    \/ \E kind \in {"check", "refresh"} : RefreshStart(p, kind)

Step(p) ==
    \/ LoadView(p) \/ LoadRead(p) \/ LoadEnd(p)
    \/ LockOpen(p) \/ LockTry(p) \/ LockVerify(p)
    \/ BuildStart(p) \/ BuildAfter(p) \/ BuildPublish(p)
    \/ \E r \in Records : BuildRead(p, r)
    \/ PruneOpen(p) \/ PruneTry(p) \/ PruneVerify(p) \/ PruneUnlink(p)

Environment ==
    \/ \E r \in Records, k \in {"note", "event"} : Arrive(r, k)
    \/ \E f \in FileName : Hide(f) \/ Show(f)
    \/ RetryAges
    \/ \E p \in Procs : Dies(p)

Next == Environment \/ \E p \in Procs : Start(p) \/ Step(p)

Spec == Init /\ [][Next]_vars

-----------------------------------------------------------------------------
(* Correctness.                                                            *)

\* The process has passed the check that its lock is on the file at the path.
Owns(s) == \/ s.pc \in Building \cup {"u_unlink"}
           \/ s.pc \in {"l_view", "l_read"} /\ s.locked

\* Nobody rebuilds while somebody else rebuilds or removes the lock file, even
\* though the file may be removed and created again between any two steps of an
\* acquisition (prune_unreferenced_index_locks: "would let a second process
\* create a new path and bypass the original lock").
LockIsExclusive == \A p, q \in Procs : Owns(proc[p]) /\ Owns(proc[q]) => p = q

\* The header vouches for the rows: a generation that says it is complete shows
\* exactly the files its fingerprint was taken of, whatever arrived, vanished
\* or failed to be read during the rebuild; so a reader that compares only
\* fingerprints may trust the rows.  Needs ~MayFlicker.
CompleteIsExact ==
    cache # <<>> /\ cache.complete => cache.rows = RowsOf(cache.fingerprint)

\* A read that comes with no warning shows every memory whose note was listed
\* from the moment the read began, whether it was served from the index,
\* waited for another rebuild or rebuilt itself.  Needs ~MayFlicker.
UnwarnedReadIsCurrent ==
    \A p \in Procs : proc[p].pc = "done" /\ ~proc[p].warned =>
        \A r \in proc[p].owed : proc[p].rows[r].version > 0

\* A partial view of the mount never removes a memory from the index, and never
\* takes away the event it was paired with, whoever rebuilds and whenever it
\* is killed ("Reject lost append-only canonical history").
NothingForgotten ==
    [][\A r \in Records : cache # <<>> /\ cache.rows[r].version > 0 =>
            /\ cache' # <<>> /\ cache'.rows[r].version > 0
            /\ cache.rows[r].paired => cache'.rows[r].paired]_vars

=============================================================================
