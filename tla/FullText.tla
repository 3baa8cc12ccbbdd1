------------------------------ MODULE FullText ------------------------------
(***************************************************************************)
(* The full-text index of one store: a Tantivy directory and a manifest    *)
(* that names the corpus its documents are from.  Interactive searches     *)
(* open, clear and rebuild it, refreshes rebuild it, prompt hooks only     *)
(* read it; a rebuild needs the lock of the local index, opening does not. *)
(*                                                                         *)
(* A corpus is what a fingerprint tells apart: one version of the records, *)
(* or the part of it that "hm search --since" is about.  What a query      *)
(* finds in a corpus is left to the module Search.                         *)
(***************************************************************************)
EXTENDS Naturals

CONSTANTS
    Procs,          \* hm processes
    None,           \* no corpus, no index, nobody
    Empty,          \* an index without documents
    Old,            \* a manifest of another schema version
    MaxVersion,     \* bound: changes of the records
    MaxFaults       \* bound: processes that die, commits that fail

View   == {"all", "since"}
Corpus == [version : 0..MaxVersion, view : View]

ASSUME FullTextAssumption ==
    /\ MaxVersion \in Nat /\ MaxFaults \in Nat
    /\ {None, Empty, Old} \cap (Corpus \cup Procs) = {}
    /\ None # Empty /\ None # Old /\ Empty # Old

VARIABLES
    current,    \* version of the records
    dir,        \* the index directory
    lock,       \* who holds the rebuild lock, with None for nobody
    proc,       \* the running processes
    cleared,    \* somebody removed the directory, to start anew
    faults      \* processes that died, commits that failed

vars == <<current, dir, lock, proc, cleared, faults>>

-----------------------------------------------------------------------------
\* docs: the last commit, None when the directory holds no index.
Directory == [made : BOOLEAN, docs : Corpus \cup {None, Empty},
              manifest : Corpus \cup {None, Old}]

Absent == [made |-> FALSE, docs |-> None, manifest |-> None]
Bare   == [Absent EXCEPT !.made = TRUE]
Built(c) == [made |-> TRUE, docs |-> c, manifest |-> c]
First  == [version |-> 0, view |-> "all"]

\* A populated directory without a manifest is not trusted either.
Incompatible(d) == d.manifest = Old \/ (d.manifest = None /\ d.docs # None)
Usable(d) == d.manifest \notin {None, Old}

\* Mutant: the fingerprint forgets which records were selected.
SameVersion(d, want) == Usable(d) /\ d.manifest.version = want.version
IsFresh(d, want) == d.manifest = want

Control == {"idle", "open", "clear", "create", "check", "commit", "manifest",
            "query", "done"}
Role == {"none", "search", "refresh", "hook"}

\* want: the corpus of the entries it was given.  got: what its query saw,
\* with None for a lexical answer.
Process == [pc : Control, role : Role, want : Corpus,
            got : Corpus \cup {None, Empty}]

Idle == [pc |-> "idle", role |-> "none", want |-> First, got |-> None]

TypeOK ==
    /\ current \in 0..MaxVersion
    /\ dir \in Directory
    /\ lock \in Procs \cup {None}
    /\ proc \in [Procs -> Process]
    /\ cleared \in BOOLEAN
    /\ faults \in 0..MaxFaults

Init ==
    /\ current = 0
    /\ dir \in {Absent, Built(First), [Built(First) EXCEPT !.manifest = Old]}
    /\ lock = None
    /\ proc = [p \in Procs |-> Idle]
    /\ cleared = FALSE
    /\ faults = 0

Becomes(p, s) == proc' = [proc EXCEPT ![p] = s]
Goto(p, pc) == Becomes(p, [proc[p] EXCEPT !.pc = pc])
Unlock(p) == lock' = IF lock = p THEN None ELSE lock

\* A search that cannot use the index answers from the lexical scan, a refresh
\* warns: run_search_backend and refresh_tantivy_index.
Degrades(p) ==
    /\ Becomes(p, IF proc[p].role = "refresh" THEN Idle
                  ELSE [proc[p] EXCEPT !.pc = "done", !.got = None])
    /\ Unlock(p)

-----------------------------------------------------------------------------
(* Commands.                                                               *)

Starts(p, role, want, pc) ==
    /\ proc[p].pc = "idle"
    /\ Becomes(p, [Idle EXCEPT !.pc = pc, !.role = role, !.want = want])

SearchStart(p, view) ==
    /\ Starts(p, "search", [version |-> current, view |-> view], "open")
    /\ UNCHANGED <<current, dir, lock, cleared, faults>>

\* refresh_indexes reads the records under the lock.
RefreshStart(p) ==
    /\ lock = None
    /\ Starts(p, "refresh", [version |-> current, view |-> "all"], "open")
    /\ lock' = p
    /\ UNCHANGED <<current, dir, cleared, faults>>

\* The hook queries a fresh index or none.
HookStart(p) ==
    /\ Usable(dir) /\ dir.docs # None
    /\ IsFresh(dir, [version |-> current, view |-> "all"])
    /\ Starts(p, "hook", [version |-> current, view |-> "all"], "query")
    /\ UNCHANGED <<current, dir, lock, cleared, faults>>

-----------------------------------------------------------------------------
(* Opening, which takes no lock.                                           *)

Open(p) ==
    /\ proc[p].pc = "open"
    /\ dir' = [dir EXCEPT !.made = TRUE]
    /\ Goto(p, IF Incompatible(dir) THEN "clear" ELSE "create")
    /\ UNCHANGED <<current, lock, cleared, faults>>

\* remove_dir_all, then create_dir_all; Open saw the directory, and it is gone
\* when another process has just removed it.
Clear(p) ==
    /\ proc[p].pc = "clear"
    /\ IF dir.made
         THEN dir' = Absent /\ cleared' = TRUE /\ Goto(p, "create") /\ UNCHANGED lock
         ELSE Degrades(p) /\ UNCHANGED <<dir, cleared>>
    /\ UNCHANGED <<current, faults>>

\* create_dir_all after a clear, and Index::open_or_create.
Create(p) ==
    /\ proc[p].pc = "create"
    /\ dir' = IF dir.docs = None THEN [dir EXCEPT !.made = TRUE, !.docs = Empty]
              ELSE dir
    /\ Goto(p, "check")
    /\ UNCHANGED <<current, lock, cleared, faults>>

\* Mutant: a stale index is rebuilt whoever holds the lock.
CheckUnlocked(p) ==
    /\ proc[p].pc = "check"
    /\ Goto(p, IF IsFresh(dir, proc[p].want) THEN "query" ELSE "commit")
    /\ UNCHANGED <<current, dir, lock, cleared, faults>>

\* A stale index is rebuilt under the lock; when that is held, a search does
\* without the index.
Check(p) ==
    LET s == proc[p] IN
    /\ s.pc = "check"
    /\ IF IsFresh(dir, s.want)
         THEN IF s.role = "refresh" THEN Becomes(p, Idle) /\ Unlock(p)
              ELSE Goto(p, "query") /\ UNCHANGED lock
       ELSE IF lock \in {None, p} THEN Goto(p, "commit") /\ lock' = p
       ELSE Degrades(p)
    /\ UNCHANGED <<current, dir, cleared, faults>>

-----------------------------------------------------------------------------
(* Rebuilding and querying.                                                *)

\* delete_all_documents, the additions and one commit.
Commit(p) ==
    /\ proc[p].pc = "commit"
    /\ IF dir.made
         THEN dir' = [dir EXCEPT !.docs = proc[p].want] /\ Goto(p, "manifest")
              /\ UNCHANGED lock
         ELSE Degrades(p) /\ UNCHANGED dir
    /\ UNCHANGED <<current, cleared, faults>>

CommitFails(p) ==
    /\ proc[p].pc = "commit" /\ faults < MaxFaults
    /\ faults' = faults + 1
    /\ Degrades(p)
    /\ UNCHANGED <<current, dir, cleared>>

\* The lock goes when the manifest is written, before the query.
WriteManifest(p) ==
    /\ proc[p].pc = "manifest"
    /\ IF dir.made
         THEN /\ dir' = [dir EXCEPT !.manifest = proc[p].want]
              /\ IF proc[p].role = "refresh" THEN Becomes(p, Idle) ELSE Goto(p, "query")
              /\ Unlock(p)
         ELSE Degrades(p) /\ UNCHANGED dir
    /\ UNCHANGED <<current, cleared, faults>>

\* The reader is opened at query time.
Query(p) ==
    /\ proc[p].pc = "query"
    /\ IF dir.docs = None THEN Degrades(p)
       ELSE /\ Becomes(p, [proc[p] EXCEPT !.pc = "done", !.got = dir.docs])
            /\ UNCHANGED lock
    /\ UNCHANGED <<current, dir, cleared, faults>>

Finish(p) ==
    /\ proc[p].pc = "done"
    /\ Becomes(p, Idle)
    /\ UNCHANGED <<current, dir, lock, cleared, faults>>

-----------------------------------------------------------------------------
(* The rest of the world.                                                  *)

RecordsChange ==
    /\ current < MaxVersion
    /\ current' = current + 1
    /\ UNCHANGED <<dir, lock, proc, cleared, faults>>

\* The operating system drops the lock of a dead process.
Crash(p) ==
    /\ proc[p].pc # "idle" /\ faults < MaxFaults
    /\ faults' = faults + 1
    /\ Becomes(p, Idle) /\ Unlock(p)
    /\ UNCHANGED <<current, dir, cleared>>

Step(p) == \/ Open(p) \/ Clear(p) \/ Create(p) \/ Check(p) \/ Commit(p)
           \/ WriteManifest(p) \/ Query(p) \/ Finish(p)

Next ==
    \/ \E p \in Procs : \/ \E view \in View : SearchStart(p, view)
                        \/ RefreshStart(p) \/ HookStart(p)
                        \/ Step(p) \/ CommitFails(p) \/ Crash(p)
    \/ RecordsChange

Spec == Init /\ [][Next]_vars

\* Started processes run on, and refreshes come again and again.
Fairness ==
    /\ \A p \in Procs : WF_vars(Step(p))
    /\ SF_vars(\E p \in Procs : RefreshStart(p))

FairSpec == Spec /\ Fairness

-----------------------------------------------------------------------------
(* Properties.                                                             *)

Publishing(p) == proc[p].pc = "manifest"

\* While nobody dies and nothing makes a process start the directory anew, the
\* manifest names the corpus that the documents are from, whoever searches,
\* refreshes and opens without the lock: only a rebuild between its commit and
\* its manifest may say otherwise (is_fresh: "the cache already reflects the
\* current corpus").
Undisturbed == faults = 0 /\ ~cleared
SettledIsExact ==
    /\ Undisturbed
    /\ Usable(dir)
    /\ \A p \in Procs : ~Publishing(p)
    => dir.docs = dir.manifest

\* Searches of a part of the records rebuild the index for that part, and the
\* records change; but again and again the index holds them all, so that hooks
\* can use it (refresh_tantivy_index).
HoldsAll == /\ dir.docs = dir.manifest
            /\ dir.docs = [version |-> current, view |-> "all"]
AllAgain == []Undisturbed => []<>HoldsAll

\* What a search is shown is from the corpus that it found fresh ("Never serve
\* the populated-but-stale index", tantivy_search).
ServedIsFresh ==
    \A p \in Procs : proc[p].pc = "done" /\ proc[p].got # None
                     => proc[p].got = proc[p].want

=============================================================================
