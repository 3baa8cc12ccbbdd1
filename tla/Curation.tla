------------------------------ MODULE Curation ------------------------------
(***************************************************************************)
(* Promotion of raw inbox notes into curated files (curation.rs), by       *)
(* several processes of one host, beside editors and cloud clients that    *)
(* save the same files without a lock; and which curated files search and  *)
(* context read at all (curated.rs).                                       *)
(*                                                                         *)
(* A curated file is the notes that its promotion markers name, in order,  *)
(* and a set of lines that somebody else wrote.  Its hash stands for its   *)
(* contents.  A target is a path: an area of the store, the project it     *)
(* belongs to, its depth below the area and whether it is Markdown.        *)
(***************************************************************************)
EXTENDS SequencesExt, FiniteSets, Naturals

CONSTANTS
    None,           \* no project, no lock holder
    Notes,          \* raw inbox notes
    Targets,        \* paths that promotions are asked to write
    Promoters,      \* "hm promote" processes
    Lines,          \* lines that are written by hand
    SafeIds,        \* ids that are safe as a directory name
    MaxDepth,       \* MAX_CURATED_DEPTH: 16 directories below an area
    MaxSize,        \* MAX_CURATED_FILE_BYTES, in lines and entries
    MaxEvents       \* bound: promotion events of a note for a target

ASSUME CurationAssumption ==
    /\ {MaxDepth, MaxSize, MaxEvents} \subseteq Nat
    /\ None \notin Promoters

VARIABLES
    raw,        \* the raw notes that the store holds
    files,      \* contents of the curated files
    events,     \* number of promotion events of a note for a target
    lock,       \* holder of the lock file of a target
    proc,       \* the promoters
    saved       \* history: the lines written by hand, each with its target and
                \* whether it came between a promotion's comparison and rename
vars == <<raw, files, events, lock, proc, saved>>

-----------------------------------------------------------------------------
Empty == [marks |-> <<>>, lines |-> {}]
Size(f) == Len(f.marks) + Cardinality(f.lines)
Marked(f, n) == n \in ToSet(f.marks)

Idle == [at |-> "idle"]

Init ==
    /\ raw = {}
    /\ files = [t \in Targets |-> Empty]
    /\ events = [n \in Notes |-> [t \in Targets |-> 0]]
    /\ lock = [t \in Targets |-> None]
    /\ proc = [p \in Promoters |-> Idle]
    /\ saved = {}

-----------------------------------------------------------------------------
(* Which files count.                                                      *)

\* Mutant: any Markdown file of the store.
AnyMarkdown(t) == t.markdown

\* validate_target.
ValidTarget(t) ==
    /\ t.markdown
    /\ \/ t.area \in {"rules", "people", "global"}
       \/ t.area = "projects" /\ t.project \in SafeIds

\* collect_all: the areas that are walked, and the files that are read there.
Collected(t) ==
    /\ \/ t.area \in {"rules", "people", "global"}
       \/ t.area = "projects" /\ t.project \in SafeIds
    /\ t.depth <= MaxDepth
    /\ t.markdown
    /\ Size(files[t]) <= MaxSize

-----------------------------------------------------------------------------
(* promote.                                                                *)

Ends(p, result) ==
    proc' = [proc EXCEPT ![p] = [at |-> result, note |-> proc[p].note, target |-> proc[p].target]]
Goes(p, to, before) ==
    proc' = [proc EXCEPT ![p] = [at |-> to, note |-> proc[p].note, target |-> proc[p].target,
                                 before |-> before]]
Unlocks(p) == lock' = [lock EXCEPT ![proc[p].target] = None]

\* The target is validated, the events are scanned and the note is read, all of
\* it without the lock.
Begin(p, n, t) ==
    /\ proc[p].at \in {"idle", "done", "failed"}
    /\ proc' = [proc EXCEPT ![p] =
                   [note |-> n, target |-> t,
                    at |-> IF ~ValidTarget(t) THEN "failed"
                           ELSE IF events[n][t] > 0 THEN "done"
                           ELSE IF n \notin raw THEN "failed"
                           ELSE "lock"]]
    /\ UNCHANGED <<raw, files, events, lock, saved>>

Lock(p) ==
    /\ proc[p].at = "lock"
    /\ lock[proc[p].target] = None
    /\ lock' = [lock EXCEPT ![proc[p].target] = p]
    /\ Goes(p, "read", Empty)
    /\ UNCHANGED <<raw, files, events, saved>>

\* Mutants: the file is not asked for the marker; a marked file needs nothing.
ReadUnmarked(p) ==
    /\ proc[p].at = "read"
    /\ Goes(p, "compare", files[proc[p].target])
    /\ UNCHANGED <<raw, files, events, lock, saved>>
ReadWithoutRepair(p) ==
    /\ proc[p].at = "read"
    /\ LET before == files[proc[p].target] IN
       IF Marked(before, proc[p].note) THEN Ends(p, "done") /\ Unlocks(p)
       ELSE Goes(p, "compare", before) /\ UNCHANGED lock
    /\ UNCHANGED <<raw, files, events, saved>>

\* A file that has the marker was written by a promotion that did not come to
\* its event: the event is all that is missing.
Read(p) ==
    /\ proc[p].at = "read"
    /\ LET before == files[proc[p].target] IN
       Goes(p, IF Marked(before, proc[p].note) THEN "event" ELSE "compare", before)
    /\ UNCHANGED <<raw, files, events, lock, saved>>

\* Mutant: the file is not read again.
CompareNothing(p) ==
    /\ proc[p].at = "compare"
    /\ Goes(p, "replace", proc[p].before)
    /\ UNCHANGED <<raw, files, events, lock, saved>>

Compare(p) ==
    /\ proc[p].at = "compare"
    /\ IF files[proc[p].target] = proc[p].before
         THEN Goes(p, "replace", proc[p].before) /\ UNCHANGED lock
         ELSE Ends(p, "failed") /\ Unlocks(p)
    /\ UNCHANGED <<raw, files, events, saved>>

\* write_atomic: what was read, with the entry behind it.
Replace(p) ==
    /\ proc[p].at = "replace"
    /\ files' = [files EXCEPT ![proc[p].target] =
                    [proc[p].before EXCEPT !.marks = Append(@, proc[p].note)]]
    /\ Goes(p, "event", proc[p].before)
    /\ UNCHANGED <<raw, events, lock, saved>>

\* write_promotion_event.
Event(p) ==
    /\ proc[p].at = "event"
    /\ events[proc[p].note][proc[p].target] < MaxEvents
    /\ events' = [events EXCEPT ![proc[p].note][proc[p].target] = @ + 1]
    /\ Ends(p, "done") /\ Unlocks(p)
    /\ UNCHANGED <<raw, files, saved>>

\* A file operation fails: the error ends the command, and the lock with it.
Fail(p) ==
    /\ proc[p].at \in {"read", "compare", "replace", "event"}
    /\ Ends(p, "failed") /\ Unlocks(p)
    /\ UNCHANGED <<raw, files, events, saved>>

\* The process dies; its lock goes with it.
Crash(p) ==
    /\ proc[p].at \notin {"idle", "done", "failed"}
    /\ proc' = [proc EXCEPT ![p] = Idle]
    /\ lock' = [t \in Targets |-> IF lock[t] = p THEN None ELSE lock[t]]
    /\ UNCHANGED <<raw, files, events, saved>>

-----------------------------------------------------------------------------
(* Everybody else.                                                         *)

\* "hm note", here or on a host whose note arrives.
Write(n) ==
    /\ n \notin raw
    /\ raw' = raw \cup {n}
    /\ UNCHANGED <<files, events, lock, proc, saved>>

\* A person or a cloud client saves a file with one more line.
Edit(t, l) ==
    /\ \A s \in saved : s.line # l
    /\ files' = [files EXCEPT ![t].lines = @ \cup {l}]
    /\ saved' = saved \cup {[target |-> t, line |-> l,
                             late |-> \E p \in Promoters :
                                          proc[p].at = "replace" /\ proc[p].target = t]}
    /\ UNCHANGED <<raw, events, lock, proc>>

\* A person takes a promoted entry out again, marker and all.
TakeOut(t, i) ==
    /\ files' = [files EXCEPT ![t].marks = RemoveAt(@, i)]
    /\ UNCHANGED <<raw, events, lock, proc, saved>>

Next ==
    \/ \E p \in Promoters : \/ \E n \in Notes, t \in Targets : Begin(p, n, t)
                            \/ Lock(p) \/ Read(p) \/ Compare(p) \/ Replace(p)
                            \/ Event(p) \/ Fail(p) \/ Crash(p)
    \/ \E n \in Notes : Write(n)
    \/ \E t \in Targets : \/ \E l \in Lines : Edit(t, l)
                          \/ \E i \in DOMAIN files[t].marks : TakeOut(t, i)

Spec == Init /\ [][Next]_vars

-----------------------------------------------------------------------------
(* Properties.                                                             *)

Contents == [marks : Seq(Notes), lines : SUBSET Lines]
Asked == [at : {"lock", "done", "failed"}, note : Notes, target : Targets]
Working == [at : {"read", "compare", "replace", "event"}, note : Notes,
            target : Targets, before : Contents]
TypeOK ==
    /\ raw \subseteq Notes
    /\ files \in [Targets -> Contents]
    /\ events \in [Notes -> [Targets -> 0..MaxEvents]]
    /\ lock \in [Targets -> Promoters \cup {None}]
    /\ proc \in [Promoters -> {Idle} \cup Asked \cup Working]
    /\ saved \subseteq [target : Targets, line : Lines, late : BOOLEAN]

\* A note is promoted into a file at most once, whoever tries again after
\* whatever crash ("make retries idempotent for the same source-note/target-file
\* pair", promote).
AtMostOnce ==
    \A t \in Targets : \A i, j \in DOMAIN files[t].marks :
        files[t].marks[i] = files[t].marks[j] => i = j

\* A promotion that reports success has its event, so that the inbox no longer
\* lists the note: a crash between the file and the event is repaired and never
\* leaves "inbox state permanently pending" (promote).
SuccessIsRecorded ==
    \A p \in Promoters :
        proc[p].at = "done" => events[proc[p].note][proc[p].target] > 0

\* What somebody else saves in a file is not lost by a promotion, unless it
\* comes between the promotion's comparison and its rename ("aborts if hash
\* changes mid-operation", SPEC.md); and what another promotion has appended is
\* in what a promotion is about to write.
NothingIsLost ==
    /\ \A s \in saved : s.late \/ s.line \in files[s.target].lines
    /\ \A p \in Promoters :
          proc[p].at = "replace" =>
              ToSet(files[proc[p].target].marks) \subseteq ToSet(proc[p].before.marks)

\* A file that promotion writes is one that search and context read
\* ("Promotion targets must land where the curated collector actually looks",
\* validate_target).
PromotionsAreRead ==
    \A t \in Targets : files[t].marks # <<>> => Collected(t)

\* One promotion event for a note and a target, however often it is promoted
\* (SPEC.md, "hm promote").
OneEvent == \A n \in Notes, t \in Targets : events[n][t] <= 1
=============================================================================
