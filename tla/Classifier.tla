----------------------------- MODULE Classifier -----------------------------
(***************************************************************************)
(* The background classifier of one store.  A worker takes the index as it *)
(* is, takes the per-store lock, asks its backends in turn for a kind of   *)
(* each record still owed a review, and writes every verdict through the   *)
(* rewrite that also serves `hm retag`: first the note, then its event.    *)
(*                                                                         *)
(* Of a record only its classification matters: the kind, and who gave it. *)
(* The text of a verdict, its confidence and the kinds that do not fit a   *)
(* record leave one choice: a new kind, or the present one marked as seen. *)
(* Reading the index for a run is one step.  Dry runs, a classifier that   *)
(* is switched off, and the stores and records that no worker may see      *)
(* (secret, agent-private) are left out.                                   *)
(***************************************************************************)
EXTENDS Naturals, Sequences, FiniteSets

CONSTANTS
    Records,        \* record ids
    Age,            \* record -> its place in the order of created_at
    Paired,         \* records that have an event sidecar
    Kinds,          \* memory kinds
    None,           \* no kind, no record
    Workers,        \* processes that run `hm classify`
    People,         \* processes that run `hm retag`
    Backends,       \* the candidate backends, in failover order
    Dead,           \* backends that answer nothing
    Poisoned,       \* records no backend can judge
    Limit,          \* batch limit
    MayOverlap,     \* two rewrites of one record may overlap
    MaxRetags,      \* bound: retags
    MaxErrors,      \* bound: calls that fail for no lasting reason
    MaxCrashes      \* bound: processes that die, rewrites that fail

Procs == Workers \cup People

ASSUME ClassifierAssumption ==
    /\ Age \in [Records -> Nat]
    /\ \A q, r \in Records : Age[q] = Age[r] => q = r
    /\ Paired \subseteq Records /\ Poisoned \subseteq Records
    /\ None \notin Kinds \cup Records
    /\ Workers \cap People = {}
    /\ MayOverlap \in BOOLEAN
    /\ {Limit, MaxRetags, MaxErrors, MaxCrashes} \subseteq Nat

VARIABLES
    note,       \* record -> the classification in its note
    event,      \* record -> the one in its event
    lock,       \* classifier.lock: absent, fresh, or too old to be honoured
    stamped,    \* last-run.json is younger than the interval between runs
    proc,       \* the running processes
    retags, errors, crashes

store == <<note, event>>
vars  == <<note, event, lock, stamped, proc, retags, errors, crashes>>

-----------------------------------------------------------------------------
\* MAX_ENTRY_ATTEMPTS, and the failures in a row that a backend may have.
MaxAttempts == 2
MaxFailures == 3

\* "old" is a verdict of an earlier prompt version.
Class == [kind : Kinds \cup {None}, by : {"none", "old", "llm", "manual"}]
Unclassified == [kind |-> None, by |-> "none"]

\* A retag that sets the classification, or one of the scope only.
Keep   == [kind |-> None, by |-> "keep"]
Change == Class \cup {Keep}
Applied(class, change) == IF change = Keep THEN class ELSE change

Manual == {[kind |-> k, by |-> "manual"] : k \in Kinds}
PersonalChange == Manual \cup {Unclassified, Keep}

\* IndexEntry: each field of the event, or else the note's.
View(r) ==
    IF r \notin Paired THEN note[r] ELSE
    [kind |-> IF event[r].kind # None THEN event[r].kind ELSE note[r].kind,
     by   |-> IF event[r].by # "none" THEN event[r].by ELSE note[r].by]

Owed(class) == class.by \in {"none", "old"}

\* pending_entries, oldest first and cut to the batch limit.
Batch(entries) ==
    LET owed == {r \in Records : Owed(entries[r])}
    IN  {r \in owed : Cardinality({q \in owed : Age[q] < Age[r]}) < Limit}

\* Every verdict is written with a kind: the judged one or the present one.
Verdict(class) == {[kind |-> k, by |-> "llm"] : k \in Kinds \cup {class.kind}}

NoEntries == [r \in Records |-> Unclassified]

Process == [
    pc : {"idle", "index", "stamp", "create", "stale", "remove", "begin", "ask",
          "check", "read", "note", "look", "event", "report", "unlock"},
    auto     : BOOLEAN,                 \* started by a hook
    entries  : [Records -> Class],      \* the index this run works from
    batch    : SUBSET Records,          \* what is left of the batch
    target   : Records \cup {None},     \* the record being judged or rewritten
    backend  : Nat,                     \* position in Backends
    attempts : Nat,                     \* failures of this record
    failures : Nat,                     \* failures in a row
    change   : Change,                  \* what the rewrite sets
    base     : Class]                   \* the file as the rewrite read it

Idle == [pc |-> "idle", auto |-> FALSE, entries |-> NoEntries, batch |-> {},
         target |-> None, backend |-> 1, attempts |-> 0, failures |-> 0,
         change |-> Keep, base |-> Unclassified]

Init ==
    /\ note \in [Records -> [kind : Kinds \cup {None}, by : {"none", "old"}]]
    /\ event = note
    /\ lock = "absent" /\ stamped = FALSE
    /\ proc = [p \in Procs |-> Idle]
    /\ retags = 0 /\ errors = 0 /\ crashes = 0

Becomes(p, s) == proc' = [proc EXCEPT ![p] = s]
Goes(p, pc)   == Becomes(p, [proc[p] EXCEPT !.pc = pc])
Target(p)     == proc[p].target

-----------------------------------------------------------------------------
(* A run starts.                                                           *)

\* hm hook stop: should_spawn looks for the files, not for their age.
HookStop(p) ==
    /\ proc[p].pc = "idle" /\ lock = "absent" /\ ~stamped
    /\ Becomes(p, [Idle EXCEPT !.pc = "index", !.auto = TRUE])
    /\ UNCHANGED <<store, lock, stamped, retags, errors, crashes>>

\* A person runs `hm classify`.
Classify(p) ==
    /\ proc[p].pc = "idle"
    /\ Becomes(p, [Idle EXCEPT !.pc = "index"])
    /\ UNCHANGED <<store, lock, stamped, retags, errors, crashes>>

\* The index is brought up to date before the run looks at stamp and lock.
ReadIndex(p) ==
    /\ proc[p].pc = "index"
    /\ Becomes(p, [proc[p] EXCEPT !.entries = [r \in Records |-> View(r)],
                                  !.pc = "stamp"])
    /\ UNCHANGED <<store, lock, stamped, retags, errors, crashes>>

CheckStamp(p) ==
    /\ proc[p].pc = "stamp"
    /\ IF proc[p].auto /\ stamped THEN Becomes(p, Idle) ELSE Goes(p, "create")
    /\ UNCHANGED <<store, lock, stamped, retags, errors, crashes>>

CreateLock(p) ==
    /\ proc[p].pc = "create"
    /\ \/ lock = "absent" /\ lock' = "fresh" /\ Goes(p, "begin")
       \/ lock # "absent" /\ UNCHANGED lock /\ Goes(p, "stale")
    /\ UNCHANGED <<store, stamped, retags, errors, crashes>>

\* lock_is_stale takes a file that is gone by now for a stale one.
CheckStale(p) ==
    /\ proc[p].pc = "stale"
    /\ IF lock = "fresh" THEN Becomes(p, Idle) ELSE Goes(p, "remove")
    /\ UNCHANGED <<store, lock, stamped, retags, errors, crashes>>

RemoveLock(p) ==
    /\ proc[p].pc = "remove"
    /\ lock' = "absent"
    /\ Goes(p, "create")
    /\ UNCHANGED <<store, stamped, retags, errors, crashes>>

\* The backends were looked up when the run started: there may be none.
Begin(p) ==
    /\ proc[p].pc = "begin"
    /\ \/ /\ Becomes(p, [proc[p] EXCEPT !.batch = Batch(proc[p].entries), !.pc = "ask"])
          /\ UNCHANGED errors
       \/ /\ errors < MaxErrors /\ errors' = errors + 1
          /\ Goes(p, "report")
    /\ UNCHANGED <<store, lock, stamped, retags, crashes>>

-----------------------------------------------------------------------------
(* The batch: each round touches the lock and makes one call.              *)

NextRecord(s) == [s EXCEPT !.batch = @ \ {s.target}, !.target = None,
                           !.attempts = 0, !.pc = "ask",
                           !.change = Keep, !.base = Unclassified]

\* Worker p is to ask about r.
Asks(p, r) ==
    /\ proc[p].pc = "ask" /\ r \in proc[p].batch
    /\ \A q \in proc[p].batch : Age[r] <= Age[q]

\* A call exits in time and with a verdict that can be parsed.
Answers(b, r) == b \notin Dead /\ r \notin Poisoned

EndBatch(p) ==
    /\ proc[p].pc = "ask" /\ proc[p].batch = {}
    /\ Goes(p, "report")
    /\ UNCHANGED <<store, lock, stamped, retags, errors, crashes>>

Judged(p, r) ==
    /\ Asks(p, r) /\ Answers(Backends[proc[p].backend], r)
    /\ lock' = "fresh"
    /\ \E v \in Verdict(proc[p].entries[r]) :
         Becomes(p, [proc[p] EXCEPT !.failures = 0, !.target = r, !.change = v,
                                    !.pc = "check"])
    /\ UNCHANGED <<store, stamped, retags, errors, crashes>>

\* A call failed: leave the record after two attempts, and the backend after
\* three failures in a row, which are counted across records.
NeverSkips(s, r) == [s EXCEPT !.attempts = @ + 1]
SkipsRecord(s, r) ==
    IF s.attempts + 1 >= MaxAttempts
    THEN [s EXCEPT !.batch = @ \ {r}, !.attempts = 0]
    ELSE [s EXCEPT !.attempts = @ + 1]

Rotates(s) ==
    IF s.failures + 1 < MaxFailures
    THEN [s EXCEPT !.failures = @ + 1]
    ELSE IF s.backend = Len(Backends)
         THEN [s EXCEPT !.failures = 0, !.pc = "report"]    \* Aborted
         ELSE [s EXCEPT !.failures = 0, !.backend = @ + 1]

AfterFailure(s, r) == Rotates(SkipsRecord(s, r))

CallFails(p, r) ==
    /\ Asks(p, r)
    /\ \/ ~Answers(Backends[proc[p].backend], r) /\ UNCHANGED errors
       \/ errors < MaxErrors /\ errors' = errors + 1
    /\ lock' = "fresh"
    /\ Becomes(p, AfterFailure(proc[p], r))
    /\ UNCHANGED <<store, stamped, retags, crashes>>

-----------------------------------------------------------------------------
(* Rewriting a record: apply_update and retag_record.                      *)

Rewriting(p, r) == /\ proc[p].pc \in {"read", "note", "look", "event"}
                   /\ Target(p) = r

MayRewrite(p, r) == MayOverlap \/ \A q \in Procs \ {p} : ~Rewriting(q, r)

\* A verdict is dropped when the note is no longer what was judged.
SameKind(r, entry) == note[r].kind = entry.kind
NotManual(r, entry) == note[r].by # "manual"
StillJudged(r, entry) == note[r] = entry

CheckNote(p) ==
    LET r == Target(p) IN
    /\ proc[p].pc = "check"
    /\ IF StillJudged(r, proc[p].entries[r])
       THEN MayRewrite(p, r) /\ Goes(p, "read")
       ELSE Becomes(p, NextRecord(proc[p]))
    /\ UNCHANGED <<store, lock, stamped, retags, errors, crashes>>

\* hm retag: a kind by hand, its removal, or a new scope.
Retag(p, r) ==
    /\ proc[p].pc = "idle" /\ retags < MaxRetags /\ MayRewrite(p, r)
    /\ retags' = retags + 1
    /\ \E c \in PersonalChange :
         Becomes(p, [Idle EXCEPT !.target = r, !.change = c, !.pc = "read"])
    /\ UNCHANGED <<store, lock, stamped, errors, crashes>>

ReadNote(p) ==
    /\ proc[p].pc = "read"
    /\ Becomes(p, [proc[p] EXCEPT !.base = note[Target(p)], !.pc = "note"])
    /\ UNCHANGED <<store, lock, stamped, retags, errors, crashes>>

Rewritten(p) ==
    IF p \in People THEN Becomes(p, Idle) ELSE Becomes(p, NextRecord(proc[p]))

WriteNote(p) ==
    LET s == proc[p] IN
    /\ s.pc = "note"
    /\ note' = [note EXCEPT ![Target(p)] = Applied(s.base, s.change)]
    /\ IF Target(p) \in Paired THEN Goes(p, "look") ELSE Rewritten(p)
    /\ UNCHANGED <<event, lock, stamped, retags, errors, crashes>>

ReadEvent(p) ==
    /\ proc[p].pc = "look"
    /\ Becomes(p, [proc[p] EXCEPT !.base = event[Target(p)], !.pc = "event"])
    /\ UNCHANGED <<store, lock, stamped, retags, errors, crashes>>

WriteEventKind(p) ==
    LET s == proc[p] IN
    /\ s.pc = "event"
    /\ event' = [event EXCEPT ![Target(p)].kind = Applied(s.base, s.change).kind]
    /\ Rewritten(p)
    /\ UNCHANGED <<note, lock, stamped, retags, errors, crashes>>
WriteEvent(p) ==
    LET s == proc[p] IN
    /\ s.pc = "event"
    /\ event' = [event EXCEPT ![Target(p)] = Applied(s.base, s.change)]
    /\ Rewritten(p)
    /\ UNCHANGED <<note, lock, stamped, retags, errors, crashes>>

\* A read or write of a rewrite fails: the worker goes on to the next record.
RewriteFails(p) ==
    /\ proc[p].pc \in {"read", "note", "look", "event"}
    /\ crashes < MaxCrashes /\ crashes' = crashes + 1
    /\ Rewritten(p)
    /\ UNCHANGED <<store, lock, stamped, retags, errors>>

-----------------------------------------------------------------------------
(* A run ends, or dies; time passes.                                       *)

WriteStamp(p) ==
    /\ proc[p].pc = "report"
    /\ stamped' = TRUE
    /\ Goes(p, "unlock")
    /\ UNCHANGED <<store, lock, retags, errors, crashes>>

\* Drop removes whatever is at the path.
Unlock(p) ==
    /\ proc[p].pc = "unlock"
    /\ lock' = "absent"
    /\ Becomes(p, Idle)
    /\ UNCHANGED <<store, stamped, retags, errors, crashes>>

Crash(p) ==
    /\ proc[p].pc # "idle"
    /\ crashes < MaxCrashes /\ crashes' = crashes + 1
    /\ Becomes(p, Idle)
    /\ UNCHANGED <<store, lock, stamped, retags, errors>>

Holds(p) == p \in Workers /\
    proc[p].pc \in {"begin", "ask", "check", "read", "note", "look", "event",
                    "report", "unlock"}

\* An hour passes; a worker that lives touches its lock more often than that.
LockAges ==
    /\ lock = "fresh" /\ \A p \in Workers : ~Holds(p)
    /\ lock' = "stale"
    /\ UNCHANGED <<store, stamped, proc, retags, errors, crashes>>

StampAges ==
    /\ stamped /\ stamped' = FALSE
    /\ UNCHANGED <<store, lock, proc, retags, errors, crashes>>

Step(p) ==
    \/ ReadIndex(p) \/ CheckStamp(p) \/ CreateLock(p) \/ CheckStale(p)
    \/ RemoveLock(p) \/ Begin(p) \/ EndBatch(p)
    \/ \E r \in Records : Judged(p, r) \/ CallFails(p, r)
    \/ CheckNote(p) \/ ReadNote(p) \/ WriteNote(p) \/ ReadEvent(p)
    \/ WriteEvent(p) \/ WriteStamp(p) \/ Unlock(p)

Next ==
    \/ \E p \in Workers : HookStop(p) \/ Classify(p)
    \/ \E p \in People, r \in Records : Retag(p, r)
    \/ \E p \in Procs : Step(p) \/ RewriteFails(p) \/ Crash(p)
    \/ LockAges \/ StampAges

Spec == Init /\ [][Next]_vars

\* Processes run on, the interval between two runs ends, and agents go on
\* ending their turns, which is what runs the stop hook.
Fairness ==
    /\ \A p \in Procs : WF_vars(Step(p))
    /\ WF_vars(\E p \in Workers : HookStop(p))
    /\ WF_vars(StampAges)

FairSpec == Spec /\ Fairness

-----------------------------------------------------------------------------
(* Properties.                                                             *)

TypeOK ==
    /\ note \in [Records -> Class] /\ event \in [Records -> Class]
    /\ lock \in {"absent", "fresh", "stale"}
    /\ stamped \in BOOLEAN
    /\ proc \in [Procs -> Process]
    /\ \A p \in Procs : proc[p].pc = "check" \/ Rewriting(p, Target(p))
                        => Target(p) \in Records
    /\ retags \in 0..MaxRetags /\ errors \in 0..MaxErrors /\ crashes \in 0..MaxCrashes

\* A kind that a person gave by hand is not overridden by a verdict, although
\* the worker may have asked for it long before, from an older index, and may
\* have queued the record before the retag (the check of apply_update).
Overridden(r) == note[r].by = "manual" /\ note'[r].by = "llm"
ManualIsKept == [][\A r \in Records : ~Overridden(r)]_vars

\* A record that a worker judged is not judged again by another one that had
\* queued it too, however the two came to run at the same time.
JudgedAgain(r) == note[r].by = "llm" /\ note'[r].by = "llm" /\ note'[r] # note[r]
JudgedOnce == [][\A r \in Records : ~JudgedAgain(r)]_vars

\* Unless somebody died or failed in the middle of a rewrite, the note and the
\* event of a record that nobody is rewriting agree (retag_record: both copies
\* must change together).
PairsAgree ==
    crashes = 0 => \A r \in Paired :
        (\A p \in Procs : ~Rewriting(p, r)) => note[r] = event[r]

\* A record that some backend can judge does not stay in the queue for ever,
\* whatever the records before it do to the backends.
HealthyIsJudged ==
    [](crashes = 0) => \A r \in Records \ Poisoned : Owed(View(r)) ~> ~Owed(View(r))

=============================================================================
