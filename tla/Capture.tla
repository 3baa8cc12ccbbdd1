------------------------------- MODULE Capture -------------------------------
(***************************************************************************)
(* "hm capture" and "hm reconcile": a language model extracts facts from a *)
(* conversation, which are staged as raw inbox notes or, one after the     *)
(* other, compared with the memory that a search finds for them and added, *)
(* or written in place of a record (main.rs, capture.rs, reconcile.rs).    *)
(*                                                                         *)
(* The model is outside: it may answer anything.  A record has the fields  *)
(* of Search; a fact is a set of words.                                    *)
(***************************************************************************)
EXTENDS Search, SequencesExt

CONSTANTS
    Commands,               \* processes
    Agent,                  \* who runs them
    Facts, Secrets,         \* facts; those that look like a secret
    Conversations,          \* sequences of facts that a model may extract
    PhraseOf(_),            \* the phrase that the words of a fact form
    Notes,                  \* identities of raw notes
    WriteScope, SearchScopes, Limit,
    InitMemory,             \* records that other commands have written
    MaxWritten              \* bound: records in the store

VARIABLES
    raw,                    \* inbox notes
    memory,                 \* durable records
    jobs                    \* commands under way
vars == <<raw, memory, jobs>>

Text(fact) == fact \cup {PhraseOf(fact)}
Ids == {r.id : r \in memory}
Idle == [at |-> "idle"]

-----------------------------------------------------------------------------
(* The decision.                                                           *)

\* filter_candidates.  Overlong texts are no texts of the model.
Filtered(said) ==
    FoldLeft(LAMBDA kept, f : IF f \in Secrets \/ \E i \in DOMAIN kept : kept[i] = f
                              THEN kept ELSE Append(kept, f), <<>>, said)

Policy == [sources |-> {"remembered"}, scopes |-> SearchScopes, projectOnly |-> FALSE,
           viewer |-> Agent, project |-> None, limit |-> Limit]

\* decide_candidate: what the model is shown.
Shown(snapshot, fact) ==
    LET owned == {r \in snapshot : r.scope # "project"}
        hits  == Lexical(owned, Query(fact, PhraseOf(fact), {}), Policy, TRUE)
    IN  EntriesOf(Truncate(hits, Limit))

\* UPDATE and DELETE differ in the report only.
Add == [writes |-> TRUE, targets |-> {}]
Noop == [writes |-> FALSE, targets |-> {}]
Replace(id) == [writes |-> TRUE, targets |-> {id}]

\* Mutant: any identity is taken for a target.
ParseAnyId(answer, ids) ==
    IF answer.op \in {"update", "delete"} /\ answer.id # None THEN Replace(answer.id)
    ELSE IF answer.op \in {"delete", "noop"} THEN Noop ELSE Add

\* parse_operation.  Anything else, or nothing that parses, adds.
ParseOperation(answer, ids) ==
    IF answer.op \in {"update", "delete"} /\ answer.id \in ids THEN Replace(answer.id)
    ELSE IF answer.op \in {"delete", "noop"} THEN Noop ELSE Add

Answers == [op : {"update", "delete", "noop", "unreadable"}, id : Ids \cup {None}]

\* apply_decision.  Ghosts: what the run could have known when it began, and
\* whether the model was shown the very same text.
Written(job, id) ==
    [id |-> id, made |-> id, kind |-> "remember", scope |-> WriteScope, project |-> None,
     audience |-> {}, agent |-> Agent, confidence |-> 1, validity |-> "current",
     text |-> Text(Head(job.left)), meta |-> {}, entities |-> {},
     supersedes |-> job.operation.targets,
     seen |-> job.seen, recognised |-> job.recognised]

-----------------------------------------------------------------------------
(* Commands.                                                               *)

Sets(p, job) == jobs' = [jobs EXCEPT ![p] = job]
Asks(left, snapshot, seen) ==
    [at |-> "ask", left |-> left, snapshot |-> snapshot, seen |-> seen]
Ends(p) == Sets(p, Idle)

\* The next fact, or the end.
Continues(p) ==
    LET rest == Tail(jobs[p].left) IN
    IF rest = <<>> THEN Ends(p) ELSE Sets(p, Asks(rest, jobs[p].snapshot, jobs[p].seen))

\* Mutant: the index as some earlier command left it.
IndexOfOthers == InitMemory

\* rebuild_store_index.
RebuiltIndex == memory
\* A fact about the past may be compared with what has expired.
Knowable == {r.id : r \in {x \in memory : x.scope # "project" /\ Allowed(x, Policy, TRUE)}}

\* run_capture: the index is rebuilt once for all facts.
CaptureFacts(p, said, promote) ==
    LET facts == Filtered(said) IN
    /\ jobs[p] = Idle
    /\ IF facts = <<>> THEN Ends(p)
       ELSE IF promote THEN Sets(p, Asks(facts, RebuiltIndex, Knowable))
       ELSE Sets(p, [at |-> "stage", left |-> facts])
    /\ UNCHANGED <<raw, memory>>

\* run_reconcile refuses what looks like a secret.
ReconcileFact(p, fact) ==
    /\ jobs[p] = Idle
    /\ IF fact \in Secrets THEN Ends(p) ELSE Sets(p, Asks(<<fact>>, RebuiltIndex, Knowable))
    /\ UNCHANGED <<raw, memory>>

\* One inbox note for every fact.
Stage(p, n) ==
    /\ jobs[p].at = "stage" /\ n \notin raw
    /\ raw' = raw \cup {n}
    /\ IF Tail(jobs[p].left) = <<>> THEN Ends(p)
       ELSE Sets(p, [at |-> "stage", left |-> Tail(jobs[p].left)])
    /\ UNCHANGED memory

\* The model is asked, for up to the timeout of the backend.
Decide(p, answer) ==
    LET job == jobs[p]
        shown == Shown(job.snapshot, Head(job.left))
        operation == ParseOperation(answer, {r.id : r \in shown})
    IN  /\ job.at = "ask"
        /\ Sets(p, [at |-> "apply", left |-> job.left, snapshot |-> job.snapshot,
                    seen |-> job.seen, operation |-> operation,
                    recognised |-> \E r \in shown : r.text = Text(Head(job.left))])
        /\ UNCHANGED <<raw, memory>>

Apply(p) ==
    /\ jobs[p].at = "apply"
    /\ IF ~jobs[p].operation.writes THEN UNCHANGED memory
       ELSE /\ Cardinality(memory) < MaxWritten
            /\ memory' = memory \cup {Written(jobs[p], Cardinality(memory) + 1)}
    /\ Continues(p)
    /\ UNCHANGED raw

\* The model or a write fails, or the process dies: what was written stays.
Stops(p) ==
    /\ jobs[p] # Idle
    /\ Ends(p)
    /\ UNCHANGED <<raw, memory>>

Init ==
    /\ raw = {}
    /\ memory = InitMemory
    /\ jobs = [p \in Commands |-> Idle]

Next ==
    \E p \in Commands :
        \/ \E said \in Conversations, promote \in BOOLEAN : CaptureFacts(p, said, promote)
        \/ \E fact \in Facts : ReconcileFact(p, fact)
        \/ \E n \in Notes : Stage(p, n)
        \/ \E answer \in Answers : Decide(p, answer)
        \/ Apply(p) \/ Stops(p)

Spec == Init /\ [][Next]_vars

-----------------------------------------------------------------------------
(* Properties.                                                             *)

\* Whatever the model answers, a reconciliation replaces only records that were
\* its agent's to read and of no project when its index was read ("keep project
\* records out of mutation candidates", decide_candidate; "an operation naming
\* an unknown id is downgraded", parse_operation).
OnlyOwnIsReplaced ==
    \A r \in memory \ InitMemory : r.supersedes \subseteq r.seen

\* A fact is not written a second time by a run that began when a record of the
\* same text could be read, unless that record has been corrected: a retry after
\* a crash adds nothing, if the model recognises a text that it is shown.
RetryAddsNothing ==
    \A a, b \in memory :
        (a # b /\ a.text = b.text /\ ~b.recognised /\ a.id \in b.seen /\ AllowsCurrent(a))
            => a \in ExplicitlySuppressed(memory, {})

\* Violated: a fact that the model recognised is in the memory as it is.  What
\* the model is shown may have been corrected.
KnownIsCurrent ==
    \A p \in Commands :
        (jobs[p].at = "apply" /\ jobs[p].operation = Noop /\ jobs[p].recognised)
            => \E r \in memory \ ExplicitlySuppressed(memory, {}) : r.text = Text(Head(jobs[p].left))

\* Violated: a record about what the fact is about is shown to the model
\* (README.md, "The default branch is now main, not master").
PredecessorIsShown ==
    \A p \in Commands : jobs[p].at = "ask" =>
        \A r \in jobs[p].snapshot :
            (r.id \in jobs[p].seen /\ Cardinality(r.text \cap Head(jobs[p].left)) >= 2)
                => r \in Shown(jobs[p].snapshot, Head(jobs[p].left))
=============================================================================
