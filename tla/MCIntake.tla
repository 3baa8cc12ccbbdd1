------------------------------ MODULE MCIntake ------------------------------
EXTENDS Intake, TLC

CONSTANTS Codex, Elsewhere

Path(area, project) == [area |-> area, project |-> project, depth |-> 0, markdown |-> TRUE]

\* A file of the global memory, and one that lies in no project's directory.
Memory == Path("global", None)
Stray  == Path("projects", None)
MCTargets == {Memory, Stray}

Alone(w) == {}
Self(x)  == x

\* The phrase that a text is.
Phrase(words) == IF "not" \in words THEN "the default branch is now main, not master"
                 ELSE IF "token" \in words THEN "the token"
                 ELSE "the default branch is master"
Branch   == {"default", "branch", "master"}
NoBranch == {"default", "branch", "now", "main", "not", "master"}
Token    == {"token"}
MCFacts  == {Branch, NoBranch, Token}
MCSecrets == {Token}
MCConversations == {<<Token, NoBranch, NoBranch>>, <<Branch>>}

Plain(id, words, project) ==
    [id |-> id, made |-> id, kind |-> "remember", project |-> project,
     scope |-> IF project = None THEN "global" ELSE "project",
     audience |-> {}, agent |-> Codex, confidence |-> 1, validity |-> "current",
     text |-> words \cup {Phrase(words)}, meta |-> {}, entities |-> {}, supersedes |-> {},
     seen |-> {}, recognised |-> FALSE]

MCMemory == {Plain(1, Branch, None), Plain(2, Branch, Elsewhere)}

\* Bound: a behaviour promotes notes or reconciles facts.  The inbox is all that
\* one of them reads and the other one writes.
NoPromotion == /\ proc = [p \in Promoters |-> Idle] /\ saved = {}
               /\ files = [t \in Targets |-> Empty]
NoFacts     == jobs = [p \in Commands |-> Reconciling!Idle] /\ memory = MCMemory

MCNext == \/ NoFacts /\ Promotes
          \/ /\ NoPromotion /\ Reconciles
             /\ raw' = {} \/ (memory' = MCMemory /\ \A p \in Commands : jobs'[p].at \notin {"ask", "apply"})

MCSpec == IntakeInit /\ [][MCNext]_intake

Symmetry == Permutations(Notes) \cup Permutations(Promoters) \cup Permutations(Lines)
              \cup Permutations(Commands)
=============================================================================
