--------------------------- MODULE MCPromptRecall ---------------------------
EXTENDS PromptRecall, TLC

\* One agent, "me", in one project.  The words of all the records are about
\* deployments.
Record(id, made, text, supersedes) ==
    [id |-> id, made |-> made, kind |-> "remember", scope |-> "global",
     project |-> None, audience |-> {}, agent |-> "me", confidence |-> 2,
     validity |-> "current", supersedes |-> supersedes, text |-> text,
     meta |-> {}, entities |-> {}, class |-> None, size |-> 2, rev |-> 0]

\* An old fact, its correction in other words, and a correction of that which
\* the old fact corrects in turn.
OldFact   == Record(1, 1, {"deploy", "branch"}, {3})
NewFact   == Record(2, 2, {"release", "main"}, {1})
Imported  == Record(3, 0, {"deploy", "tag"}, {2})

\* A private correction of another agent.
Private   == [Record(4, 4, {"deploy", "mine"}, {1, 2}) EXCEPT !.scope = "agent-private",
                 !.agent = "you", !.audience = {"you"}]
\* Used and now, without a link; a reference for searches only; a curated file,
\* of two revisions, the second one large; one more record of that topic, and
\* one that only an entity connects with the other.
Used    == Record(6, 3, {"deploy", "staging", "used to"}, {})
Now     == [Record(7, 4, {"deploy", "staging", "now"}, {}) EXCEPT !.class = "reference"]
Curated == [Record(8, 0, {"staging", "rules"}, {}) EXCEPT !.kind = "curated", !.confidence = 3]
Revised == [Curated EXCEPT !.text = {"staging", "rules", "more"}, !.size = 9, !.rev = 1]
Other   == Record(9, 5, {"staging", "tests"}, {})
Named   == [Record(10, 5, {"ship"}, {}) EXCEPT !.entities = {"pipeline"}, !.scope = "project",
               !.project = "here"]

Deploy  == Query({"deploy", "branch"}, "deploy branch", {"pipeline"}) @@ ("lead" :> "deploy")
Staging == Query({"staging"}, "staging", {}) @@ ("lead" :> "staging")

RecallPolicy == [sources |-> {"curated", "remembered"}, scopes |-> {}, viewer |-> "me",
           project |-> None, limit |-> 0, projectOnly |-> FALSE, strategy |-> "adaptive",
           searchOnly |-> TRUE, filterProject |-> FALSE, budget |-> 0]
Startup == [RecallPolicy EXCEPT !.searchOnly = FALSE, !.filterProject = TRUE, !.budget = 6]

\* Sessions see two small corpora, searches one of all the records.
TwoCorpora == {{OldFact, NewFact, Imported, Named}, {Used, Curated, Revised, Other}}
AllRecords == {{OldFact, NewFact, Imported, Private, Named, Used, Now, Curated, Revised, Other}}
MCCorpora == [persistent |-> TwoCorpora, turn |-> TwoCorpora, none |-> AllRecords]
MCMaxEntries == [persistent |-> 3, turn |-> 3, none |-> 5]
MCMaxExpired == [persistent |-> 1, turn |-> 1, none |-> 2]
MCTopics == {Deploy, Staging}

NoAlternatives(w) == {}
Itself(p) == p
=============================================================================
