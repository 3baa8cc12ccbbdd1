----------------------------- MODULE MCRouting -----------------------------
EXTENDS Routing, TLC

CONSTANTS Personal, Work, RP, RW, RC, Codex, Old, New, OldUrl, NewUrl, Repo

MCAncestors(place) == <<place>>
MCNormalize(url) == url
MCDerivedId(remote) == IF remote = OldUrl THEN Old ELSE New
MCPathId(place) == Old
MCFileName(id) == id

(* Codex may use both stores by default, as may anyone without a section;  *)
(* Work is a store for secrets.                                             *)
Agent(default, stores) == [default |-> default, read |-> stores, write |-> stores, all |-> None]
Store(root, sensitivity) == [root |-> root, sensitivity |-> sensitivity]

MCBase ==
    [default  |-> Personal, fallback |-> None,
     scopes   |-> {"global", "project", "agent-private"},
     privacy  |-> [refusesCloud |-> None, secretWrites |-> TRUE, hookSecretWrites |-> None],
     stores   |-> (Personal :> Store(RP, None) @@ Work :> Store(RW, "secret")),
     agents   |-> (Codex :> Agent(None, {Personal, Work}))]

NoLayer == [MCBase EXCEPT !.default = None, !.scopes = None, !.privacy = None,
                          !.stores = (Personal :> None @@ Work :> None),
                          !.agents = (Codex :> None)]
Narrow == [NoLayer EXCEPT !.agents = (Codex :> Agent(None, {Personal}))]
\* The alias leads to another directory.
Moved == [NoLayer EXCEPT !.stores = (Personal :> Store(RC, None) @@ Work :> None)]
\* Secrets on a cloud root: not valid.
Careless == [NoLayer EXCEPT !.stores = (Personal :> None @@ Work :> Store(RC, None))]
AllLayers == [none |-> NoLayer, narrow |-> Narrow, moved |-> Moved, careless |-> Careless]
BaseAlone == [none |-> NoLayer]

Caller(agent, store, place) ==
    [agent |-> agent, store |-> store, envStore |-> None, id |-> None, hint |-> None,
     envId |-> None, envHint |-> place, hook |-> FALSE]
\* The second one is told its store and its project by its environment.
CodexCallers == {Caller(Codex, None, Repo), [Caller(Codex, Work, None) EXCEPT !.envId = New]}
AllCallers   == CodexCallers \cup {Caller(None, None, Repo)}

Request(says) ==
    [entry |-> "remember", scope |-> None, kind |-> None, infer |-> TRUE, says |-> says,
     secret |-> FALSE, allowSecret |-> FALSE, audience |-> {}, writerOnly |-> FALSE]
Fact    == Request({"repo-local"})
Private == [Request({}) EXCEPT !.scope = "agent-private", !.writerOnly = TRUE]
Password    == [Request({}) EXCEPT !.secret = TRUE, !.allowSecret = TRUE]
Facts     == {Fact}
Delicates == {Private, Password}

MCChanges == {[kind |-> "keep", scope |-> "global", here |-> FALSE],
              [kind |-> None, scope |-> None, here |-> TRUE]}
NoneOf == {}
MCRenames == {<<Old, New>>}
Directory(url) == [marker |-> None, checkout |-> TRUE, remote |-> url]
MCInitTree == (Repo :> Directory(OldUrl))
MCMoves == {<<Repo, Directory(NewUrl)>>}
MCNameOrder == <<Personal, Work>>
Symmetry == Permutations(Renamers)
=============================================================================
