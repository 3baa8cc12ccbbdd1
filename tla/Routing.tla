------------------------------ MODULE Routing ------------------------------
(***************************************************************************)
(* Where a command writes and reads: the project it works on, the local    *)
(* binding of a project to a store, the policy of the agent, the scope and *)
(* kind of a new record, retagging, renames of projects, and the snapshot  *)
(* of a rendered context that hooks replay (main.rs, cli/projects.rs,      *)
(* cli/get.rs, cli/context.rs, write_classify.rs).                         *)
(*                                                                         *)
(* A caller has: agent, store, envStore, id, hint, envId, envHint, hook.   *)
(* A request has: entry, scope, kind, infer, says (what the text reads     *)
(* like), secret, allowSecret, audience, writerOnly.  The id of a store is *)
(* its root, which a queued record remembers.                              *)
(***************************************************************************)
EXTENDS Projects, FiniteSetsExt

CONSTANTS
    Base, Layers,           \* config.toml, and the local layers it may get, by name
    Callers, Requests, Changes, Renames, Moves,
    Roots, Detachable,      \* store directories; those that may be offline
    NameOrder,              \* the store aliases in their order
    Human,                  \* the writer of a record without an identity
    InitTree, InitLayer,
    Renamers, Assemblers,   \* processes of "hm projects alias" and of contexts
    MaxRecords, MaxGenerations, MaxSnapshots,
    MaxTurns                \* edits, binds, renames, retags, moves, mounts in all

VARIABLES
    layer,                  \* the name of config.local.toml as it is
    tree,                   \* markers, checkouts and remotes
    bindings,               \* data_dir/projects/<file>.toml
    online,                 \* roots that can be reached
    records,                \* in the stores
    pending,                \* in the outbox
    aliasFiles,             \* root -> directory -> aliases.toml
    index,                  \* <<alias, root>> -> local projection
    cache,                  \* selection key -> rendered context
    assembling,             \* process -> a context not yet saved
    renaming,               \* process -> an alias file not yet saved
    renamed,                \* ghost: renames that no other command undid
    spent                   \* ghost: how many such turns there were

disk == <<tree, bindings, records, pending, aliasFiles>>
vars == <<layer, tree, bindings, online, records, pending, aliasFiles, index,
          cache, assembling, renaming, renamed, spent>>

Configs == [l \in DOMAIN Layers |-> Layered(Base, Layers[l])]
config == Configs[layer]

\* With a configuration that is not valid no command runs.
ValidLayers == {l \in DOMAIN Layers : Valid(Configs[l])}
Runs == layer \in ValidLayers
Stores == DOMAIN Base.stores
RootOf(s) == config.stores[s].root
Names == {FileName(id) : id \in {x[2] : x \in Renames}}

\* What an aliases.toml of this store may come to say.
AliasFile == [project : {x[2] : x \in Renames}, aliases : SUBSET {x[1] : x \in Renames}]

\* None is no name, no writer and no contents; stores lie in known directories.
ASSUME RoutingAssumption ==
    /\ None \notin Safe \cup {Human} \cup AliasFile
    /\ \A w \in Requests : None \notin w.audience
    /\ InitLayer \in DOMAIN Layers
    /\ \A l \in ValidLayers : \A s \in Known(Configs[l]) : Configs[l].stores[s].root \in Roots
    /\ {MaxRecords, MaxGenerations, MaxSnapshots, MaxTurns} \subseteq Nat

Binding(id) == IF id \notin DOMAIN bindings \/ bindings[id] = None THEN None
               ELSE bindings[id].store
Project(c) == ProjectOf(tree, c)
Bound(c) == IF Project(c) = None THEN None ELSE Binding(FileName(Project(c)))

-----------------------------------------------------------------------------
(* What a record becomes.                                                  *)

\* write_classify: only to the project, and never a preference.
InferredScope(w, project) ==
    IF project = None THEN None
    ELSE IF w.kind = "project-fact" THEN "project"
    ELSE IF w.kind = "preference" \/ "preference" \in w.says THEN None
    ELSE IF "repo-local" \in w.says THEN "project" ELSE None

InferredKind(w, scope, project) ==
    IF "preference" \in w.says THEN "preference"
    ELSE IF "operational" \in w.says THEN "incident"
    ELSE IF "pointer" \in w.says THEN "reference"
    ELSE IF scope = "project" /\ project # None THEN "project-fact" ELSE None

Infers(w) == w.entry = "remember" /\ w.infer

\* Ambient context of the launcher is no explicit project.
WriteScope(c, w) ==
    IF w.scope # None THEN w.scope
    ELSE IF ~Infers(w) THEN "global"
    ELSE IF Project(c) # None /\ (c.hint # None \/ c.id # None) THEN "project"
    ELSE Override("global", InferredScope(w, Project(c)))

WriteKind(c, w) ==
    IF w.kind # None \/ ~Infers(w) THEN w.kind
    ELSE InferredKind(w, WriteScope(c, w), Project(c))

KindFits(kind, scope, project) ==
    kind = "project-fact" => scope = "project" /\ project # None

Writer(c) == IF c.agent = None THEN Human ELSE c.agent

\* Only a private record has an audience, and then it must have one.
Audience(c, w) == IF WriteScope(c, w) # "agent-private" THEN {}
                  ELSE IF w.writerOnly THEN {Writer(c)} ELSE w.audience

SecretAllowed(c, w, s) ==
    w.secret => /\ w.allowSecret /\ IsSecret(config, s)
                /\ Privacy(config).secretWrites
                /\ c.hook => Privacy(config).hookSecretWrites

Record(c, w, s, id) ==
    [id |-> id, writer |-> Writer(c), agent |-> c.agent, store |-> s, root |-> RootOf(s),
     scope |-> WriteScope(c, w), kind |-> WriteKind(c, w), project |-> Project(c),
     audience |-> Audience(c, w), secret |-> w.secret,
     private |-> WriteScope(c, w) = "agent-private", retagged |-> FALSE]

-----------------------------------------------------------------------------
(* What a reader sees.                                                     *)

MaySee(r, viewer) ==
    r.scope = "agent-private" =>
        /\ viewer # None
        /\ IF r.audience = {} THEN r.writer = viewer ELSE viewer \in r.audience

\* Canonical commands follow the alias files, hooks the projection.
InContext(r, key, ids) ==
    /\ r.scope \in key.scopes /\ MaySee(r, key.agent)
    /\ r.scope = "project" => key.project # None /\ r.project \in ids

Canonical(S, files, key) == {r \in S : InContext(r, key, Related(files, key.project))}
Local(S, files, key) == {r \in S : InContext(r, key, Family(files, key.project))}

CanonicalContext(key) ==
    Canonical({r \in records : r.root = key.root}, aliasFiles[key.root], key)

LocalContext(key) ==
    LET projection == index[<<key.store, key.root>>] IN
    Local(projection.entries, projection.files, key)

Key(c, s) ==
    [agent |-> c.agent, store |-> s, root |-> RootOf(s),
     project |-> Project(c), scopes |-> SearchScopes(config)]

\* Mutant: any snapshot will do.
CoversAny(key, generation) == key \in DOMAIN cache

\* A snapshot is replayed while the projection has its generation.
Covers(key, generation) == key \in DOMAIN cache /\ cache[key].generation = generation

ReadStore(c) == ResolveStore(config, c, Bound(c), "read", FALSE)
SearchStore(c) == ResolveStore(config, c, None, "read", FALSE)

\* Mutant: the snapshot of a store is replayed to whoever reads the store.
HookContextOfStore(c) ==
    LET s == ReadStore(c)
        projection == index[<<s, RootOf(s)>>]
        kept == {key \in DOMAIN cache : key.root = RootOf(s)}
    IN  IF s = None \/ projection = None THEN {}
        ELSE UNION {cache[key].entries : key \in kept}

\* A hook: the snapshot, else the projection, else nothing.
HookContext(c) ==
    LET s == ReadStore(c)
        projection == index[<<s, RootOf(s)>>]
    IN  IF s = None \/ projection = None THEN {}
        ELSE IF Covers(Key(c, s), projection.generation) THEN cache[Key(c, s)].entries
        ELSE LocalContext(Key(c, s))

\* What waits for an alias; a record that has been published counts once.
Waiting(s) == {r \in pending : r.store = s}
Supplement(s) == {r \in Waiting(s) : \A x \in records : x.root = RootOf(s) => x.id # r.id}

\* "hm search" reads the store and the queue of its alias; the active project
\* changes the order only, and no binding is asked.
SearchAnswer(c) ==
    LET s == SearchStore(c) IN
    IF s = None THEN {}
    ELSE {r \in {x \in records : x.root = RootOf(s)} \cup Supplement(s) :
              r.scope \in SearchScopes(config) /\ MaySee(r, c.agent)}

\* "hm get" tries every other store that the agent may read, in their order.
Look(s) == IF index[<<s, RootOf(s)>>] # None THEN index[<<s, RootOf(s)>>].entries
           ELSE {r \in records : r.root = RootOf(s)}
Position(s) == CHOOSE i \in DOMAIN NameOrder : NameOrder[i] = s
HasFor(c, s, id) == \E r \in Look(s) : r.id = id /\ MaySee(r, c.agent)

Others(c) == IF c.store # None THEN {}
             ELSE {s \in Known(config) \ {ReadStore(c)} : May(config, c.agent, s, "read", FALSE)}

Visited(c, id) ==
    {ReadStore(c)} \cup
    {s \in Others(c) : ~HasFor(c, ReadStore(c), id)
        /\ \A t \in Others(c) : Position(t) < Position(s) => ~HasFor(c, t, id)}

GetAnswer(c, id) ==
    IF ReadStore(c) = None THEN {}
    ELSE {r \in UNION {Look(s) : s \in Visited(c, id)} : r.id = id /\ MaySee(r, c.agent)}

-----------------------------------------------------------------------------
(* The local projection.  A rebuild that finds nothing new keeps it.       *)

Contents(root) == [entries |-> {r \in records : r.root = root}, files |-> aliasFiles[root]]

IsFresh(s, root) ==
    LET projection == index[<<s, root>>] IN
    projection # None /\ Contents(root) = [entries |-> projection.entries,
                                           files |-> projection.files]

\* The generation of a projection is the time of its publication.
Published == {index[at].generation : at \in {a \in DOMAIN index : index[a] # None}}
NextGeneration == Max({0} \cup Published) + 1

\* rebuild_store_index for the stores of S.
Rebuilt(S) ==
    [at \in DOMAIN index |->
        IF /\ \E s \in S : at = <<s, RootOf(s)>> /\ RootOf(s) \in online
           /\ ~IsFresh(at[1], at[2])
        THEN [generation |-> NextGeneration,
              entries |-> Contents(at[2]).entries, files |-> Contents(at[2]).files]
        ELSE index[at]]

CanRebuild(S) ==
    \A s \in S : IsFresh(s, RootOf(s)) \/ NextGeneration <= MaxGenerations

Turn == spent < MaxTurns /\ spent' = spent + 1

-----------------------------------------------------------------------------
(* Commands.                                                               *)

Ids == {r.id : r \in records \cup pending}

WritesTo(s, r) ==
    RootOf(s) \in online /\ records' = records \cup {r} /\ UNCHANGED pending
Enqueues(s, r) ==
    /\ RootOf(s) \notin online /\ FallbackEnabled(config)
    /\ pending' = pending \cup {r} /\ UNCHANGED records

\* run_write_memory: the store, or the outbox when it cannot be reached.
Remember(c, w) ==
    LET s == ResolveStore(config, c, Bound(c), "write", FALSE)
        r == Record(c, w, s, Cardinality(Ids) + 1)
    IN  /\ Runs /\ Cardinality(Ids) < MaxRecords /\ Project(c) # Broken
        /\ KindFits(WriteKind(c, w), WriteScope(c, w), Project(c))
        /\ s # None /\ SecretAllowed(c, w, s)
        /\ WriteScope(c, w) = "agent-private" => Audience(c, w) # {}
        /\ WritesTo(s, r) \/ Enqueues(s, r)
        /\ UNCHANGED <<layer, tree, bindings, online, aliasFiles, index, cache,
                       assembling, renaming, renamed, spent>>

\* "hm flush" of one record: the alias must lead to the store it was meant for.
Flush(r) ==
    /\ Runs /\ r \in pending
    /\ r.store \in Known(config) /\ RootOf(r.store) = r.root /\ r.root \in online
    /\ pending' = pending \ {r} /\ records' = records \cup {r}
    /\ UNCHANGED <<layer, tree, bindings, online, aliasFiles, index, cache,
                   assembling, renaming, renamed, spent>>

\* run_retag and retag_record.  change.here: to the project of the caller.
Retag(c, r, change) ==
    LET s       == SearchStore(c)
        kind    == IF change.kind = "keep" THEN r.kind ELSE change.kind
        scope   == Override(r.scope, change.scope)
        project == IF change.here THEN Override(r.project, Project(c)) ELSE r.project
        new     == [r EXCEPT !.kind = kind, !.scope = scope, !.project = project,
                             !.retagged = TRUE]
    IN  /\ Turn /\ Runs
        /\ change.here => Project(c) # Broken
        /\ s # None /\ May(config, c.agent, s, "write", FALSE)
        /\ RootOf(s) \in online /\ r \in records /\ r.root = RootOf(s)
        /\ MaySee(r, c.agent)
        /\ "agent-private" \in {r.scope, scope} => scope = r.scope
        /\ change.scope = "project" => project # None
        /\ KindFits(kind, scope, project)
        /\ records' = (records \ {r}) \cup {new}
        /\ CanRebuild({s}) /\ index' = Rebuilt({s})
        /\ UNCHANGED <<layer, tree, bindings, online, pending, aliasFiles, cache,
                       assembling, renaming, renamed>>

\* save_binding and remove_binding: ids may share a file.
Saves(id, binding) == bindings' = [bindings EXCEPT ![FileName(id)] = binding]

\* "hm projects bind" and "unbind": for a human any store is good.
Bind(c, s) ==
    LET id == ResolveProject(tree, c.envHint, None, c.envId)
        named == [c EXCEPT !.store = s]
    IN  /\ Turn /\ Runs
        /\ c.envHint # None /\ id # Broken /\ FileName(id) \in DOMAIN bindings
        /\ \A access \in {"read", "write"} :
              ResolveStore(config, named, None, access, TRUE) # None
        /\ Saves(id, [project |-> id, store |-> s])
        /\ UNCHANGED <<layer, tree, online, records, pending, aliasFiles, index, cache,
                       assembling, renaming, renamed>>

Unbind(c) ==
    LET id == ResolveProject(tree, c.envHint, None, c.envId) IN
    /\ Turn /\ Runs /\ c.envHint # None /\ id # Broken
    /\ FileName(id) \in DOMAIN bindings /\ bindings[FileName(id)] # None
    /\ Saves(id, None)
    /\ UNCHANGED <<layer, tree, online, records, pending, aliasFiles, index, cache,
                   assembling, renaming, renamed>>

\* "hm projects alias" reads the file, and writes it without a lock.
RenameLoad(p, c, old, new) ==
    LET s == ResolveStore(config, c, None, "write", FALSE) IN
    /\ Turn /\ Runs /\ renaming[p] = None
    /\ old # new /\ s # None /\ RootOf(s) \in online
    /\ renaming' = [renaming EXCEPT ![p] =
           [root |-> RootOf(s), old |-> old, new |-> new,
            file |-> aliasFiles[RootOf(s)][FileName(new)]]]
    /\ UNCHANGED <<layer, online, disk, index, cache, assembling, renamed>>

\* Ghost: an earlier rename is forgotten when this one did not read it, or when
\* another current id has the same file.
RenameSave(p) ==
    LET job == renaming[p]
        dir == FileName(job.new)
        stale == aliasFiles[job.root][dir] # job.file
        lost == {x \in renamed : x.root = job.root /\ FileName(x.new) = dir
                                    /\ (stale \/ x.new # job.new)}
    IN  /\ job # None /\ job.root \in online
        /\ aliasFiles' = [aliasFiles EXCEPT ![job.root][dir] =
                              WithAlias(job.file, job.old, job.new)]
        /\ renamed' = (renamed \ lost) \cup
                          {[root |-> job.root, old |-> job.old, new |-> job.new]}
        /\ renaming' = [renaming EXCEPT ![p] = None]
        /\ UNCHANGED <<layer, tree, bindings, online, records, pending, index, cache,
                       assembling, spent>>

-----------------------------------------------------------------------------
(* Contexts: assembled, answered, and saved for the hooks to come.         *)

\* Ghost: of, the generation that it was made of.
Assembled(c, s, of, entries) ==
    [key |-> Key(c, s), at |-> <<s, RootOf(s)>>, of |-> of, entries |-> entries]
Snapshot(job, generation) ==
    [generation |-> generation, of |-> job.of, entries |-> job.entries]

\* A hook that has no snapshot to replay.
HookAssemble(p, c) ==
    LET s == ReadStore(c)
        projection == index[<<s, RootOf(s)>>]
    IN  /\ Runs /\ assembling[p] = None /\ Project(c) # Broken
        /\ s # None /\ projection # None
        /\ ~Covers(Key(c, s), projection.generation)
        /\ assembling' = [assembling EXCEPT ![p] =
               Assembled(c, s, projection.generation, LocalContext(Key(c, s)))]
        /\ UNCHANGED <<layer, online, disk, index, cache, renaming, renamed, spent>>

\* "hm context" rebuilds the projection and follows the alias files.
Assemble(p, c) ==
    LET s == ReadStore(c) IN
    /\ Runs /\ assembling[p] = None /\ Project(c) # Broken
    /\ s # None /\ RootOf(s) \in online /\ CanRebuild({s})
    /\ index' = Rebuilt({s})
    /\ assembling' = [assembling EXCEPT ![p] =
           Assembled(c, s, index'[<<s, RootOf(s)>>].generation, CanonicalContext(Key(c, s)))]
    /\ UNCHANGED <<layer, online, disk, cache, renaming, renamed, spent>>

\* write_context_cache stamps the snapshot with the generation it finds now.
SaveSnapshot(p) ==
    LET job == assembling[p] IN
    /\ job # None
    /\ Cardinality(DOMAIN cache \cup {job.key}) <= MaxSnapshots
    /\ cache' = [key \in DOMAIN cache \cup {job.key} |->
           IF key # job.key THEN cache[key]
           ELSE Snapshot(job, index[job.at].generation)]
    /\ assembling' = [assembling EXCEPT ![p] = None]
    /\ UNCHANGED <<layer, online, disk, index, renaming, renamed, spent>>

\* Too old, or pruned by a refresh.
Expire(key) ==
    /\ cache' = [k \in DOMAIN cache \ {key} |-> cache[k]]
    /\ UNCHANGED <<layer, online, disk, index, assembling, renaming, renamed, spent>>

Refresh(s) ==
    /\ Runs /\ s \in Known(config) /\ RootOf(s) \in online
    /\ ~IsFresh(s, RootOf(s)) /\ CanRebuild({s})
    /\ index' = Rebuilt({s})
    /\ UNCHANGED <<layer, online, disk, cache, assembling, renaming, renamed, spent>>

\* "hm get" answers from the projections, and builds the ones that are missing.
Get(c, id) ==
    LET missing == {s \in Visited(c, id) : index[<<s, RootOf(s)>>] = None} IN
    /\ Runs /\ Project(c) # Broken /\ ReadStore(c) # None
    /\ \E s \in missing : RootOf(s) \in online
    /\ ReadStore(c) \in missing => RootOf(ReadStore(c)) \in online
    /\ CanRebuild(missing) /\ index' = Rebuilt(missing)
    /\ UNCHANGED <<layer, online, disk, cache, assembling, renaming, renamed, spent>>

-----------------------------------------------------------------------------
(* The world.                                                              *)

EditConfig(l) ==
    /\ l # layer
    /\ layer' = l /\ Turn
    /\ UNCHANGED <<online, disk, index, cache, assembling, renaming, renamed>>

\* The repository gets another remote, or a marker.
Move(place, new) ==
    /\ tree[place] # new
    /\ tree' = [tree EXCEPT ![place] = new]
    /\ Turn
    /\ UNCHANGED <<layer, bindings, online, records, pending, aliasFiles, index, cache,
                   assembling, renaming, renamed>>

Attach(root) ==
    /\ root \in Detachable
    /\ online' = IF root \in online THEN online \ {root} ELSE online \cup {root}
    /\ Turn
    /\ UNCHANGED <<layer, disk, index, cache, assembling, renaming, renamed>>

-----------------------------------------------------------------------------

Init ==
    /\ layer = InitLayer /\ tree = InitTree /\ online = Roots
    /\ bindings = [name \in {FileName(id) : id \in Safe} |-> None]
    /\ records = {} /\ pending = {}
    /\ aliasFiles = [r \in Roots |-> [name \in Names |-> None]]
    /\ index = [at \in Stores \X Roots |-> None]
    /\ cache = [key \in {} |-> None]
    /\ assembling = [p \in Assemblers |-> None]
    /\ renaming = [p \in Renamers |-> None]
    /\ renamed = {}
    /\ spent = 0

Next ==
    \/ \E c \in Callers :
          \/ \E w \in Requests : Remember(c, w)
          \/ \E r \in records, change \in Changes : Retag(c, r, change)
          \/ \E s \in Stores : Bind(c, s)
          \/ Unbind(c)
          \/ \E p \in Renamers, x \in Renames : RenameLoad(p, c, x[1], x[2])
          \/ \E p \in Assemblers : HookAssemble(p, c) \/ Assemble(p, c)
          \/ \E id \in Ids : Get(c, id)
    \/ \E r \in pending : Flush(r)
    \/ \E p \in Renamers : RenameSave(p)
    \/ \E p \in Assemblers : SaveSnapshot(p)
    \/ \E key \in DOMAIN cache : Expire(key)
    \/ \E s \in Stores : Refresh(s)
    \/ \E l \in DOMAIN Layers : EditConfig(l)
    \/ \E m \in Moves : Move(m[1], m[2])
    \/ \E root \in Roots : Attach(root)

Spec == Init /\ [][Next]_vars

-----------------------------------------------------------------------------
(* Properties.                                                             *)

\* A new record lies in a store that the policy lets its writer write, whatever
\* bindings, environment or inference led there, and a secret only where the
\* configuration admits one (resolve_store, validate_secret_write, from_raw).
Admitted(r) ==
    /\ May(config, r.agent, r.store, "write", FALSE)
    /\ r.root = RootOf(r.store)
    /\ r.secret => /\ IsSecret(config, r.store) /\ Privacy(config).secretWrites
                   /\ OnCloud(r.root) => ~Privacy(config).refusesCloud

AcceptedWithinPolicy ==
    [][\A r \in records' \cup pending' : r.id \notin Ids => Admitted(r)]_vars

\* Whatever a caller is shown, replayed snapshots included, lies in a store that
\* it may read under the configuration of this moment, and a record that was
\* written for some agents only is shown to no other, however it was retagged
\* (SPEC.md:1236-1240, visibility.rs).
Permitted(c, r) ==
    /\ \E s \in Known(config) : /\ May(config, c.agent, s, "read", FALSE)
                               /\ \/ RootOf(s) = r.root
                                  \/ r \in pending /\ r.store = s
    /\ r.private => c.agent \in r.audience

AnswersArePermitted ==
    \A c \in Callers : (Runs /\ Project(c) # Broken) =>
        \A r \in HookContext(c) \cup SearchAnswer(c) \cup UNION {GetAnswer(c, id) : id \in Ids} :
            Permitted(c, r)

\* What an agent remembered is in the context of the same agent in the same
\* project, under its prior and its new id, in either direction, once a rename
\* was declared; while it is queued a search shows it.  Ids of more than one
\* path component are left to hooks (project.rs: "identity continuity, not a
\* one-way redirect").
SameProject(r, id) ==
    \/ r.project = id
    \/ \E x \in renamed : x.root = r.root /\ {x.old, x.new} = {r.project, id}

Own(r, c) ==
    /\ r.agent = c.agent /\ ~r.retagged /\ r.scope \in SearchScopes(config)
    /\ r.private => c.agent \in r.audience

Expected(r, c) ==
    /\ Own(r, c) /\ ReadStore(c) # None /\ RootOf(ReadStore(c)) = r.root
    /\ r.scope = "project" =>
          SameProject(r, Project(c)) /\ {r.project, Project(c)} \subseteq Safe

RememberedIsFound ==
    \A c \in Callers : Runs =>
        LET s == ReadStore(c) IN
        /\ \A r \in {x \in records : Expected(x, c)} :
              /\ r \in CanonicalContext(Key(c, s))
              /\ IsFresh(s, r.root) => r \in LocalContext(Key(c, s))
        /\ \A r \in {x \in pending : Own(x, c) /\ SearchStore(c) = x.store} :
              r \in SearchAnswer(c)

\* A snapshot that a hook replays is what the projection says now, unless a new
\* generation was published between its assembly and its saving, of which the
\* stamp knows nothing (cli/context.rs: cache_covers_generation).
SnapshotIsCurrent ==
    \A key \in DOMAIN cache :
        LET projection == index[<<key.store, key.root>>] IN
        Covers(key, projection.generation) /\ cache[key].of = cache[key].generation =>
            cache[key].entries \in {Local(projection.entries, projection.files, key),
                                    Canonical(projection.entries, projection.files, key)}

=============================================================================
