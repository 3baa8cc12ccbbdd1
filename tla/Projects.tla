------------------------------ MODULE Projects ------------------------------
(***************************************************************************)
(* Which project a command works on and which other ids name the same      *)
(* project (project.rs), and the layered configuration with the policy of  *)
(* an agent (config.rs).  Everything here is a function of what lies on    *)
(* disk; Routing holds the state.                                          *)
(***************************************************************************)
EXTENDS Naturals, FiniteSets, Sequences

CONSTANTS
    None,                   \* nothing given, no file, no agent
    Broken,                 \* a marker file that cannot be read
    Ancestors(_),           \* a place and its parents, nearest first
    Normalize(_),           \* a remote without protocol, user and ".git"
    DerivedId(_),           \* slug and hash of a normalized remote
    PathId(_),              \* slug and hash of a path
    FileName(_),            \* sanitize_component of an id, an id itself
    Safe,                   \* ids that are one normal path component
    CloudRoots              \* roots that a cloud client synchronizes

Override(base, over) == IF over = None THEN base ELSE over

-----------------------------------------------------------------------------
(* Identity.  tree[place] has the marker of a directory (None, Broken or   *)
(* an id), whether it is a checkout, and its remote.                       *)

\* The nearest of `places`, walking up from a place.
Nearest(place, places) ==
    LET up == Ancestors(place)
        at == {i \in DOMAIN up : up[i] \in places}
    IN  IF at = {} THEN None ELSE up[CHOOSE i \in at : \A j \in at : i <= j]

MarkerOf(tree, place) ==
    LET at == Nearest(place, {p \in DOMAIN tree : tree[p].marker # None})
    IN  IF at = None THEN None ELSE tree[at].marker

Checkout(tree, place) == Nearest(place, {p \in DOMAIN tree : tree[p].checkout})

\* Hosts that clone one repository by different protocols agree on its id.
RemoteId(url) == DerivedId(Normalize(url))

\* Without a remote: the checkout, or else the place.
LocalId(tree, place) == PathId(Override(place, Checkout(tree, place)))

FilesystemId(tree, place) ==
    LET root == Checkout(tree, place) IN
    IF MarkerOf(tree, place) # None THEN MarkerOf(tree, place)
    ELSE IF root # None /\ tree[root].remote # None THEN RemoteId(tree[root].remote)
    ELSE LocalId(tree, place)

\* resolve_project.  A broken marker is an error, an id that is given or not.
ResolveProject(tree, place, id, envId) ==
    IF MarkerOf(tree, place) = Broken THEN Broken
    ELSE IF id # None THEN id
    ELSE IF envId # None THEN envId
    ELSE FilesystemId(tree, place)

\* What a command works on: c.id, c.hint from its arguments, c.envId,
\* c.envHint from its environment.  Only a hint makes it look at the disk.
ProjectOf(tree, c) ==
    IF c.hint = None /\ c.id # None THEN c.id
    ELSE IF c.hint = None /\ c.envId # None THEN c.envId
    ELSE IF c.hint = None /\ c.envHint = None THEN None
    ELSE ResolveProject(tree, IF c.hint # None THEN c.hint ELSE c.envHint, c.id, c.envId)

-----------------------------------------------------------------------------
(* Aliases: files[dir] is None or what memories/projects/<dir>/aliases.toml *)
(* says, the current id and the prior ones.                                *)

\* An id that is no single path component is dropped, never followed.
SafeOnly(ids) == Safe \cap ids

Mentions(files, dir) == {dir, files[dir].project} \cup files[dir].aliases

AliasDirs(files) == {dir \in DOMAIN files : files[dir] # None}

\* Mutant: a project that finds its prior ids, but is not found by them.
RelatedFromCurrent(files, id) ==
    SafeOnly({id} \cup UNION {Mentions(files, dir) :
                   dir \in {d \in AliasDirs(files) : id \in {d, files[d].project}}})

\* related_project_ids: one hop, over the files that mention the id.
Related(files, id) ==
    SafeOnly({id} \cup UNION {Mentions(files, dir) :
                   dir \in {d \in AliasDirs(files) : id \in Mentions(files, d)}})

\* alias_normalization_map: files that share an id are one family.
Closed(files, ids) ==
    \A dir \in AliasDirs(files) :
        LET file == SafeOnly(Mentions(files, dir)) IN
        file \cap ids # {} => file \subseteq ids

Family(files, id) ==
    IF id \notin Safe THEN {id}
    ELSE {x \in Safe : \A ids \in SUBSET Safe : (id \in ids /\ Closed(files, ids)) => x \in ids}

\* add_alias on the file it has loaded.
WithAlias(file, old, new) ==
    [project |-> new, aliases |-> {old} \cup (IF file = None THEN {} ELSE file.aliases)]

-----------------------------------------------------------------------------
(* Configuration.  A layer has every key; None is a key that is not set.   *)

OverrideKeys(base, over) ==
    IF over = None THEN base
    ELSE IF base = None THEN over
    ELSE [key \in DOMAIN base |-> Override(base[key], over[key])]

OverrideTables(base, over) ==
    [name \in DOMAIN base |-> OverrideKeys(base[name], over[name])]

\* merge_tables: tables merge, scalars and lists replace.
Layered(base, over) ==
    [default  |-> Override(base.default, over.default),
     fallback |-> Override(base.fallback, over.fallback),
     scopes   |-> Override(base.scopes, over.scopes),
     privacy  |-> OverrideKeys(base.privacy, over.privacy),
     stores   |-> OverrideTables(base.stores, over.stores),
     agents   |-> OverrideTables(base.agents, over.agents)]

Known(c) == {s \in DOMAIN c.stores : c.stores[s] # None}
\* A root below a known synchronization directory.
OnCloud(root) == root \in CloudRoots
IsSecret(c, s) == Override("normal", c.stores[s].sensitivity) = "secret"

\* PrivacyConfig, DefaultsConfig and OfflineConfig::from_raw.
Privacy(c) == OverrideKeys([refusesCloud |-> TRUE, secretWrites |-> FALSE,
                            hookSecretWrites |-> FALSE], c.privacy)
SearchScopes(c) == Override({"global", "project"}, c.scopes)
FallbackEnabled(c) == Override(TRUE, c.fallback)

\* AgentConfig::from_raw, and the policy of an agent that has no section.
Policy(c, agent) ==
    LET given == IF agent \in DOMAIN c.agents THEN c.agents[agent] ELSE None
        default == IF given = None THEN c.default ELSE Override(c.default, given.default)
    IN  [default |-> default,
         read    |-> IF given = None THEN {default} ELSE Override({default}, given.read),
         write   |-> IF given = None THEN {default} ELSE Override({default}, given.write),
         all     |-> given # None /\ Override(FALSE, given.all)]

\* Config::from_raw refuses anything else, and then no command runs.
Valid(c) ==
    /\ c.default \in Known(c)
    /\ Privacy(c).hookSecretWrites => Privacy(c).secretWrites
    /\ \A s \in Known(c) :
          /\ c.stores[s].root # None
          /\ ~(Privacy(c).refusesCloud /\ IsSecret(c, s) /\ OnCloud(c.stores[s].root))
    /\ \A a \in DOMAIN c.agents :
          {Policy(c, a).default} \cup Policy(c, a).read \cup Policy(c, a).write \subseteq Known(c)

-----------------------------------------------------------------------------
(* The store of a command.                                                 *)

\* Without an identity only the default store may be used, unless the command
\* is one of the local affinity commands (anyStore).
May(c, agent, s, access, anyStore) ==
    IF agent = None THEN anyStore \/ s = c.default
    ELSE Policy(c, agent).all \/ s \in Policy(c, agent)[access]

Preferred(c, call, bound) ==
    IF call.store # None THEN call.store
    ELSE IF call.envStore # None THEN call.envStore
    ELSE IF bound # None THEN bound
    ELSE IF call.agent = None THEN c.default
    ELSE Policy(c, call.agent).default

\* Mutant: a binding is taken for a permission.
ResolveBound(c, call, bound, access, anyStore) ==
    LET s == Preferred(c, call, bound) IN
    IF s \in Known(c) /\ (s = bound \/ May(c, call.agent, s, access, anyStore)) THEN s ELSE None

\* resolve_store_with_policy: a refusal never falls through to another store.
ResolveStore(c, call, bound, access, anyStore) ==
    LET s == Preferred(c, call, bound) IN
    IF s \in Known(c) /\ May(c, call.agent, s, access, anyStore) THEN s ELSE None

=============================================================================
