--------------------------- MODULE RoutingProofs ---------------------------
(***************************************************************************)
(* Proofs about Routing for any layers, callers, requests, projects,       *)
(* stores and processes.                                                   *)
(*                                                                         *)
(* Where a write goes is decided within one command, so AcceptedWithin-    *)
(* Policy needs little more than a valid configuration.  What a reader is  *)
(* shown comes from records, projections, contexts not yet saved and       *)
(* snapshots: RecordsOK, IndexOK and ContextsOK say for whose eyes each of *)
(* them is fit.  StampsOK says how old what a stamp is put on may be, and  *)
(* RenamesOK where a declared rename is to be found.                       *)
(***************************************************************************)
EXTENDS Routing, FiniteSetTheorems, WellFoundedInduction, TLAPS

-----------------------------------------------------------------------------
(* The greatest of some naturals.                                          *)

Less == {ss \in Nat \X Nat : ss[1] < ss[2]}

LEMMA LeastNatural ==
    ASSUME NEW T \in SUBSET Nat, T # {}
    PROVE  \E x \in T : \A y \in T : x <= y
<1>1. IsWellFoundedOn(Less, Nat)
  BY NatLessThanWellFounded DEF OpToRel, Less
<1>2. PICK x \in T : \A y \in T : ~(<<y, x>> \in Less)
  BY <1>1, WFMin, Zenon
<1>3. ASSUME NEW y \in T PROVE x <= y
  <2>1. <<y, x>> \in Nat \X Nat
    OBVIOUS
  <2>2. ~(y < x)
    BY <1>2, <2>1 DEF Less
  <2> QED BY <2>2
<1> QED BY <1>3

LEMMA MaxOfBounded ==
    ASSUME NEW T \in SUBSET Nat, T # {}, NEW bound \in Nat, \A x \in T : x <= bound
    PROVE  Max(T) \in T /\ \A x \in T : x <= Max(T)
<1> DEFINE U == {n \in Nat : \A x \in T : x <= n}
<1>0. U \in SUBSET Nat /\ bound \in U
  OBVIOUS
<1>1. \E m \in U : \A n \in U : m <= n
  <2> HIDE DEF U
  <2> QED BY <1>0, LeastNatural
<1> PICK m \in U : \A n \in U : m <= n
  BY <1>1
<1>2. m \in T
  <2> SUFFICES ASSUME m \notin T PROVE FALSE
    OBVIOUS
  <2>1. \A x \in T : x < m
    OBVIOUS
  <2>2. PICK x \in T : TRUE
    OBVIOUS
  <2>3. m > 0 /\ m - 1 \in Nat
    BY <2>1, <2>2
  <2>4. m - 1 \in U
    BY <2>1, <2>3
  <2> QED BY <2>4, <2>3
<1>3. \E x \in T : \A y \in T : x >= y
  BY <1>2
<1> QED BY <1>3 DEF Max

-----------------------------------------------------------------------------
(* The invariant.                                                          *)

RecordFields == {"id", "writer", "agent", "store", "root", "scope", "kind", "project",
                 "audience", "secret", "private", "retagged"}

\* A private record was given readers, and stays private.
RecordOK(r) ==
    /\ DOMAIN r = RecordFields
    /\ r.private <=> r.scope = "agent-private"
    /\ r.private => r.audience # {}
    /\ None \notin r.audience

LayerOK == layer \in DOMAIN Layers

RecordsOK ==
    /\ \A r \in records \cup pending : RecordOK(r)
    /\ \A r \in pending : r.store # None

\* A queued record has the identity of no other record.
IdsOK ==
    /\ \E n \in Nat : Ids = 1..n
    /\ \A r, q \in pending : r.id = q.id => r = q
    /\ \A r \in pending, q \in records : r.id # q.id

IndexOK ==
    /\ DOMAIN index = Stores \X Roots
    /\ \A at \in Stores \X Roots : index[at] # None =>
           \A r \in index[at].entries : RecordOK(r) /\ r.root = at[2]

\* What may be shown for a key.
FitFor(key, entries) ==
    \A r \in entries : RecordOK(r) /\ r.root = key.root /\ MaySee(r, key.agent)

ContextsOK ==
    /\ DOMAIN assembling = Assemblers
    /\ \A p \in Assemblers : assembling[p] # None =>
           FitFor(assembling[p].key, assembling[p].entries)
    /\ \A key \in DOMAIN cache : FitFor(key, cache[key].entries)

\* A declared rename is in its file, until another one puts it out.
Declares(files, x) ==
    LET file == files[FileName(x.new)] IN
    file # None /\ file.project = x.new /\ x.old \in file.aliases

JobOK(job) ==
    /\ job.root \in Roots /\ job.file \in AliasFile \cup {None}
    /\ \E x \in Renames : job.old = x[1] /\ job.new = x[2]

RenamesOK ==
    /\ aliasFiles \in [Roots -> [Names -> AliasFile \cup {None}]]
    /\ DOMAIN renaming = Renamers
    /\ \A p \in Renamers : renaming[p] # None => JobOK(renaming[p])
    /\ \A x \in renamed : /\ x.root \in Roots /\ FileName(x.new) \in Names
                          /\ Declares(aliasFiles[x.root], x)

IInv == LayerOK /\ RecordsOK /\ IdsOK /\ IndexOK /\ ContextsOK /\ RenamesOK

-----------------------------------------------------------------------------
(* Configurations and stores.                                              *)

LEMMA KnownStores == ASSUME LayerOK PROVE Known(config) \subseteq Stores
<1>1. config = Layered(Base, Layers[layer])
  BY DEF LayerOK, config, Configs
<1>2. DOMAIN config.stores = Stores
  BY <1>1 DEF Layered, OverrideTables, Stores
<1> QED BY <1>2 DEF Known

LEMMA RunsOnKnownRoots ==
    ASSUME LayerOK, Runs, NEW s \in Known(config)
    PROVE  s \in Stores /\ RootOf(s) \in Roots
<1>1. layer \in ValidLayers /\ config = Configs[layer]
  BY DEF Runs, config
<1>2. Configs[layer].stores[s].root \in Roots
  BY <1>1, RoutingAssumption
<1> QED BY <1>1, <1>2, KnownStores DEF RootOf

LEMMA ResolvedStore ==
    ASSUME NEW c, NEW call, NEW bound, NEW access, NEW any,
           ResolveStore(c, call, bound, access, any) # None
    PROVE  /\ ResolveStore(c, call, bound, access, any) \in Known(c)
           /\ May(c, call.agent, ResolveStore(c, call, bound, access, any), access, any)
BY DEF ResolveStore

LEMMA ReadStoreIsKnown ==
    ASSUME NEW c, LayerOK, Runs, ReadStore(c) # None
    PROVE  /\ ReadStore(c) \in Known(config) /\ ReadStore(c) \in Stores
           /\ RootOf(ReadStore(c)) \in Roots
           /\ May(config, c.agent, ReadStore(c), "read", FALSE)
<1>1. /\ ReadStore(c) \in Known(config)
      /\ May(config, c.agent, ReadStore(c), "read", FALSE)
  BY ResolvedStore DEF ReadStore
<1> QED BY <1>1, RunsOnKnownRoots

LEMMA KeyFields ==
    ASSUME NEW c, NEW s
    PROVE  /\ Key(c, s).agent = c.agent /\ Key(c, s).store = s
           /\ Key(c, s).root = RootOf(s) /\ Key(c, s).project = Project(c)
           /\ Key(c, s).scopes = SearchScopes(config)
BY DEF Key

-----------------------------------------------------------------------------
(* Records.                                                                *)

LEMMA NewRecordIsOK ==
    ASSUME NEW c, NEW w \in Requests, NEW s, NEW id,
           WriteScope(c, w) = "agent-private" => Audience(c, w) # {}
    PROVE  RecordOK(Record(c, w, s, id))
<1> PICK r : r = Record(c, w, s, id)
  OBVIOUS
<1>1. /\ DOMAIN r = RecordFields /\ r.audience = Audience(c, w)
      /\ r.scope = WriteScope(c, w) /\ r.private = (WriteScope(c, w) = "agent-private")
  BY DEF Record, RecordFields
<1>2. Writer(c) # None
  BY RoutingAssumption DEF Writer
<1>3. None \notin Audience(c, w)
  BY <1>2, RoutingAssumption DEF Audience
<1> QED BY <1>1, <1>3 DEF RecordOK

\* Whoever may see a private record is among those it was written for.
LEMMA SeenByItsReaders ==
    ASSUME NEW r, NEW viewer, RecordOK(r), MaySee(r, viewer), r.private
    PROVE  viewer \in r.audience
BY DEF RecordOK, MaySee

LEMMA ReadersSee ==
    ASSUME NEW r, NEW viewer, RecordOK(r), r.private => viewer \in r.audience
    PROVE  MaySee(r, viewer)
BY DEF RecordOK, MaySee

-----------------------------------------------------------------------------
(* What a rebuild leaves.                                                  *)

LEMMA RebuiltEntries ==
    ASSUME RecordsOK, IndexOK, NEW S
    PROVE  /\ DOMAIN Rebuilt(S) = Stores \X Roots
           /\ \A at \in Stores \X Roots : Rebuilt(S)[at] # None =>
                  \A r \in Rebuilt(S)[at].entries : RecordOK(r) /\ r.root = at[2]
<1>1. DOMAIN index = Stores \X Roots /\ DOMAIN Rebuilt(S) = DOMAIN index
  BY DEF IndexOK, Rebuilt
<1>2. ASSUME NEW at \in Stores \X Roots, Rebuilt(S)[at] # None,
             NEW r \in Rebuilt(S)[at].entries
      PROVE  RecordOK(r) /\ r.root = at[2]
  <2>1. \/ Rebuilt(S)[at] = index[at]
        \/ Rebuilt(S)[at].entries = Contents(at[2]).entries
    BY <1>1 DEF Rebuilt
  <2>2. CASE Rebuilt(S)[at] = index[at]
    BY <1>2, <2>2 DEF IndexOK
  <2>3. CASE Rebuilt(S)[at].entries = Contents(at[2]).entries
    <3>1. r \in {x \in records : x.root = at[2]}
      BY <1>2, <2>3 DEF Contents
    <3> QED BY <3>1 DEF RecordsOK
  <2> QED BY <2>1, <2>2, <2>3
<1> QED BY <1>1, <1>2

LEMMA RebuildKeepsIndex ==
    ASSUME RecordsOK, IndexOK, NEW S, index' = Rebuilt(S)
    PROVE  IndexOK'
BY RebuiltEntries DEF IndexOK

LEMMA LocalIsFit ==
    ASSUME IndexOK, NEW c, NEW s \in Stores, RootOf(s) \in Roots,
           index[<<s, RootOf(s)>>] # None
    PROVE  FitFor(Key(c, s), LocalContext(Key(c, s)))
<1> DEFINE key == Key(c, s)
           projection == index[<<s, RootOf(s)>>]
<1>1. key.store = s /\ key.root = RootOf(s)
  BY KeyFields
<1>2. \A r \in projection.entries : RecordOK(r) /\ r.root = key.root
  <2>1. <<s, RootOf(s)>> \in Stores \X Roots /\ <<s, RootOf(s)>>[2] = RootOf(s)
    OBVIOUS
  <2> QED BY <1>1, <2>1 DEF IndexOK
<1>3. \A r \in LocalContext(key) : r \in projection.entries /\ MaySee(r, key.agent)
  BY <1>1 DEF LocalContext, Local, InContext
<1> HIDE DEF key, projection
<1> QED BY <1>2, <1>3 DEF FitFor, key

LEMMA CanonicalIsFit ==
    ASSUME RecordsOK, NEW key
    PROVE  FitFor(key, CanonicalContext(key))
BY DEF RecordsOK, FitFor, CanonicalContext, Canonical, InContext

-----------------------------------------------------------------------------
(* Each action.                                                            *)

LEMMA Frame ==
    ASSUME IInv
    PROVE  /\ layer' = layer => LayerOK'
           /\ records' = records /\ pending' = pending => RecordsOK' /\ IdsOK'
           /\ index' = index => IndexOK'
           /\ assembling' = assembling /\ cache' = cache => ContextsOK'
           /\ (aliasFiles' = aliasFiles /\ renaming' = renaming /\ renamed' = renamed)
                  => RenamesOK'
<1>1. layer' = layer => LayerOK'
  BY DEF IInv, LayerOK
<1>2. records' = records /\ pending' = pending => RecordsOK'
  BY DEF IInv, RecordsOK
<1>3. records' = records /\ pending' = pending => IdsOK'
  BY DEF IInv, IdsOK, Ids
<1>4. index' = index => IndexOK'
  BY DEF IInv, IndexOK
<1>5. assembling' = assembling /\ cache' = cache => ContextsOK'
  BY DEF IInv, ContextsOK
<1>6. (aliasFiles' = aliasFiles /\ renaming' = renaming /\ renamed' = renamed) => RenamesOK'
  BY DEF IInv, RenamesOK
<1> QED BY <1>1, <1>2, <1>3, <1>4, <1>5, <1>6

\* Only a new record has a new identity.
LEMMA RememberStep ==
    ASSUME IInv, NEW c \in Callers, NEW w \in Requests, Remember(c, w)
    PROVE  IInv'
<1> PICK s, r : /\ s = ResolveStore(config, c, Bound(c), "write", FALSE) /\ s # None
                /\ r = Record(c, w, s, Cardinality(Ids) + 1)
                /\ WriteScope(c, w) = "agent-private" => Audience(c, w) # {}
                /\ WritesTo(s, r) \/ Enqueues(s, r)
  BY DEF Remember
<1>1. \/ records' = records \cup {r} /\ pending' = pending
      \/ pending' = pending \cup {r} /\ records' = records
  BY DEF WritesTo, Enqueues
<1>2. r.id = Cardinality(Ids) + 1 /\ r.store = s
  BY DEF Record
<1>3. RecordOK(r)
  BY NewRecordIsOK
<1>4. RecordsOK'
  BY <1>1, <1>2, <1>3 DEF IInv, RecordsOK
<1>5. IdsOK'
  <2>1. PICK n \in Nat : Ids = 1..n
    BY DEF IInv, IdsOK
  <2>2. Cardinality(Ids) = n
    BY <2>1, FS_Interval
  <2>3. r.id = n + 1 /\ \A x \in records \cup pending : x.id \in 1..n
    BY <1>2, <2>1, <2>2 DEF Ids
  <2>4. Ids' = Ids \cup {r.id}
    BY <1>1 DEF Ids
  <2>5. Ids' = 1..(n + 1)
    BY <2>1, <2>3, <2>4
  <2>6. \A x \in records \cup pending : x.id # r.id
    <3>1. \A i \in 1..n : i # n + 1
      OBVIOUS
    <3> QED BY <2>3, <3>1
  <2>7. \A x, q \in pending' : x.id = q.id => x = q
    BY <1>1, <2>6 DEF IInv, IdsOK
  <2>8. \A x \in pending', q \in records' : x.id # q.id
    BY <1>1, <2>6 DEF IInv, IdsOK
  <2> QED BY <2>5, <2>7, <2>8 DEF IdsOK
<1>6. /\ layer' = layer /\ index' = index /\ assembling' = assembling /\ cache' = cache
      /\ aliasFiles' = aliasFiles /\ renaming' = renaming /\ renamed' = renamed
  BY DEF Remember
<1> QED BY <1>4, <1>5, <1>6, Frame DEF IInv

LEMMA FlushStep ==
    ASSUME IInv, NEW r \in pending, Flush(r)
    PROVE  IInv'
<1>1. pending' = pending \ {r} /\ records' = records \cup {r}
  BY DEF Flush
<1>2. RecordsOK'
  BY <1>1 DEF IInv, RecordsOK
<1>3. IdsOK'
  <2>1. Ids' = Ids
    BY <1>1 DEF Ids
  <2>2. \A x, q \in pending' : x.id = q.id => x = q
    BY <1>1 DEF IInv, IdsOK
  <2>3. \A x \in pending', q \in records' : x.id # q.id
    BY <1>1 DEF IInv, IdsOK
  <2> QED BY <2>1, <2>2, <2>3 DEF IInv, IdsOK
<1>4. /\ layer' = layer /\ index' = index /\ assembling' = assembling /\ cache' = cache
      /\ aliasFiles' = aliasFiles /\ renaming' = renaming /\ renamed' = renamed
  BY DEF Flush
<1> QED BY <1>2, <1>3, <1>4, Frame DEF IInv

\* What retagging makes of a record.
LEMMA Retagged ==
    ASSUME IInv, NEW c, NEW r \in records, NEW change, Retag(c, r, change)
    PROVE  \E new : /\ records' = (records \ {r}) \cup {new}
                    /\ RecordOK(new) /\ new.id = r.id
<1> DEFINE kind    == IF change.kind = "keep" THEN r.kind ELSE change.kind
           scope   == Override(r.scope, change.scope)
           project == IF change.here THEN Override(r.project, Project(c)) ELSE r.project
           new     == [r EXCEPT !.kind = kind, !.scope = scope, !.project = project,
                                !.retagged = TRUE]
<1>0. /\ "agent-private" \in {r.scope, scope} => scope = r.scope
      /\ records' = (records \ {r}) \cup {new}
  BY DEF Retag
<1> HIDE DEF kind, scope, project
<1>1. RecordOK(r)
  BY DEF IInv, RecordsOK
<1>2. DOMAIN new = DOMAIN r /\ DOMAIN r = RecordFields
  BY <1>1 DEF RecordOK
<1>3. /\ new.id = r.id /\ new.scope = scope
      /\ new.private = r.private /\ new.audience = r.audience
  BY <1>2 DEF RecordFields
<1>4. RecordOK(new)
  BY <1>0, <1>1, <1>2, <1>3 DEF RecordOK
<1> QED BY <1>0, <1>3, <1>4

LEMMA RetagStep ==
    ASSUME IInv, NEW c, NEW r \in records, NEW change, Retag(c, r, change)
    PROVE  IInv'
<1> PICK new : /\ records' = (records \ {r}) \cup {new}
               /\ RecordOK(new) /\ new.id = r.id
  BY Retagged
<1>1. /\ layer' = layer /\ pending' = pending /\ assembling' = assembling /\ cache' = cache
      /\ aliasFiles' = aliasFiles /\ renaming' = renaming /\ renamed' = renamed
  BY DEF Retag
<1>2. RecordsOK'
  BY <1>1 DEF IInv, RecordsOK
<1>3. IdsOK'
  <2>1. Ids' = Ids
    BY <1>1 DEF Ids
  <2>2. \A x \in pending', q \in records' : x.id # q.id
    BY <1>1 DEF IInv, IdsOK
  <2> QED BY <1>1, <2>1, <2>2 DEF IInv, IdsOK
<1>4. IndexOK'
  <2>1. PICK S : index' = Rebuilt(S)
    BY DEF Retag
  <2> QED BY <2>1, RebuildKeepsIndex DEF IInv
<1> QED BY <1>1, <1>2, <1>3, <1>4, Frame DEF IInv

LEMMA RenameLoadStep ==
    ASSUME IInv, NEW p \in Renamers, NEW c, NEW x \in Renames, RenameLoad(p, c, x[1], x[2])
    PROVE  IInv'
<1> PICK s, job :
        /\ s = ResolveStore(config, c, None, "write", FALSE) /\ s # None /\ Runs
        /\ job = [root |-> RootOf(s), old |-> x[1], new |-> x[2],
                  file |-> aliasFiles[RootOf(s)][FileName(x[2])]]
        /\ renaming' = [renaming EXCEPT ![p] = job]
  BY DEF RenameLoad
<1>1. /\ layer' = layer /\ records' = records /\ pending' = pending /\ index' = index
      /\ assembling' = assembling /\ cache' = cache
      /\ aliasFiles' = aliasFiles /\ renamed' = renamed
  BY DEF RenameLoad, disk
<1>2. RootOf(s) \in Roots
  BY ResolvedStore, RunsOnKnownRoots DEF IInv
<1>3. FileName(x[2]) \in Names
  BY DEF Names
<1>4. JobOK(job)
  <2>1. aliasFiles[RootOf(s)][FileName(x[2])] \in AliasFile \cup {None}
    BY <1>2, <1>3 DEF IInv, RenamesOK
  <2> QED BY <1>2, <2>1 DEF JobOK
<1>5. RenamesOK'
  <2>1. DOMAIN renaming' = Renamers
    BY DEF IInv, RenamesOK
  <2>2. \A q \in Renamers : renaming'[q] # None => JobOK(renaming'[q])
    BY <1>4 DEF IInv, RenamesOK
  <2> QED BY <1>1, <2>1, <2>2 DEF IInv, RenamesOK
<1> QED BY <1>1, <1>5, Frame DEF IInv

\* A rename is put out by a save that had not read it, or that is for another
\* project of the same file.
LEMMA RenameSaveStep ==
    ASSUME IInv, NEW p \in Renamers, RenameSave(p)
    PROVE  IInv'
<1> PICK job, dir, new, lost :
        /\ job = renaming[p] /\ job # None /\ dir = FileName(job.new)
        /\ new = WithAlias(job.file, job.old, job.new)
        /\ lost = {x \in renamed : x.root = job.root /\ FileName(x.new) = dir
                       /\ (aliasFiles[job.root][dir] # job.file \/ x.new # job.new)}
        /\ aliasFiles' = [aliasFiles EXCEPT ![job.root][dir] = new]
        /\ renamed' = (renamed \ lost) \cup
                          {[root |-> job.root, old |-> job.old, new |-> job.new]}
        /\ renaming' = [renaming EXCEPT ![p] = None]
  BY DEF RenameSave
<1>1. /\ layer' = layer /\ records' = records /\ pending' = pending /\ index' = index
      /\ assembling' = assembling /\ cache' = cache
  BY DEF RenameSave
<1>2. JobOK(job)
  BY DEF IInv, RenamesOK
<1>3. job.root \in Roots /\ dir \in Names
  BY <1>2 DEF JobOK, Names
<1>4. new \in AliasFile /\ new # None
  <2>1. job.file # None => job.file.aliases \in SUBSET {x[1] : x \in Renames}
    BY <1>2 DEF JobOK, AliasFile
  <2>2. new \in AliasFile
    BY <1>2, <2>1 DEF JobOK, WithAlias, AliasFile
  <2> QED BY <2>2, RoutingAssumption
<1>5. /\ new.project = job.new /\ job.old \in new.aliases
      /\ job.file # None => job.file.aliases \subseteq new.aliases
  BY DEF WithAlias
<1>6. aliasFiles' \in [Roots -> [Names -> AliasFile \cup {None}]]
  BY <1>3, <1>4 DEF IInv, RenamesOK
<1>7. /\ aliasFiles'[job.root][dir] = new
      /\ \A root \in Roots, name \in Names : root # job.root \/ name # dir =>
             aliasFiles'[root][name] = aliasFiles[root][name]
  BY <1>3 DEF IInv, RenamesOK
<1>8. ASSUME NEW x \in renamed'
      PROVE  /\ x.root \in Roots /\ FileName(x.new) \in Names
             /\ Declares(aliasFiles'[x.root], x)
  <2>1. CASE x = [root |-> job.root, old |-> job.old, new |-> job.new]
    BY <1>3, <1>4, <1>5, <1>7, <2>1 DEF Declares
  <2>2. CASE x \in renamed \ lost
    <3>1. x.root \in Roots /\ FileName(x.new) \in Names /\ Declares(aliasFiles[x.root], x)
      BY <2>2 DEF IInv, RenamesOK
    <3>2. CASE x.root # job.root \/ FileName(x.new) # dir
      <4>1. aliasFiles'[x.root][FileName(x.new)] = aliasFiles[x.root][FileName(x.new)]
        BY <1>7, <3>1, <3>2
      <4> QED BY <3>1, <4>1 DEF Declares
    <3>3. CASE x.root = job.root /\ FileName(x.new) = dir
      <4>1. aliasFiles[job.root][dir] = job.file /\ x.new = job.new
        BY <2>2, <3>3
      <4>2. job.file # None /\ x.old \in job.file.aliases
        BY <3>1, <3>3, <4>1 DEF Declares
      <4> QED BY <1>4, <1>5, <1>7, <3>1, <3>3, <4>1, <4>2 DEF Declares
    <3> QED BY <3>2, <3>3
  <2> QED BY <2>1, <2>2
<1>9. RenamesOK'
  <2>1. DOMAIN renaming' = Renamers
    BY DEF IInv, RenamesOK
  <2>2. \A q \in Renamers : renaming'[q] # None => JobOK(renaming'[q])
    BY DEF IInv, RenamesOK
  <2> QED BY <1>6, <1>8, <2>1, <2>2 DEF RenamesOK
<1> QED BY <1>1, <1>9, Frame DEF IInv

LEMMA HookAssembleStep ==
    ASSUME IInv, NEW p \in Assemblers, NEW c, HookAssemble(p, c)
    PROVE  IInv'
<1> PICK s, job :
        /\ s = ReadStore(c) /\ Runs /\ s # None /\ index[<<s, RootOf(s)>>] # None
        /\ job.key = Key(c, s) /\ job.entries = LocalContext(Key(c, s))
        /\ assembling' = [assembling EXCEPT ![p] = job]
  BY DEF HookAssemble, Assembled
<1>1. /\ layer' = layer /\ records' = records /\ pending' = pending /\ index' = index
      /\ cache' = cache /\ aliasFiles' = aliasFiles /\ renaming' = renaming
      /\ renamed' = renamed
  BY DEF HookAssemble, disk
<1>2. FitFor(job.key, job.entries)
  BY ReadStoreIsKnown, LocalIsFit DEF IInv
<1>3. ContextsOK'
  <2>1. /\ DOMAIN assembling' = Assemblers
        /\ \A q \in Assemblers : q # p => assembling'[q] = assembling[q]
        /\ assembling'[p] = job
    BY DEF IInv, ContextsOK
  <2> QED BY <1>1, <1>2, <2>1 DEF IInv, ContextsOK
<1> QED BY <1>1, <1>3, Frame DEF IInv

LEMMA AssembleStep ==
    ASSUME IInv, NEW p \in Assemblers, NEW c, Assemble(p, c)
    PROVE  IInv'
<1> PICK s, job :
        /\ s = ReadStore(c) /\ index' = Rebuilt({s})
        /\ job.key = Key(c, s) /\ job.entries = CanonicalContext(Key(c, s))
        /\ assembling' = [assembling EXCEPT ![p] = job]
  BY DEF Assemble, Assembled
<1>1. /\ layer' = layer /\ records' = records /\ pending' = pending
      /\ cache' = cache /\ aliasFiles' = aliasFiles /\ renaming' = renaming
      /\ renamed' = renamed
  BY DEF Assemble, disk
<1>2. FitFor(job.key, job.entries)
  BY CanonicalIsFit DEF IInv
<1>3. ContextsOK'
  <2>1. /\ DOMAIN assembling' = Assemblers
        /\ \A q \in Assemblers : q # p => assembling'[q] = assembling[q]
        /\ assembling'[p] = job
    BY DEF IInv, ContextsOK
  <2> QED BY <1>1, <1>2, <2>1 DEF IInv, ContextsOK
<1>4. IndexOK'
  BY RebuildKeepsIndex DEF IInv
<1> QED BY <1>1, <1>3, <1>4, Frame DEF IInv

LEMMA SaveSnapshotStep ==
    ASSUME IInv, NEW p \in Assemblers, SaveSnapshot(p)
    PROVE  IInv'
<1> PICK job, snapshot :
        /\ job = assembling[p] /\ job # None /\ snapshot.entries = job.entries
        /\ cache' = [key \in DOMAIN cache \cup {job.key} |->
                         IF key # job.key THEN cache[key] ELSE snapshot]
        /\ assembling' = [assembling EXCEPT ![p] = None]
  BY DEF SaveSnapshot, Snapshot
<1>1. /\ layer' = layer /\ records' = records /\ pending' = pending /\ index' = index
      /\ aliasFiles' = aliasFiles /\ renaming' = renaming /\ renamed' = renamed
  BY DEF SaveSnapshot, disk
<1>2. FitFor(job.key, job.entries)
  BY DEF IInv, ContextsOK
<1>3. ContextsOK'
  <2>1. /\ DOMAIN assembling' = Assemblers
        /\ \A q \in Assemblers : assembling'[q] # None => assembling'[q] = assembling[q]
    BY DEF IInv, ContextsOK
  <2>2. \A key \in DOMAIN cache' : FitFor(key, cache'[key].entries)
    BY <1>2 DEF IInv, ContextsOK
  <2> QED BY <2>1, <2>2 DEF IInv, ContextsOK
<1> QED BY <1>1, <1>3, Frame DEF IInv

LEMMA ExpireStep ==
    ASSUME IInv, NEW key, Expire(key)
    PROVE  IInv'
<1>1. /\ layer' = layer /\ records' = records /\ pending' = pending /\ index' = index
      /\ assembling' = assembling
      /\ aliasFiles' = aliasFiles /\ renaming' = renaming /\ renamed' = renamed
  BY DEF Expire, disk
<1>2. ContextsOK'
  <2>1. \A k \in DOMAIN cache' : k \in DOMAIN cache /\ cache'[k] = cache[k]
    BY DEF Expire
  <2> QED BY <1>1, <2>1 DEF IInv, ContextsOK
<1> QED BY <1>1, <1>2, Frame DEF IInv

\* A refresh, or the projections that "hm get" misses.
LEMMA RebuildStep ==
    ASSUME IInv, NEW S, index' = Rebuilt(S),
           UNCHANGED <<layer, online, disk, cache, assembling, renaming, renamed, spent>>
    PROVE  IInv'
<1>1. /\ layer' = layer /\ records' = records /\ pending' = pending
      /\ assembling' = assembling /\ cache' = cache
      /\ aliasFiles' = aliasFiles /\ renaming' = renaming /\ renamed' = renamed
  BY DEF disk
<1>2. IndexOK'
  BY RebuildKeepsIndex DEF IInv
<1> QED BY <1>1, <1>2, Frame DEF IInv

LEMMA BindStep ==
    ASSUME IInv, NEW c, (\E s : Bind(c, s)) \/ Unbind(c)
    PROVE  IInv'
<1>1. /\ layer' = layer /\ records' = records /\ pending' = pending /\ index' = index
      /\ assembling' = assembling /\ cache' = cache
      /\ aliasFiles' = aliasFiles /\ renaming' = renaming /\ renamed' = renamed
  BY DEF Bind, Unbind
<1> QED BY <1>1, Frame DEF IInv

LEMMA WorldStep ==
    ASSUME IInv,
           \/ \E l \in DOMAIN Layers : EditConfig(l)
           \/ \E m \in Moves : Move(m[1], m[2])
           \/ \E root \in Roots : Attach(root)
    PROVE  IInv'
<1>1. /\ records' = records /\ pending' = pending /\ index' = index
      /\ assembling' = assembling /\ cache' = cache
      /\ aliasFiles' = aliasFiles /\ renaming' = renaming /\ renamed' = renamed
  BY DEF EditConfig, Move, Attach, disk
<1>2. LayerOK'
  BY DEF IInv, LayerOK, EditConfig, Move, Attach
<1> QED BY <1>1, <1>2, Frame DEF IInv

-----------------------------------------------------------------------------
(* The invariant holds.                                                    *)

LEMMA InitOK == Init => IInv
<1> SUFFICES ASSUME Init PROVE IInv
  OBVIOUS
<1>1. LayerOK /\ RecordsOK
  BY RoutingAssumption DEF Init, LayerOK, RecordsOK
<1>2. IdsOK
  <2>1. Ids = 1..0
    BY DEF Init, Ids
  <2> QED BY <2>1 DEF Init, IdsOK
<1>3. IndexOK
  BY DEF Init, IndexOK
<1>4. ContextsOK
  BY DEF Init, ContextsOK
<1>5. RenamesOK
  BY DEF Init, RenamesOK
<1> QED BY <1>1, <1>2, <1>3, <1>4, <1>5 DEF IInv

LEMMA NextOK == IInv /\ [Next]_vars => IInv'
<1> SUFFICES ASSUME IInv, [Next]_vars PROVE IInv'
  OBVIOUS
<1>1. CASE UNCHANGED vars
  BY <1>1, Frame DEF IInv, vars
<1>2. ASSUME NEW c \in Callers, NEW w \in Requests, Remember(c, w) PROVE IInv'
  BY <1>2, RememberStep
<1>3. ASSUME NEW c \in Callers, NEW r \in records, NEW change \in Changes, Retag(c, r, change)
      PROVE  IInv'
  BY <1>3, RetagStep
<1>4. ASSUME NEW c \in Callers, (\E s \in Stores : Bind(c, s)) \/ Unbind(c) PROVE IInv'
  BY <1>4, BindStep
<1>5. ASSUME NEW c \in Callers, NEW p \in Renamers, NEW x \in Renames,
             RenameLoad(p, c, x[1], x[2])
      PROVE  IInv'
  BY <1>5, RenameLoadStep
<1>6. ASSUME NEW c \in Callers, NEW p \in Assemblers, HookAssemble(p, c) PROVE IInv'
  BY <1>6, HookAssembleStep
<1>7. ASSUME NEW c \in Callers, NEW p \in Assemblers, Assemble(p, c) PROVE IInv'
  BY <1>7, AssembleStep
<1>8. ASSUME NEW c \in Callers, NEW id \in Ids, Get(c, id) PROVE IInv'
  BY <1>8, RebuildStep DEF Get
<1>9. ASSUME NEW r \in pending, Flush(r) PROVE IInv'
  BY <1>9, FlushStep
<1>10. ASSUME NEW p \in Renamers, RenameSave(p) PROVE IInv'
  BY <1>10, RenameSaveStep
<1>11. ASSUME NEW p \in Assemblers, SaveSnapshot(p) PROVE IInv'
  BY <1>11, SaveSnapshotStep
<1>12. ASSUME NEW key \in DOMAIN cache, Expire(key) PROVE IInv'
  BY <1>12, ExpireStep
<1>13. ASSUME NEW s \in Stores, Refresh(s) PROVE IInv'
  BY <1>13, RebuildStep DEF Refresh
<1>14. CASE \/ \E l \in DOMAIN Layers : EditConfig(l)
            \/ \E m \in Moves : Move(m[1], m[2])
            \/ \E root \in Roots : Attach(root)
  BY <1>14, WorldStep
<1> QED BY <1>1, <1>2, <1>3, <1>4, <1>5, <1>6, <1>7, <1>8, <1>9, <1>10, <1>11, <1>12,
           <1>13, <1>14 DEF Next

LEMMA Invariance == Spec => []IInv
BY InitOK, NextOK, PTL DEF Spec

-----------------------------------------------------------------------------
(* Writes.                                                                 *)

LEMMA RememberedWithinPolicy ==
    ASSUME NEW c \in Callers, NEW w \in Requests, Remember(c, w),
           NEW r \in records' \cup pending', r \notin records \cup pending
    PROVE  Admitted(r)
<1> PICK s : /\ Runs /\ s = ResolveStore(config, c, Bound(c), "write", FALSE) /\ s # None
             /\ SecretAllowed(c, w, s)
             /\ r = Record(c, w, s, Cardinality(Ids) + 1)
  BY DEF Remember, WritesTo, Enqueues
<1>1. s \in Known(config) /\ May(config, c.agent, s, "write", FALSE)
  BY ResolvedStore
<1>2. /\ r.agent = c.agent /\ r.store = s /\ r.root = RootOf(s) /\ r.secret = w.secret
  BY DEF Record
<1>3. Valid(config)
  BY DEF Runs, ValidLayers, config
<1>4. ASSUME w.secret
      PROVE  /\ IsSecret(config, s) /\ Privacy(config).secretWrites
             /\ OnCloud(RootOf(s)) => ~Privacy(config).refusesCloud
  <2>1. IsSecret(config, s) /\ Privacy(config).secretWrites
    BY <1>4 DEF SecretAllowed
  <2>2. ~(Privacy(config).refusesCloud /\ IsSecret(config, s) /\ OnCloud(RootOf(s)))
    BY <1>1, <1>3 DEF Valid, RootOf
  <2> QED BY <2>1, <2>2
<1> QED BY <1>1, <1>2, <1>4 DEF Admitted

LEMMA OnlyRememberAdds ==
    ASSUME IInv, [Next]_vars, NEW r \in records' \cup pending', r.id \notin Ids
    PROVE  \E c \in Callers, w \in Requests : Remember(c, w)
<1>1. \A x \in records \cup pending : x.id \in Ids
  BY DEF Ids
<1>2. ~(records' = records /\ pending' = pending)
  BY <1>1
<1>3. ASSUME NEW c, NEW q \in records, NEW change, Retag(c, q, change) PROVE FALSE
  <2> PICK new : records' = (records \ {q}) \cup {new} /\ new.id = q.id
    BY <1>3, Retagged
  <2>1. pending' = pending
    BY <1>3 DEF Retag
  <2> QED BY <1>1, <2>1
<1>4. ASSUME NEW q \in pending, Flush(q) PROVE FALSE
  BY <1>1, <1>4 DEF Flush
<1>5. ~UNCHANGED vars
  BY <1>2 DEF vars
<1>6. ASSUME NEW c, (\E s : Bind(c, s)) \/ Unbind(c) PROVE FALSE
  BY <1>2, <1>6 DEF Bind, Unbind
<1>7. ASSUME NEW c, NEW p, NEW old, NEW new, RenameLoad(p, c, old, new) PROVE FALSE
  BY <1>2, <1>7 DEF RenameLoad, disk
<1>8. ASSUME NEW c, NEW p, HookAssemble(p, c) \/ Assemble(p, c) PROVE FALSE
  BY <1>2, <1>8 DEF HookAssemble, Assemble, disk
<1>9. ASSUME NEW c, NEW id, Get(c, id) PROVE FALSE
  BY <1>2, <1>9 DEF Get, disk
<1>10. ASSUME NEW p, RenameSave(p) \/ SaveSnapshot(p) PROVE FALSE
  BY <1>2, <1>10 DEF RenameSave, SaveSnapshot, disk
<1>11. ASSUME NEW key, Expire(key) PROVE FALSE
  BY <1>2, <1>11 DEF Expire, disk
<1>12. ASSUME NEW s, Refresh(s) PROVE FALSE
  BY <1>2, <1>12 DEF Refresh, disk
<1>13. ~(\/ \E l \in DOMAIN Layers : EditConfig(l)
         \/ \E m \in Moves : Move(m[1], m[2])
         \/ \E root \in Roots : Attach(root))
  BY <1>2 DEF EditConfig, Move, Attach, disk
<1> QED BY <1>3, <1>4, <1>5, <1>6, <1>7, <1>8, <1>9, <1>10, <1>11, <1>12, <1>13 DEF Next

\* Whatever bindings, environment, inference or hints choose the store of a new
\* record (cli/common.rs, main.rs: run_write_memory), it is one that the policy
\* lets its writer write, and a secret lies only in a store for secrets.
THEOREM WritesWithinPolicy == Spec => AcceptedWithinPolicy
<1>1. ASSUME IInv, [Next]_vars
      PROVE  \A r \in records' \cup pending' : r.id \notin Ids => Admitted(r)
  <2> SUFFICES ASSUME NEW r \in records' \cup pending', r.id \notin Ids PROVE Admitted(r)
    OBVIOUS
  <2>1. PICK c \in Callers, w \in Requests : Remember(c, w)
    BY <1>1, OnlyRememberAdds
  <2>2. r \notin records \cup pending
    BY DEF Ids
  <2> QED BY <2>1, <2>2, RememberedWithinPolicy
<1>2. IInv /\ [Next]_vars =>
          [\A r \in records' \cup pending' : r.id \notin Ids => Admitted(r)]_vars
  BY <1>1
<1> QED BY <1>2, Invariance, PTL DEF Spec, AcceptedWithinPolicy

-----------------------------------------------------------------------------
(* Answers.                                                                *)

LEMMA Permits ==
    ASSUME NEW c, NEW r, NEW s \in Known(config), May(config, c.agent, s, "read", FALSE),
           RootOf(s) = r.root \/ (r \in pending /\ r.store = s),
           RecordOK(r), MaySee(r, c.agent)
    PROVE  Permitted(c, r)
BY SeenByItsReaders DEF Permitted

LEMMA HookAnswer ==
    ASSUME IInv, NEW c, Runs, NEW r \in HookContext(c)
    PROVE  Permitted(c, r)
<1> PICK s : s = ReadStore(c)
  OBVIOUS
<1>1. s # None /\ index[<<s, RootOf(s)>>] # None
  BY DEF HookContext
<1>2. /\ s \in Known(config) /\ s \in Stores /\ RootOf(s) \in Roots
      /\ May(config, c.agent, s, "read", FALSE)
  BY <1>1, ReadStoreIsKnown DEF IInv
<1>3. \/ Key(c, s) \in DOMAIN cache /\ r \in cache[Key(c, s)].entries
      \/ r \in LocalContext(Key(c, s))
  BY <1>1 DEF HookContext, Covers
<1>4. FitFor(Key(c, s), LocalContext(Key(c, s)))
  BY <1>1, <1>2, LocalIsFit DEF IInv
<1>5. Key(c, s) \in DOMAIN cache => FitFor(Key(c, s), cache[Key(c, s)].entries)
  BY DEF IInv, ContextsOK
<1>6. RecordOK(r) /\ r.root = RootOf(s) /\ MaySee(r, c.agent)
  BY <1>3, <1>4, <1>5, KeyFields DEF FitFor
<1> QED BY <1>2, <1>6, Permits

LEMMA SearchesPermitted ==
    ASSUME IInv, NEW c, Runs, NEW r \in SearchAnswer(c)
    PROVE  Permitted(c, r)
<1> PICK s : s = SearchStore(c)
  OBVIOUS
<1>1. s # None
  BY DEF SearchAnswer
<1>2. s \in Known(config) /\ May(config, c.agent, s, "read", FALSE)
  BY <1>1, ResolvedStore DEF SearchStore
<1>3. /\ MaySee(r, c.agent)
      /\ \/ r \in records /\ r.root = RootOf(s)
         \/ r \in pending /\ r.store = s
  BY <1>1 DEF SearchAnswer, Supplement, Waiting
<1>4. RecordOK(r)
  BY <1>3 DEF IInv, RecordsOK
<1> QED BY <1>2, <1>3, <1>4, Permits

LEMMA GetsPermitted ==
    ASSUME IInv, NEW c, Runs, NEW id, NEW r \in GetAnswer(c, id)
    PROVE  Permitted(c, r)
<1>1. ReadStore(c) # None /\ MaySee(r, c.agent)
  BY DEF GetAnswer
<1>2. PICK s \in Visited(c, id) : r \in Look(s)
  BY <1>1 DEF GetAnswer
<1>3. s \in Known(config) /\ May(config, c.agent, s, "read", FALSE)
  BY <1>1, <1>2, ReadStoreIsKnown DEF Visited, Others, IInv
<1>4. s \in Stores /\ RootOf(s) \in Roots
  BY <1>3, RunsOnKnownRoots DEF IInv
<1>5. RecordOK(r) /\ r.root = RootOf(s)
  <2>1. CASE index[<<s, RootOf(s)>>] # None
    <3>1. r \in index[<<s, RootOf(s)>>].entries
      BY <1>2, <2>1 DEF Look
    <3>2. <<s, RootOf(s)>> \in Stores \X Roots /\ <<s, RootOf(s)>>[2] = RootOf(s)
      BY <1>4
    <3> QED BY <2>1, <3>1, <3>2 DEF IInv, IndexOK
  <2>2. CASE index[<<s, RootOf(s)>>] = None
    BY <1>2, <2>2 DEF Look, IInv, RecordsOK
  <2> QED BY <2>1, <2>2
<1> QED BY <1>1, <1>3, <1>5, Permits

\* Contexts of hooks, replayed ones included, searches and gets stay within the
\* policy of this moment, and private records with their readers
\* (cli/context.rs, cli/get.rs, cli/search.rs, visibility.rs).
THEOREM AnswersPermitted == Spec => []AnswersArePermitted
<1>1. IInv => AnswersArePermitted
  BY HookAnswer, SearchesPermitted, GetsPermitted DEF AnswersArePermitted
<1> QED BY <1>1, Invariance, PTL

-----------------------------------------------------------------------------
(* What was remembered is found.                                           *)

\* The file that declares a rename mentions both of its ids.
LEMMA MentionsBoth ==
    ASSUME IInv, NEW x \in renamed
    PROVE  LET files == aliasFiles[x.root]
               dir == FileName(x.new)
           IN  dir \in AliasDirs(files) /\ {x.old, x.new} \subseteq Mentions(files, dir)
<1> PICK files, dir : files = aliasFiles[x.root] /\ dir = FileName(x.new)
  OBVIOUS
<1>1. x.root \in Roots /\ dir \in Names /\ Declares(files, x)
  BY DEF IInv, RenamesOK
<1>2. DOMAIN files = Names
  BY <1>1 DEF IInv, RenamesOK
<1> QED BY <1>1, <1>2 DEF Declares, AliasDirs, Mentions

LEMMA SameProjectIsRelated ==
    ASSUME IInv, NEW r, NEW id, SameProject(r, id), {r.project, id} \subseteq Safe
    PROVE  /\ r.project \in Related(aliasFiles[r.root], id)
           /\ r.project \in Family(aliasFiles[r.root], id)
<1> PICK files : files = aliasFiles[r.root]
  OBVIOUS
<1>1. CASE r.project = id
  BY <1>1 DEF Related, SafeOnly, Family
<1>2. CASE r.project # id
  <2>1. PICK x \in renamed : x.root = r.root /\ {x.old, x.new} = {r.project, id}
    BY <1>2 DEF SameProject
  <2>2. PICK dir : dir \in AliasDirs(files) /\ {r.project, id} \subseteq Mentions(files, dir)
    BY <2>1, MentionsBoth
  <2>3. r.project \in Related(files, id)
    BY <2>2 DEF Related, SafeOnly
  <2>4. ASSUME NEW ids \in SUBSET Safe, id \in ids, Closed(files, ids)
        PROVE  r.project \in ids
    <3>1. id \in SafeOnly(Mentions(files, dir)) /\ r.project \in SafeOnly(Mentions(files, dir))
      BY <2>2 DEF SafeOnly
    <3> QED BY <2>2, <2>4, <3>1 DEF Closed
  <2> QED BY <2>3, <2>4 DEF Family
<1> QED BY <1>1, <1>2

LEMMA StoredIsFound ==
    ASSUME IInv, NEW c, Runs, NEW r \in records, Expected(r, c)
    PROVE  LET key == Key(c, ReadStore(c)) IN
           /\ r \in CanonicalContext(key)
           /\ IsFresh(ReadStore(c), r.root) => r \in LocalContext(key)
<1> PICK s, key : s = ReadStore(c) /\ key = Key(c, s)
  OBVIOUS
<1>1. /\ s # None /\ RootOf(s) = r.root /\ Own(r, c)
  BY DEF Expected
<1>2. /\ key.agent = c.agent /\ key.root = r.root /\ key.store = s
      /\ key.scopes = SearchScopes(config) /\ key.project = Project(c)
  BY <1>1, KeyFields
<1>3. r.scope \in key.scopes /\ MaySee(r, key.agent)
  BY <1>1, <1>2, ReadersSee DEF Own, IInv, RecordsOK
<1>4. r.scope = "project" => /\ key.project # None
                             /\ r.project \in Related(aliasFiles[r.root], key.project)
                             /\ r.project \in Family(aliasFiles[r.root], key.project)
  BY <1>2, SameProjectIsRelated, RoutingAssumption DEF Expected
<1>5. r \in CanonicalContext(key)
  BY <1>2, <1>3, <1>4 DEF CanonicalContext, Canonical, InContext
<1>6. ASSUME IsFresh(s, r.root) PROVE r \in LocalContext(key)
  <2> PICK projection : projection = index[<<s, r.root>>]
    OBVIOUS
  <2>1. r \in projection.entries /\ projection.files = aliasFiles[r.root]
    BY <1>6 DEF IsFresh, Contents
  <2> QED BY <1>2, <1>3, <1>4, <2>1 DEF LocalContext, Local, InContext
<1> QED BY <1>5, <1>6

LEMMA QueuedIsFound ==
    ASSUME IInv, NEW c, NEW r \in pending, Own(r, c), SearchStore(c) = r.store
    PROVE  r \in SearchAnswer(c)
<1>1. r.store # None /\ RecordOK(r)
  BY DEF IInv, RecordsOK
<1>2. r \in Supplement(r.store)
  BY DEF Supplement, Waiting, IInv, IdsOK
<1>3. r.scope \in SearchScopes(config) /\ MaySee(r, c.agent)
  BY <1>1, ReadersSee DEF Own
<1> QED BY <1>1, <1>2, <1>3 DEF SearchAnswer

\* After a rename the prior and the new id lead to the same records, from the
\* alias files and from the projection (project.rs: related_project_ids,
\* alias_normalization_map), and what is queued is found by a search.
THEOREM RememberedFound == Spec => []RememberedIsFound
<1>1. ASSUME IInv PROVE RememberedIsFound
  <2> SUFFICES ASSUME NEW c \in Callers, Runs
               PROVE  LET s == ReadStore(c) IN
                      /\ \A r \in {x \in records : Expected(x, c)} :
                            /\ r \in CanonicalContext(Key(c, s))
                            /\ IsFresh(s, r.root) => r \in LocalContext(Key(c, s))
                      /\ \A r \in {x \in pending : Own(x, c) /\ SearchStore(c) = x.store} :
                            r \in SearchAnswer(c)
    BY DEF RememberedIsFound
  <2> QED BY <1>1, StoredIsFound, QueuedIsFound
<1>2. IInv => RememberedIsFound
  BY <1>1
<1> QED BY <1>2, Invariance, PTL

-----------------------------------------------------------------------------
(* Generations and stamps.                                                 *)

\* A store without a projection is told from one with any projection.
NoneIsNoProjection ==
    \A g, entries, files :
        None # [generation |-> g, entries |-> entries, files |-> files]

GenerationsOK ==
    \A at \in Stores \X Roots : index[at] # None => index[at].generation \in 1..MaxGenerations

PlaceOf(key) == <<key.store, key.root>>

Says(projection, key) == {Local(projection.entries, projection.files, key),
                          Canonical(projection.entries, projection.files, key)}

\* What was made of the generation that the projection has says what it says.
MadeOf(of, entries, projection, key) ==
    /\ projection # None /\ of \in Nat /\ of <= projection.generation
    /\ of = projection.generation => entries \in Says(projection, key)

JobStamped(job) ==
    /\ job.at = PlaceOf(job.key) /\ job.at \in Stores \X Roots
    /\ MadeOf(job.of, job.entries, index[job.at], job.key)

\* The stamp of a snapshot lies between what it was made of and the projection.
SnapshotStamped(key, snapshot) ==
    /\ PlaceOf(key) \in Stores \X Roots
    /\ MadeOf(snapshot.of, snapshot.entries, index[PlaceOf(key)], key)
    /\ snapshot.generation \in Nat /\ snapshot.of <= snapshot.generation
    /\ snapshot.generation <= index[PlaceOf(key)].generation

StampsOK ==
    /\ GenerationsOK
    /\ \A p \in Assemblers : assembling[p] # None => JobStamped(assembling[p])
    /\ \A key \in DOMAIN cache : SnapshotStamped(key, cache[key])

\* A projection is kept, or replaced by one with a greater generation.
Supersedes(new, old) ==
    /\ new # None /\ new.generation \in 1..MaxGenerations
    /\ old # None => old.generation < new.generation

IndexGrows ==
    \A at \in Stores \X Roots : index'[at] = index[at] \/ Supersedes(index'[at], index[at])

LEMMA NextGenerationIsNew ==
    ASSUME IndexOK, GenerationsOK
    PROVE  /\ NextGeneration \in Nat \ {0}
           /\ \A at \in Stores \X Roots : index[at] # None =>
                  index[at].generation < NextGeneration
<1> DEFINE T == {0} \cup Published
<1>1. \A g \in Published : g \in 1..MaxGenerations
  BY DEF Published, GenerationsOK, IndexOK
<1>2. T \in SUBSET Nat /\ T # {} /\ MaxGenerations \in Nat /\ \A g \in T : g <= MaxGenerations
  BY <1>1, RoutingAssumption
<1>3. Max(T) \in T /\ \A g \in T : g <= Max(T)
  <2> HIDE DEF T
  <2> QED BY <1>2, MaxOfBounded
<1>4. \A at \in Stores \X Roots : index[at] # None => index[at].generation \in T
  BY DEF Published, IndexOK
<1>5. NextGeneration = Max(T) + 1
  BY DEF NextGeneration
<1> HIDE DEF T
<1>6. NextGeneration \in Nat \ {0} /\ \A g \in T : g < NextGeneration
  <2> PICK m : m = Max(T)
    OBVIOUS
  <2>1. m \in Nat /\ NextGeneration = m + 1 /\ \A g \in T : g \in Nat /\ g <= m
    BY <1>2, <1>3, <1>5
  <2> QED BY <2>1
<1> QED BY <1>4, <1>6

LEMMA RebuildGrows ==
    ASSUME NoneIsNoProjection, IndexOK, GenerationsOK,
           NEW S, CanRebuild(S), index' = Rebuilt(S)
    PROVE  IndexGrows
<1> SUFFICES ASSUME NEW at \in Stores \X Roots, index'[at] # index[at]
             PROVE  Supersedes(index'[at], index[at])
  BY DEF IndexGrows
<1>1. at \in DOMAIN index
  BY DEF IndexOK
<1>2. PICK s \in S : at = <<s, RootOf(s)>> /\ ~IsFresh(s, RootOf(s))
  BY <1>1 DEF Rebuilt
<1>3. NextGeneration <= MaxGenerations
  BY <1>2 DEF CanRebuild
<1>4. index'[at] = [generation |-> NextGeneration,
                    entries |-> Contents(at[2]).entries, files |-> Contents(at[2]).files]
  BY <1>1 DEF Rebuilt
<1>5. index'[at] # None /\ index'[at].generation = NextGeneration
  BY <1>4 DEF NoneIsNoProjection
<1>6. /\ NextGeneration \in 1..MaxGenerations
      /\ index[at] # None => index[at].generation < NextGeneration
  BY <1>3, NextGenerationIsNew, RoutingAssumption
<1> QED BY <1>5, <1>6 DEF Supersedes

\* A rebuild that is done leaves what the store says.
LEMMA RebuiltSaysContents ==
    ASSUME IndexOK, NEW s, <<s, RootOf(s)>> \in Stores \X Roots, RootOf(s) \in online,
           index' = Rebuilt({s})
    PROVE  LET projection == index'[<<s, RootOf(s)>>] IN
           /\ projection.entries = {r \in records : r.root = RootOf(s)}
           /\ projection.files = aliasFiles[RootOf(s)]
<1> PICK at, projection : at = <<s, RootOf(s)>> /\ projection = index'[at]
  OBVIOUS
<1>1. at \in DOMAIN index /\ at[1] = s /\ at[2] = RootOf(s)
  BY DEF IndexOK
<1>2. CASE IsFresh(s, RootOf(s))
  <2>1. projection = index[at]
    BY <1>1, <1>2 DEF Rebuilt
  <2>2. Contents(RootOf(s)) = [entries |-> projection.entries, files |-> projection.files]
    BY <1>2, <2>1 DEF IsFresh
  <2> QED BY <2>2 DEF Contents
<1>3. CASE ~IsFresh(s, RootOf(s))
  <2>1. projection = [generation |-> NextGeneration, entries |-> Contents(RootOf(s)).entries,
                      files |-> Contents(RootOf(s)).files]
    BY <1>1, <1>3 DEF Rebuilt
  <2> QED BY <2>1 DEF Contents
<1> QED BY <1>2, <1>3

LEMMA MadeOfKept ==
    ASSUME NEW of, NEW entries, NEW old, NEW new, NEW key,
           MadeOf(of, entries, old, key), old.generation \in 1..MaxGenerations,
           new = old \/ Supersedes(new, old)
    PROVE  MadeOf(of, entries, new, key) /\ old.generation <= new.generation
BY RoutingAssumption DEF MadeOf, Supersedes

LEMMA StampsKept ==
    ASSUME StampsOK, IndexGrows
    PROVE  /\ GenerationsOK'
           /\ \A p \in Assemblers : assembling[p] # None =>
                  LET job == assembling[p] IN
                  /\ job.at = PlaceOf(job.key) /\ job.at \in Stores \X Roots
                  /\ MadeOf(job.of, job.entries, index'[job.at], job.key)
           /\ \A key \in DOMAIN cache :
                  /\ PlaceOf(key) \in Stores \X Roots
                  /\ MadeOf(cache[key].of, cache[key].entries, index'[PlaceOf(key)], key)
                  /\ cache[key].generation \in Nat /\ cache[key].of <= cache[key].generation
                  /\ cache[key].generation <= index'[PlaceOf(key)].generation
<1>1. GenerationsOK'
  BY DEF StampsOK, GenerationsOK, IndexGrows, Supersedes
<1>2. ASSUME NEW p \in Assemblers, assembling[p] # None
      PROVE  LET job == assembling[p] IN
             /\ job.at = PlaceOf(job.key) /\ job.at \in Stores \X Roots
             /\ MadeOf(job.of, job.entries, index'[job.at], job.key)
  <2> PICK job : job = assembling[p]
    OBVIOUS
  <2>1. JobStamped(job)
    BY <1>2 DEF StampsOK
  <2>2. index[job.at].generation \in 1..MaxGenerations
    BY <2>1 DEF JobStamped, MadeOf, StampsOK, GenerationsOK
  <2>3. index'[job.at] = index[job.at] \/ Supersedes(index'[job.at], index[job.at])
    BY <2>1 DEF JobStamped, IndexGrows
  <2>4. MadeOf(job.of, job.entries, index'[job.at], job.key)
    BY <2>1, <2>2, <2>3, MadeOfKept DEF JobStamped
  <2> QED BY <2>1, <2>4 DEF JobStamped
<1>3. ASSUME NEW key \in DOMAIN cache
      PROVE  /\ PlaceOf(key) \in Stores \X Roots
             /\ MadeOf(cache[key].of, cache[key].entries, index'[PlaceOf(key)], key)
             /\ cache[key].generation \in Nat /\ cache[key].of <= cache[key].generation
             /\ cache[key].generation <= index'[PlaceOf(key)].generation
  <2> PICK at, snapshot : at = PlaceOf(key) /\ snapshot = cache[key]
    OBVIOUS
  <2>1. SnapshotStamped(key, snapshot)
    BY DEF StampsOK
  <2>2. at \in Stores \X Roots /\ MadeOf(snapshot.of, snapshot.entries, index[at], key)
    BY <2>1 DEF SnapshotStamped
  <2>3. index[at].generation \in 1..MaxGenerations
    BY <2>2 DEF MadeOf, StampsOK, GenerationsOK
  <2>4. index'[at] = index[at] \/ Supersedes(index'[at], index[at])
    BY <2>2 DEF IndexGrows
  <2>5. /\ MadeOf(snapshot.of, snapshot.entries, index'[at], key)
        /\ index[at].generation <= index'[at].generation
    BY <2>2, <2>3, <2>4, MadeOfKept
  <2>6. /\ snapshot.generation \in Nat /\ snapshot.of <= snapshot.generation
        /\ snapshot.generation <= index[at].generation
    BY <2>1 DEF SnapshotStamped
  <2>7. index'[at].generation \in 1..MaxGenerations
    BY <2>2, <2>3, <2>4 DEF Supersedes
  <2> QED BY <2>2, <2>3, <2>5, <2>6, <2>7, RoutingAssumption
<1> QED BY <1>1, <1>2, <1>3

LEMMA StampsFrame ==
    ASSUME StampsOK, IndexGrows, assembling' = assembling,
           \A key \in DOMAIN cache' : key \in DOMAIN cache /\ cache'[key] = cache[key]
    PROVE  StampsOK'
<1>1. (\A p \in Assemblers : assembling[p] # None => JobStamped(assembling[p]))'
  BY StampsKept DEF JobStamped
<1>2. (\A key \in DOMAIN cache : SnapshotStamped(key, cache[key]))'
  BY StampsKept DEF SnapshotStamped
<1> QED BY <1>1, <1>2, StampsKept DEF StampsOK

\* A context is assembled: of the projection that is there, or of a new one.
LEMMA StampsAssembled ==
    ASSUME StampsOK, IndexGrows, IInv, NEW p \in Assemblers, NEW job,
           assembling' = [assembling EXCEPT ![p] = job], cache' = cache,
           job.at = PlaceOf(job.key), job.at \in Stores \X Roots,
           MadeOf(job.of, job.entries, index'[job.at], job.key)
    PROVE  StampsOK'
<1>1. /\ \A q \in Assemblers : q # p => assembling'[q] = assembling[q]
      /\ assembling'[p] = job
  BY DEF IInv, ContextsOK
<1>2. (\A q \in Assemblers : assembling[q] # None => JobStamped(assembling[q]))'
  BY <1>1, StampsKept DEF JobStamped
<1>3. (\A key \in DOMAIN cache : SnapshotStamped(key, cache[key]))'
  BY StampsKept DEF SnapshotStamped
<1> QED BY <1>2, <1>3, StampsKept DEF StampsOK

LEMMA StampsHookAssemble ==
    ASSUME StampsOK, IInv, NEW p \in Assemblers, NEW c, HookAssemble(p, c)
    PROVE  StampsOK'
<1> PICK s, key, projection, job :
        /\ s = ReadStore(c) /\ Runs /\ s # None
        /\ key = Key(c, s) /\ projection = index[<<s, RootOf(s)>>] /\ projection # None
        /\ job = Assembled(c, s, projection.generation, LocalContext(key))
        /\ assembling' = [assembling EXCEPT ![p] = job]
  BY DEF HookAssemble
<1>1. index' = index /\ cache' = cache
  BY DEF HookAssemble
<1>2. key.store = s /\ key.root = RootOf(s)
  BY KeyFields
<1>3. /\ job.key = key /\ job.at = <<s, RootOf(s)>> /\ job.of = projection.generation
      /\ job.entries = LocalContext(key)
  BY DEF Assembled
<1>4. job.at = PlaceOf(job.key) /\ job.at \in Stores \X Roots
  <2>1. s \in Stores /\ RootOf(s) \in Roots
    BY ReadStoreIsKnown DEF IInv
  <2>2. job.key.store = s /\ job.key.root = RootOf(s)
    BY <1>2, <1>3
  <2>3. PlaceOf(job.key) = <<s, RootOf(s)>>
    BY <2>2, Zenon DEF PlaceOf
  <2>4. <<s, RootOf(s)>> \in Stores \X Roots
    BY <2>1
  <2> QED BY <1>3, <2>3, <2>4, Zenon
<1>5. projection.generation \in Nat
  BY <1>3, <1>4, RoutingAssumption DEF StampsOK, GenerationsOK
<1>6. LocalContext(key) \in Says(projection, key)
  BY <1>2 DEF LocalContext, Says
<1>7. MadeOf(job.of, job.entries, index'[job.at], job.key)
  BY <1>1, <1>3, <1>5, <1>6 DEF MadeOf
<1>8. IndexGrows
  BY <1>1 DEF IndexGrows
<1> QED BY <1>1, <1>4, <1>7, <1>8, StampsAssembled

LEMMA StampsAssemble ==
    ASSUME NoneIsNoProjection, StampsOK, IInv, NEW p \in Assemblers, NEW c, Assemble(p, c)
    PROVE  StampsOK'
<1> PICK s, key, projection, job :
        /\ s = ReadStore(c) /\ Runs /\ s # None /\ RootOf(s) \in online
        /\ CanRebuild({s}) /\ index' = Rebuilt({s})
        /\ key = Key(c, s) /\ projection = index'[<<s, RootOf(s)>>]
        /\ job = Assembled(c, s, projection.generation, CanonicalContext(key))
        /\ assembling' = [assembling EXCEPT ![p] = job]
  BY DEF Assemble
<1>1. cache' = cache
  BY DEF Assemble
<1>2. key.store = s /\ key.root = RootOf(s)
  BY KeyFields
<1>3. /\ job.key = key /\ job.at = <<s, RootOf(s)>> /\ job.of = projection.generation
      /\ job.entries = CanonicalContext(key)
  BY DEF Assembled
<1>4. job.at = PlaceOf(job.key) /\ job.at \in Stores \X Roots
  <2>1. s \in Stores /\ RootOf(s) \in Roots
    BY ReadStoreIsKnown DEF IInv
  <2>2. job.key.store = s /\ job.key.root = RootOf(s)
    BY <1>2, <1>3
  <2>3. PlaceOf(job.key) = <<s, RootOf(s)>>
    BY <2>2, Zenon DEF PlaceOf
  <2>4. <<s, RootOf(s)>> \in Stores \X Roots
    BY <2>1
  <2> QED BY <1>3, <2>3, <2>4, Zenon
<1>5. IndexGrows
  BY RebuildGrows DEF IInv, StampsOK
<1>6. projection # None
  <2>1. CASE projection = index[job.at]
    <3>1. Rebuilt({s})[job.at] = index[job.at]
      BY <1>3, <2>1
    <3> SUFFICES ASSUME index[job.at] = None PROVE FALSE
      BY <2>1
    <3>2. ~IsFresh(s, RootOf(s))
      BY <1>3 DEF IsFresh
    <3>3. job.at \in DOMAIN index /\ job.at[1] = s /\ job.at[2] = RootOf(s)
      BY <1>3, <1>4 DEF IInv, IndexOK
    <3>4. Rebuilt({s})[job.at] = [generation |-> NextGeneration,
              entries |-> Contents(RootOf(s)).entries, files |-> Contents(RootOf(s)).files]
      BY <1>3, <3>2, <3>3 DEF Rebuilt
    <3> QED BY <3>1, <3>4 DEF NoneIsNoProjection
  <2>2. CASE projection # index[job.at]
    <3>1. projection = index'[job.at]
      BY <1>3
    <3>2. Supersedes(index'[job.at], index[job.at])
      BY <1>4, <1>5, <2>2, <3>1 DEF IndexGrows
    <3> QED BY <3>1, <3>2 DEF Supersedes
  <2> QED BY <2>1, <2>2
<1>7. projection.generation \in Nat
  <2>1. GenerationsOK'
    BY <1>5, StampsKept
  <2>2. projection = index'[job.at]
    BY <1>3
  <2>3. projection.generation \in 1..MaxGenerations
    BY <1>4, <1>6, <2>1, <2>2 DEF GenerationsOK
  <2> QED BY <2>3, RoutingAssumption
<1>8. CanonicalContext(key) \in Says(projection, key)
  <2>1. /\ projection.entries = {r \in records : r.root = RootOf(s)}
        /\ projection.files = aliasFiles[RootOf(s)]
    <3>1. <<s, RootOf(s)>> \in Stores \X Roots
      BY <1>3, <1>4
    <3> QED BY <3>1, RebuiltSaysContents DEF IInv
  <2> QED BY <1>2, <2>1 DEF CanonicalContext, Says
<1>9. MadeOf(job.of, job.entries, index'[job.at], job.key)
  <2>1. projection = index'[job.at]
    BY <1>3
  <2> QED BY <1>3, <1>6, <1>7, <1>8, <2>1 DEF MadeOf
<1> QED BY <1>1, <1>4, <1>5, <1>9, StampsAssembled

LEMMA StampsSave ==
    ASSUME StampsOK, IInv, NEW p \in Assemblers, SaveSnapshot(p)
    PROVE  StampsOK'
<1> PICK job, snapshot :
        /\ job = assembling[p] /\ job # None
        /\ snapshot = Snapshot(job, index[job.at].generation)
        /\ cache' = [key \in DOMAIN cache \cup {job.key} |->
                         IF key # job.key THEN cache[key] ELSE snapshot]
        /\ assembling' = [assembling EXCEPT ![p] = None]
  BY DEF SaveSnapshot
<1>1. index' = index
  BY DEF SaveSnapshot
<1>2. JobStamped(job)
  BY DEF StampsOK
<1>3. /\ snapshot.generation = index[job.at].generation
      /\ snapshot.of = job.of /\ snapshot.entries = job.entries
  BY DEF Snapshot
<1>4. index[job.at].generation \in Nat
  BY <1>2, RoutingAssumption DEF JobStamped, MadeOf, StampsOK, GenerationsOK
<1>5. SnapshotStamped(job.key, snapshot)
  BY <1>2, <1>3, <1>4 DEF JobStamped, SnapshotStamped, MadeOf
<1>6. \A key \in DOMAIN cache' : SnapshotStamped(key, cache'[key])
  BY <1>5 DEF StampsOK
<1>7. (\A key \in DOMAIN cache : SnapshotStamped(key, cache[key]))'
  BY <1>1, <1>6 DEF SnapshotStamped
<1>8. \A q \in Assemblers : assembling'[q] # None => JobStamped(assembling'[q])
  BY DEF StampsOK, IInv, ContextsOK
<1>9. (\A q \in Assemblers : assembling[q] # None => JobStamped(assembling[q]))'
  BY <1>1, <1>8 DEF JobStamped
<1>10. GenerationsOK'
  BY <1>1 DEF StampsOK, GenerationsOK
<1> QED BY <1>7, <1>9, <1>10 DEF StampsOK

LEMMA StampsNext ==
    ASSUME NoneIsNoProjection, IInv, StampsOK, [Next]_vars
    PROVE  StampsOK'
<1>1. ASSUME index' = index, assembling' = assembling, cache' = cache PROVE StampsOK'
  BY <1>1, StampsFrame DEF IndexGrows
<1>2. ASSUME NEW S, CanRebuild(S), index' = Rebuilt(S), assembling' = assembling,
             cache' = cache
      PROVE  StampsOK'
  BY <1>2, RebuildGrows, StampsFrame DEF IInv, StampsOK
<1>3. CASE UNCHANGED vars
  BY <1>1, <1>3 DEF vars
<1>4. ASSUME NEW c, NEW w, Remember(c, w) PROVE StampsOK'
  BY <1>1, <1>4 DEF Remember
<1>5. ASSUME NEW c, NEW r, NEW change, Retag(c, r, change) PROVE StampsOK'
  <2>1. PICK S : CanRebuild(S) /\ index' = Rebuilt(S)
    BY <1>5 DEF Retag
  <2>2. assembling' = assembling /\ cache' = cache
    BY <1>5 DEF Retag
  <2> QED BY <1>2, <2>1, <2>2
<1>6. ASSUME NEW c, (\E s \in Stores : Bind(c, s)) \/ Unbind(c) PROVE StampsOK'
  BY <1>1, <1>6 DEF Bind, Unbind
<1>7. ASSUME NEW c, NEW p, NEW x, RenameLoad(p, c, x[1], x[2]) PROVE StampsOK'
  BY <1>1, <1>7 DEF RenameLoad
<1>8. ASSUME NEW c, NEW p \in Assemblers, HookAssemble(p, c) \/ Assemble(p, c)
      PROVE  StampsOK'
  BY <1>8, StampsHookAssemble, StampsAssemble
<1>9. ASSUME NEW c, NEW id, Get(c, id) PROVE StampsOK'
  <2>1. PICK S : CanRebuild(S) /\ index' = Rebuilt(S)
    BY <1>9 DEF Get
  <2>2. assembling' = assembling /\ cache' = cache
    BY <1>9 DEF Get
  <2> QED BY <1>2, <2>1, <2>2
<1>10. ASSUME NEW r, Flush(r) PROVE StampsOK'
  BY <1>1, <1>10 DEF Flush
<1>11. ASSUME NEW p, RenameSave(p) PROVE StampsOK'
  BY <1>1, <1>11 DEF RenameSave
<1>12. ASSUME NEW p \in Assemblers, SaveSnapshot(p) PROVE StampsOK'
  BY <1>12, StampsSave
<1>13. ASSUME NEW key, Expire(key) PROVE StampsOK'
  <2>1. index' = index /\ assembling' = assembling
    BY <1>13 DEF Expire
  <2>2. \A k \in DOMAIN cache' : k \in DOMAIN cache /\ cache'[k] = cache[k]
    BY <1>13 DEF Expire
  <2> QED BY <2>1, <2>2, StampsFrame DEF IndexGrows
<1>14. ASSUME NEW s, Refresh(s) PROVE StampsOK'
  BY <1>2, <1>14 DEF Refresh
<1>15. CASE \/ \E l \in DOMAIN Layers : EditConfig(l)
            \/ \E m \in Moves : Move(m[1], m[2])
            \/ \E root \in Roots : Attach(root)
  BY <1>1, <1>15 DEF EditConfig, Move, Attach
<1> QED BY <1>3, <1>4, <1>5, <1>6, <1>7, <1>8, <1>9, <1>10, <1>11, <1>12, <1>13, <1>14,
           <1>15 DEF Next

\* What a hook replays under an equal generation is what the projection says,
\* if none was published while the context was assembled (cli/context.rs:
\* cache_covers_generation, write_context_cache).
THEOREM SnapshotsCurrent ==
    ASSUME NoneIsNoProjection
    PROVE  Spec => []SnapshotIsCurrent
<1>1. Init => StampsOK
  BY DEF Init, StampsOK, GenerationsOK
<1>2. IInv /\ StampsOK /\ [Next]_vars => StampsOK'
  BY StampsNext
<1>3. ASSUME StampsOK PROVE SnapshotIsCurrent
  <2> SUFFICES ASSUME NEW key \in DOMAIN cache,
                      Covers(key, index[PlaceOf(key)].generation),
                      cache[key].of = cache[key].generation
               PROVE  cache[key].entries \in Says(index[PlaceOf(key)], key)
    BY DEF SnapshotIsCurrent, PlaceOf, Says
  <2>1. SnapshotStamped(key, cache[key])
    BY <1>3 DEF StampsOK
  <2>2. cache[key].of = index[PlaceOf(key)].generation
    BY DEF Covers
  <2> QED BY <2>1, <2>2 DEF SnapshotStamped, MadeOf
<1>4. StampsOK => SnapshotIsCurrent
  BY <1>3
<1> QED BY <1>1, <1>2, <1>4, Invariance, PTL DEF Spec

=============================================================================
