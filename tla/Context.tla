------------------------------ MODULE Context ------------------------------
(***************************************************************************)
(* Which records a context block holds: filters, corrections, the startup  *)
(* strategy, duplicates and the budget, and how a host's size limit packs  *)
(* the block (context.rs, inject.rs).  A record has, besides the fields of *)
(* Search, a class (the memory kind, None when unclassified) and a size.   *)
(*                                                                         *)
(* A reader has: sources, scopes, viewer, project, strategy, searchOnly    *)
(* (search-only records too), filterProject and budget.                    *)
(***************************************************************************)
EXTENDS Search

CONSTANTS
    Transient,              \* words of a passing state of work
    Operational,            \* words of an operational log
    Guidance,               \* words of a durable preference
    PointerSize             \* size of a block that names a memory only

ASSUME ContextAssumption == PointerSize \in Nat

-----------------------------------------------------------------------------
(* Startup strategies.                                                     *)

LooksTransient(e) == e.text \cap Transient # {}
LooksOperational(e) == e.text \cap Operational # {}
ReadsAsPreference(e) == e.text \cap Guidance # {}

\* classify: an explicit class decides, else the scope, else the wording.
ByContent(e) ==
    IF e.kind = "note" \/ LooksTransient(e) THEN "search-only"
    ELSE CASE e.class = "preference" ->
                  IF e.project = None \/ ReadsAsPreference(e) THEN "always" ELSE "search-only"
           [] e.class = "project-fact" -> IF e.scope = "project" THEN "project" ELSE "search-only"
           [] e.class \in {"incident", "reference"} -> "search-only"
           [] OTHER -> IF e.scope = "project" THEN "project"
                       ELSE IF LooksOperational(e) THEN "search-only"
                       ELSE IF ReadsAsPreference(e) THEN "always"
                       ELSE "search-only"

\* classify_adaptive: only an explicit class withholds a remembered record.
ByClass(e) ==
    IF e.kind = "note" \/ e.class \in {"incident", "reference"} THEN "search-only"
    ELSE IF e.class = "preference" THEN "always"
    ELSE IF e.scope = "project" THEN "project"
    ELSE IF e.class = "project-fact" THEN "search-only" ELSE "always"

InjectClass(strategy, e) == CASE strategy = "relevance" -> ByContent(e)
                              [] strategy = "adaptive"  -> ByClass(e)
                              [] strategy = "recency"   -> "always"

-----------------------------------------------------------------------------
(* Candidates and corrections.                                             *)

SourceRank(e) == CASE e.kind = "curated" -> 3 [] e.kind = "remember" -> 2 [] OTHER -> 1

Candidates(S) ==
    {[entry |-> e, rank |-> <<SourceRank(e), e.confidence, e.made, 0 - e.id>>] : e \in S}

\* Mutant: corrections that the reader cannot see.
MaySuppressUnseen(e, reader) == SourceAllowed(e, reader) /\ AllowsCurrent(e)

\* A record that this reader could not be shown corrects nothing for it;
\* scope and project do not matter.
MaySuppress(e, reader) ==
    /\ SourceAllowed(e, reader)
    /\ AudienceAllows(e, reader.viewer)
    /\ AllowsCurrent(e)

Suppressors(S, reader) == {e \in S : MaySuppress(e, reader)}
ExplicitlySuperseded(S, reader) == ExplicitlySuppressed(Suppressors(S, reader), {})
Superseded(S, reader) ==
    LET all == Suppressors(S, reader) IN
    Suppressed(all, EntriesOf(Truncate(Candidates(all), HeuristicWindow)), {})

InProject(e, reader) ==
    e.scope = "project" => /\ e.project # None /\ reader.project # None
                           /\ Family(e.project) = Family(reader.project)

Withheld(e, reader) ==
    InjectClass(reader.strategy, e) = "search-only" /\ ~reader.searchOnly

\* An entry without a text is unreadable.
Eligible(e, hidden, reader) ==
    /\ SourceAllowed(e, reader) /\ ScopeAllowed(e, reader)
    /\ reader.filterProject => InProject(e, reader)
    /\ AudienceAllows(e, reader.viewer)
    /\ e \notin hidden
    /\ AllowsCurrent(e)
    /\ e.text # {}
    /\ ~Withheld(e, reader)

-----------------------------------------------------------------------------
(* Budget and size limit.                                                  *)

SizeOf(S) == MapThenSumSet(LAMBDA e : e.size, S)
Through(ranking, r) == Before(ranking, r) \cup {r}

\* The first block that does not fit ends the context: a smaller one behind it
\* does not jump ahead.
WithinBudget(ranking, budget) ==
    {r \in ranking : SizeOf(EntriesOf(Through(ranking, r))) <= budget}

Context(S, reader) ==
    LET hidden   == Superseded(S, reader)
        eligible == {e \in S : Eligible(e, hidden, reader)}
    IN  WithinBudget(Distinct(Candidates(eligible)), reader.budget)

\* select_sections: a memory that would not fit alone becomes a pointer, any
\* other that does not fit ends the block.  limit: max, the space left, and
\* alone, the space of a whole block.  The header counts nothing.
TooLarge(e, limit) == e.size > Max({limit.alone, limit.max})

PackedSize(S, limit) ==
    MapThenSumSet(LAMBDA e : IF TooLarge(e, limit) THEN PointerSize ELSE e.size, S)

EmptyBlock == [used |-> 0, full |-> FALSE, kept |-> {}, pointers |-> {}]

Pack(ranking, limit) ==
    LET fitting == {r \in ranking :
                        PackedSize(EntriesOf(Through(ranking, r)), limit) <= limit.max}
        packed  == EntriesOf(fitting)
        large   == {e \in packed : TooLarge(e, limit)}
    IN  [used |-> PackedSize(packed, limit), full |-> fitting # ranking,
         kept |-> packed \ large, pointers |-> large]

\* What is shown of a block.
Shown(block) == block.kept

=============================================================================
