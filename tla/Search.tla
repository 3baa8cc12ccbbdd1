------------------------------- MODULE Search -------------------------------
(***************************************************************************)
(* Deterministic search over indexed records and curated files, the search *)
(* of the full-text index with its mandatory post-filter, and the merge of *)
(* the two ranked lists (search.rs).                                       *)
(*                                                                         *)
(* A record e has: id, made, kind, scope, project, audience, agent,        *)
(* confidence, validity, supersedes, text (the body), meta (subject and    *)
(* tags) and entities.  A query has: words, as typed, the phrase that they *)
(* form, and the entities it names.  A policy has: sources, scopes,        *)
(* viewer, project and limit.  Every word occurs once in a text.           *)
(***************************************************************************)
EXTENDS Corrections, FiniteSetsExt

CONSTANTS
    StopWords,              \* words that say nothing of a subject
    RequiredWords,          \* negations and intents: always to be matched
    NewestWords,            \* "current", "latest", ...
    OldestWords,            \* "original", "previous", ...
    Alternatives(_),        \* inflections and concept aliases of a word
    Family(_)               \* the project that an alias stands for

-----------------------------------------------------------------------------
(* Queries.                                                                *)

Query(words, phrase, entities) ==
    [words |-> words, phrase |-> phrase, entities |-> entities]

Terms(q) == IF q.words \subseteq StopWords THEN q.words ELSE q.words \ StopWords

Required(q) == Terms(q) \cap RequiredWords

MinMatching(q) ==
    LET n == Cardinality(Terms(q)) IN
    IF n <= 3 THEN n ELSE Max({3, (3 * n + 4) \div 5})

TemporalIntent(q) == IF q.words \cap NewestWords # {} THEN "newest"
                     ELSE IF q.words \cap OldestWords # {} THEN "oldest"
                     ELSE "none"

-----------------------------------------------------------------------------
(* Scores.                                                                 *)

TermScore(text, t) == Min({3, Cardinality(({t} \cup Alternatives(t)) \cap text)})
Matched(text, q) == {t \in Terms(q) : TermScore(text, t) > 0}

\* The scores of the terms together.
Points(text, q) ==
    Cardinality({p \in Terms(q) \X (1..3) : p[2] <= TermScore(text, p[1])})

\* The phrase, or enough of the terms with every required one.
TextScore(text, q) ==
    IF q.phrase \in text THEN 100 + 20 * Cardinality(Terms(q))
    ELSE IF /\ Required(q) \subseteq Matched(text, q)
            /\ Cardinality(Matched(text, q)) >= MinMatching(q)
         THEN 10 * Cardinality(Matched(text, q)) + Points(text, q)
    ELSE 0

EntityScore(e, q) ==
    IF Required(q) # {} THEN 0 ELSE 45 * Cardinality(e.entities \cap q.entities)

\* The combined view is a fallback: a match of the body or of the metadata is
\* not counted twice.
WordScore(e, q) ==
    LET apart == TextScore(e.text, q) + TextScore(e.meta, q) IN
    IF apart = 0 /\ Required(q) = {} THEN TextScore(e.text \cup e.meta, q) ELSE apart

ProjectBoost(score, e, policy) ==
    IF /\ score > 0 /\ e.project # None /\ policy.project # None
       /\ Family(e.project) = Family(policy.project)
    THEN Max({1, score \div 10}) ELSE 0

\* A file read from the store has a text only: canonical.
Score(e, q, policy, canonical) ==
    LET base == IF canonical /\ e.kind = "curated" THEN TextScore(e.text, q)
                ELSE WordScore(e, q) + EntityScore(e, q)
    IN  base + ProjectBoost(base, e, policy)

-----------------------------------------------------------------------------
(* Policy, as in the lexical path and after the full-text query.           *)

SourceAllowed(e, policy) ==
    \/ "all" \in policy.sources
    \/ CASE e.kind = "curated"  -> "curated" \in policy.sources
         [] e.kind = "remember" -> policy.sources = {} \/ "remembered" \in policy.sources
         [] e.kind = "note"     -> "inbox" \in policy.sources

ScopeAllowed(e, policy) == policy.scopes = {} \/ e.scope \in policy.scopes

ProjectAllowed(e, policy) ==
    policy.projectOnly =>
        /\ e.scope = "project" /\ e.project # None /\ policy.project # None
        /\ Family(e.project) = Family(policy.project)

Allowed(e, policy, includeExpired) ==
    /\ SourceAllowed(e, policy) /\ ScopeAllowed(e, policy)
    /\ ProjectAllowed(e, policy)
    /\ AudienceAllows(e, policy.viewer)
    /\ AllowsSearch(e, includeExpired)

-----------------------------------------------------------------------------
(* Ranking, suppression, duplicates.  A ranked list is a set of entries    *)
(* with their ranks, no two of them equal; the greatest rank comes first.  *)

TemporalRank(q, e) == CASE TemporalIntent(q) = "newest" -> e.made
                        [] TemporalIntent(q) = "oldest" -> 0 - e.made
                        [] OTHER -> 0

\* Lexicographic order, greatest first.
Precedes(a, b) ==
    \E i \in DOMAIN a : a[i] > b[i] /\ \A j \in 1..(i - 1) : a[j] = b[j]

Before(ranking, r) == {s \in ranking : Precedes(s.rank, r.rank)}
Place(ranking, r) == Cardinality(Before(ranking, r)) + 1
Truncate(ranking, limit) == {r \in ranking : Place(ranking, r) <= limit}
EntriesOf(ranking) == {r.entry : r \in ranking}

\* scored: entries with their scores.
Ranked(q, scored) ==
    {[entry |-> s.entry,
      rank  |-> <<s.score, s.entry.confidence, TemporalRank(q, s.entry),
                  s.entry.made, 0 - s.entry.id>>] : s \in scored}

\* The same words in two projects may be two facts.
DuplicateKey(e) ==
    <<e.text, IF e.scope = "project" THEN Family(e.project) ELSE None>>

SameWords(r, s) == DuplicateKey(r.entry) = DuplicateKey(s.entry)

Distinct(ranking) == {r \in ranking : \A s \in Before(ranking, r) : ~SameWords(r, s)}

\* finish_hits, for the records that match with their scores: corrections are
\* resolved among all of them, before any is cut off.
Finish(q, scored) ==
    LET ranked == Ranked(q, scored)
        hidden == Suppressed(EntriesOf(ranked),
                             EntriesOf(Truncate(ranked, HeuristicWindow)), q.words)
    IN  Distinct({r \in ranked : r.entry \notin hidden})

Lexical(entries, q, policy, canonical) ==
    LET includeExpired == TemporalIntent(q) = "oldest"
        scored == {[entry |-> e, score |-> Score(e, q, policy, canonical)] :
                       e \in {x \in entries : Allowed(x, policy, includeExpired)}}
    IN  Finish(q, {s \in scored : s.score > 0})

-----------------------------------------------------------------------------
(* The full-text index: any word of the query makes a candidate.  Its rank *)
(* stands for the external BM25 score.                                     *)

Relevance(e, q) == 1000 * Cardinality(q.words \cap (e.text \cup e.meta))

Indexed(entries, q, policy) ==
    LET includeExpired == q.words \cap OldestWords # {}
        matches == {e \in entries : Relevance(e, q) > 0 /\ Allowed(e, policy, includeExpired)}
    IN  Finish(q, {[entry |-> e,
                    score |-> Relevance(e, q) + ProjectBoost(Relevance(e, q), e, policy)] :
                       e \in matches})

\* The lists in turn, of which every memory counts once: a turn that meets a
\* known memory is lost (merge_ranked_sources_local).
Interleaved(a, b) ==
    {[entry |-> r.entry, rank |-> <<1 - 2 * Place(a, r)>>] : r \in a}
      \cup {[entry |-> r.entry, rank |-> <<0 - 2 * Place(b, r)>>] : r \in b}

MergedLocal(a, b, limit) == Truncate(Distinct(Interleaved(a, b)), limit)

\* A turn takes the next memory that is not known yet (merge_ranked_sources).
TakeNew(out, ranking) ==
    LET new == {r \in ranking : \A s \in out : ~SameWords(r, s)} IN
    out \cup {[entry |-> r.entry, rank |-> <<0 - Cardinality(out)>>] :
                  r \in {x \in new : Before(new, x) = {}}}

Turn(out, a, b) == TakeNew(TakeNew(out, a), b)

Merged(a, b, limit) ==
    LET turns == Cardinality(a) + Cardinality(b)
        Taken[n \in 0..turns] == IF n = 0 THEN {} ELSE Turn(Taken[n - 1], a, b)
    IN  Truncate(Taken[turns], limit)

\* Mutant: the full-text index replaces the lexical search.
SearchIndexOnly(entries, q, policy, fresh) ==
    IF fresh THEN Truncate(Indexed(entries, q, policy), policy.limit)
    ELSE Truncate(Lexical(entries, q, policy, FALSE), policy.limit)

\* What a hook finds: lexical matches of the projection, with those of the
\* index when it is fresh.
SearchLocal(entries, q, policy, fresh) ==
    LET lexical == Lexical(entries, q, policy, FALSE)
        records == {e \in entries : e.kind # "curated"}
    IN  IF fresh THEN MergedLocal(Indexed(records, q, policy), lexical, policy.limit)
        ELSE Truncate(lexical, policy.limit)

\* What "hm search" finds.
SearchStore(entries, q, policy, fresh) ==
    LET lexical == Lexical(entries, q, policy, TRUE) IN
    IF fresh THEN Merged(Indexed(entries, q, policy), lexical, policy.limit)
    ELSE Truncate(lexical, policy.limit)

=============================================================================
