----------------------------- MODULE Corrections -----------------------------
(***************************************************************************)
(* Which indexed records a reader may see at all: the audience of private  *)
(* records, the validity window, and corrections, by which a record hides  *)
(* an older one.  Search, context assembly and prompt recall share these   *)
(* rules (visibility.rs, validity.rs, supersession.rs).                    *)
(*                                                                         *)
(* A text is the set of its words and phrases, a query a set of words; no  *)
(* query is the empty set.  Word lists of the code are constants.          *)
(***************************************************************************)
EXTENDS Naturals, FiniteSets, Sequences

CONSTANTS
    None,                   \* no viewer, no project
    LinkStopWords,          \* words of a query that name no old fact
    StaleMarkers,           \* "used to", "previously", "no longer", ...
    ReplacementMarkers,     \* "now", "instead", "replaced", ...
    TopicWords,             \* words of four letters or more, not in the lists
    HeuristicWindow         \* HEURISTIC_SCAN_WINDOW: 256 candidates

ASSUME CorrectionsAssumption == HeuristicWindow \in Nat

-----------------------------------------------------------------------------
(* Audience and validity.                                                  *)

AudienceAllows(e, viewer) ==
    e.scope = "agent-private" =>
        /\ viewer # None
        /\ IF e.audience = {} THEN e.agent = viewer ELSE viewer \in e.audience

\* A window that is open, over, or not begun.
Validity == {"current", "expired", "future"}
AllowsCurrent(e) == e.validity = "current"
AllowsSearch(e, includeExpired) ==
    e.validity = "current" \/ (includeExpired /\ e.validity = "expired")

-----------------------------------------------------------------------------
(* Explicit links, resolved among the records of S.                        *)

Corrects(new, old) == old.id \in new.supersedes
Corrected(S, X) == {old \in S : \E new \in X : Corrects(new, old)}

\* A query that names a word of the old fact only wants the old fact.
NamesOldFact(query, old, new) ==
    \E w \in query : w \in old.text /\ w \notin new.text /\ w \notin LinkStopWords

\* The records that a chain of links leads to from e.
Reached(S, e) ==
    {t \in S : \A X \in SUBSET S : Corrected(S, X \cup {e}) \subseteq X => t \in X}

InCycle(S, e) == e \in Reached(S, e)
Cycle(S, e) == {m \in S : m \in Reached(S, e) /\ e \in Reached(S, m)}

\* An unreadable date is 0, before every other.
Later(a, b) == a.made > b.made \/ (a.made = b.made /\ a.id > b.id)

\* One record of a cycle survives, the newest.
Winner(S, e) == \A m \in Cycle(S, e) \ {e} : Later(e, m)

\* Mutant: links that only hide what they name, whatever names them back.
SuppressedByAnyLink(S, query) ==
    {old \in S : \E new \in S : Corrects(new, old) /\ ~NamesOldFact(query, old, new)}

ExplicitlySuppressed(S, query) ==
    {old \in S : /\ \E new \in S : Corrects(new, old) /\ ~NamesOldFact(query, old, new)
                 /\ InCycle(S, old) => ~Winner(S, old)}

-----------------------------------------------------------------------------
(* The heuristic: two remembered records of the same topic, of which the   *)
(* older says "used to" and the newer says "now".                          *)

SameScope(a, b) == a.scope = b.scope /\ a.project = b.project

ReplacedBy(old, new, query) ==
    /\ old.kind # "note" /\ new.kind # "note"
    /\ SameScope(old, new)
    /\ new.made > old.made
    /\ old.text \cap StaleMarkers # {}
    /\ new.text \cap ReplacementMarkers # {}
    /\ ~NamesOldFact(query, old, new)
    /\ Cardinality(old.text \cap new.text \cap TopicWords) >= 2

\* window: the first HeuristicWindow of the candidates S, which alone are
\* compared in pairs.
Suppressed(S, window, query) ==
    ExplicitlySuppressed(S, query)
      \cup {old \in window : \E new \in window :
                ~Corrects(new, old) /\ ReplacedBy(old, new, query)}

=============================================================================
