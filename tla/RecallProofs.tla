---------------------------- MODULE RecallProofs ----------------------------
(***************************************************************************)
(* Proofs about corrections and about who is shown them.  For any records  *)
(* with any links between them, something of every chain of corrections    *)
(* stays in sight: a link may name any record, so chains may join and run  *)
(* in circles, and a circle may be corrected from outside.  Records that   *)
(* an agent may not be shown change nothing of what it is shown; what it   *)
(* is shown is current and not shown twice; and the searches lose neither  *)
(* the best lexical match nor, for recall, what is new.                    *)
(***************************************************************************)
EXTENDS PromptRecall, FiniteSetTheorems, WellFoundedInduction, TLAPS

-----------------------------------------------------------------------------
(* The smallest of finite sets.                                            *)

Less == {ss \in Nat \X Nat : ss[1] < ss[2]}

LEMMA LeastNatural ==
    ASSUME NEW T \in SUBSET Nat, T # {}
    PROVE  \E x \in T : \A y \in T : x <= y
<1>1. IsWellFoundedOn(Less, Nat)
  BY NatLessThanWellFounded DEF OpToRel, Less
<1>2. PICK x \in T : \A y \in T : ~(<<y, x>> \in Less)
  BY <1>1, WFMin, Zenon
<1>3. ASSUME NEW y \in T PROVE x <= y
  <2>1. <<y, x>> \in Nat \X Nat
    OBVIOUS
  <2>2. ~(y < x)
    BY <1>2, <2>1 DEF Less
  <2> QED BY <2>2
<1> QED BY <1>3

\* Some member of A has a set of f that contains no other member's properly.
LEMMA SmallestSet ==
    ASSUME NEW A, A # {}, NEW f, \A a \in A : IsFiniteSet(f[a])
    PROVE  \E a \in A : \A b \in A : f[b] \subseteq f[a] => f[b] = f[a]
<1> DEFINE T == {Cardinality(f[a]) : a \in A}
<1>1. T \in SUBSET Nat /\ T # {}
  BY FS_CardinalityType
<1>2. PICK k \in T : \A n \in T : k <= n
  <2> HIDE DEF T
  <2> QED BY <1>1, LeastNatural
<1>3. PICK a \in A : k = Cardinality(f[a])
  BY <1>2
<1>4. ASSUME NEW b \in A, f[b] \subseteq f[a] PROVE f[b] = f[a]
  <2>1. Cardinality(f[b]) <= Cardinality(f[a])
    BY <1>4, FS_Subset
  <2>2. Cardinality(f[a]) <= Cardinality(f[b])
    BY <1>2, <1>3
  <2>3. Cardinality(f[a]) \in Nat /\ Cardinality(f[b]) \in Nat
    BY FS_CardinalityType
  <2>4. Cardinality(f[a]) = Cardinality(f[b])
    BY <2>1, <2>2, <2>3
  <2> QED BY <1>4, <2>4, FS_Subset
<1> QED BY <1>4

-----------------------------------------------------------------------------
(* Chains of corrections.                                                  *)

LEMMA ReachedIsClosed ==
    ASSUME NEW S, NEW e
    PROVE  Corrected(S, Reached(S, e) \cup {e}) \subseteq Reached(S, e)
<1> SUFFICES ASSUME NEW old \in Corrected(S, Reached(S, e) \cup {e})
             PROVE  old \in Reached(S, e)
  OBVIOUS
<1>1. PICK new \in Reached(S, e) \cup {e} : Corrects(new, old) /\ old \in S
  BY DEF Corrected
<1>2. ASSUME NEW X \in SUBSET S, Corrected(S, X \cup {e}) \subseteq X
      PROVE  old \in X
  <2>1. new \in X \cup {e}
    BY <1>1, <1>2 DEF Reached
  <2> QED BY <1>1, <1>2, <2>1 DEF Corrected
<1> QED BY <1>1, <1>2 DEF Reached

LEMMA ReachedIsTransitive ==
    ASSUME NEW S, NEW e, NEW m \in Reached(S, e)
    PROVE  Reached(S, m) \subseteq Reached(S, e)
<1> DEFINE X == Reached(S, e)
<1>1. X \in SUBSET S
  BY DEF Reached
<1>2. Corrected(S, X \cup {m}) \subseteq X
  BY ReachedIsClosed DEF Corrected
<1> HIDE DEF X
<1>3. Reached(S, m) \subseteq X
  BY <1>1, <1>2 DEF Reached
<1> QED BY <1>3 DEF X

LEMMA CorrectedIsReached ==
    ASSUME NEW S, NEW new, NEW old \in S, Corrects(new, old)
    PROVE  old \in Reached(S, new)
BY ReachedIsClosed DEF Corrected

\* What leads to n, and n itself.
Ancestors(S, n) == {m \in S : m = n \/ n \in Reached(S, m)}

\* Up the chain of e there is a record that corrects whatever leads to it.
LEMMA FirstOfChain ==
    ASSUME NEW S, IsFiniteSet(S), NEW e \in S
    PROVE  \E n \in Ancestors(S, e) :
               \A m \in S : n \in Reached(S, m) => m \in Reached(S, n)
<1> DEFINE A == Ancestors(S, e)
           f == [n \in A |-> Ancestors(S, n)]
<1>1. A # {} /\ A \subseteq S
  BY DEF Ancestors
<1>2. \A n \in A : IsFiniteSet(f[n])
  BY FS_Subset DEF Ancestors
<1>3. PICK n \in A : \A b \in A : f[b] \subseteq f[n] => f[b] = f[n]
  <2>1. A # {}
    BY <1>1
  <2> HIDE DEF A, f
  <2> QED BY <1>2, <2>1, SmallestSet
<1>4. ASSUME NEW m \in S, n \in Reached(S, m) PROVE m \in Reached(S, n)
  <2>1. Reached(S, n) \subseteq Reached(S, m)
    BY <1>4, ReachedIsTransitive
  <2>2. m \in A
    BY <1>3, <1>4, <2>1 DEF Ancestors
  <2>3. ASSUME NEW x \in Ancestors(S, m) PROVE x \in Ancestors(S, n)
    <3>1. CASE x = m
      BY <1>4, <3>1 DEF Ancestors
    <3>2. CASE m \in Reached(S, x)
      BY <1>4, <2>3, <3>2, ReachedIsTransitive DEF Ancestors
    <3> QED BY <2>3, <3>1, <3>2 DEF Ancestors
  <2>4. Ancestors(S, m) = Ancestors(S, n)
    BY <1>3, <2>2, <2>3
  <2>5. n \in Ancestors(S, m)
    BY <1>1, <1>3, <2>4 DEF Ancestors
  <2> QED BY <1>4, <2>4, <2>5 DEF Ancestors
<1> QED BY <1>3, <1>4

-----------------------------------------------------------------------------
(* The newest of a cycle.                                                  *)

Dated(e) == e.id \in Nat /\ e.made \in Nat
Distinguished(S) == \A a, b \in S : a.id = b.id => a = b

LEMMA NewestExists ==
    ASSUME NEW C, IsFiniteSet(C), C # {}, \A e \in C : Dated(e), Distinguished(C)
    PROVE  \E w \in C : \A m \in C \ {w} : Later(w, m)
<1> DEFINE f == [a \in C |-> {x \in C : Later(x, a)}]
<1>1. \A a \in C : IsFiniteSet(f[a])
  BY FS_Subset
<1>2. PICK w \in C : \A b \in C : f[b] \subseteq f[w] => f[b] = f[w]
  <2> HIDE DEF f
  <2> QED BY <1>1, SmallestSet
<1>3. ASSUME NEW m \in C, m # w, ~Later(w, m) PROVE FALSE
  <2>1. Later(m, w)
    BY <1>3 DEF Later, Dated, Distinguished
  <2>2. ASSUME NEW x \in C, Later(x, m) PROVE Later(x, w)
    BY <2>1, <2>2 DEF Later, Dated
  <2>3. f[m] = f[w]
    BY <1>2, <2>2
  <2>4. m \in f[w] /\ m \notin f[m]
    BY <2>1 DEF Later, Dated
  <2> QED BY <2>3, <2>4
<1> QED BY <1>2, <1>3

\* Whatever corrects whatever: a hidden record is reached by one in sight.
LEMMA ChainsEndInSight ==
    ASSUME NEW S, IsFiniteSet(S), \A e \in S : Dated(e), Distinguished(S),
           NEW e \in ExplicitlySuppressed(S, {})
    PROVE  \E n \in S \ ExplicitlySuppressed(S, {}) : e \in Reached(S, n)
<1> DEFINE hidden == ExplicitlySuppressed(S, {})
<1>1. /\ e \in S
      /\ \A h \in hidden : \E new \in S : Corrects(new, h)
      /\ \A h \in hidden : InCycle(S, h) => ~Winner(S, h)
  BY DEF ExplicitlySuppressed
<1>2. PICK n \in Ancestors(S, e) :
          \A m \in S : n \in Reached(S, m) => m \in Reached(S, n)
  BY <1>1, FirstOfChain
<1>3. n \in S /\ (n = e \/ e \in Reached(S, n))
  BY <1>2 DEF Ancestors
<1>4. CASE ~\E m \in S : Corrects(m, n)
  <2>1. n \notin hidden
    BY <1>1, <1>4
  <2> QED BY <1>3, <2>1
<1>5. CASE \E m \in S : Corrects(m, n)
  <2>1. PICK m \in S : Corrects(m, n)
    BY <1>5
  <2>2. n \in Reached(S, m) /\ m \in Reached(S, n)
    BY <1>2, <1>3, <2>1, CorrectedIsReached
  <2>3. n \in Reached(S, n)
    BY <2>2, ReachedIsTransitive
  <2>4. PICK w \in Cycle(S, n) : \A x \in Cycle(S, n) \ {w} : Later(w, x)
    <3>1. n \in Cycle(S, n) /\ Cycle(S, n) \subseteq S
      BY <1>3, <2>3 DEF Cycle
    <3>2. IsFiniteSet(Cycle(S, n))
      BY <3>1, FS_Subset
    <3> QED BY <3>1, <3>2, NewestExists DEF Distinguished
  <2>5. w \in S /\ w \in Reached(S, n) /\ n \in Reached(S, w)
    BY <2>4 DEF Cycle
  <2>6. Reached(S, n) = Reached(S, w)
    BY <2>5, ReachedIsTransitive
  <2>7. Winner(S, w)
    <3> SUFFICES ASSUME NEW x \in Cycle(S, w) \ {w} PROVE Later(w, x)
      BY DEF Winner
    <3>1. x \in S /\ x \in Reached(S, w) /\ w \in Reached(S, x)
      BY DEF Cycle
    <3>2. n \in Reached(S, x)
      BY <2>5, <3>1, ReachedIsTransitive
    <3> QED BY <2>4, <2>6, <3>1, <3>2 DEF Cycle
  <2>8. w \notin hidden
    BY <1>1, <2>5, <2>6, <2>7 DEF InCycle
  <2> QED BY <1>3, <2>5, <2>6, <2>8
<1> QED BY <1>4, <1>5

-----------------------------------------------------------------------------
(* The records that are there.                                             *)

\* A record is dated, and remains itself when its validity ends.
IsRecord(e) ==
    {"id", "made", "confidence"} \subseteq DOMAIN e /\ Dated(e) /\ e.confidence \in Nat

EntriesOK ==
    /\ lifetime \in Lifetimes /\ corpus \in Corpora[lifetime]
    /\ IsFiniteSet(entries)
    /\ \A e \in entries : IsRecord(e)
    /\ Distinguished(entries)

LEMMA WriteStep ==
    ASSUME EntriesOK, NEW t \in corpus, Write(t)
    PROVE  EntriesOK'
<1> PICK others : /\ others = {e \in entries : e.id # t.id}
                  /\ entries' = others \cup {t}
  BY DEF Write
<1>1. lifetime' = lifetime /\ corpus' = corpus
  BY DEF Write, world
<1>2. IsRecord(t)
  BY PromptRecallAssumption DEF EntriesOK, IsRecord, Dated
<1>3. IsFiniteSet(entries')
  BY FS_Subset, FS_AddElement DEF EntriesOK
<1>4. \A e \in entries' : IsRecord(e)
  BY <1>2 DEF EntriesOK
<1>5. Distinguished(entries')
  BY DEF EntriesOK, Distinguished
<1> QED BY <1>1, <1>3, <1>4, <1>5 DEF EntriesOK

LEMMA ExpireStep ==
    ASSUME EntriesOK, NEW e \in entries, Expire(e)
    PROVE  EntriesOK'
<1> PICK old : /\ old = [e EXCEPT !.validity = "expired"]
               /\ entries' = (entries \ {e}) \cup {old}
  BY DEF Expire
<1>1. lifetime' = lifetime /\ corpus' = corpus
  BY DEF Expire, world
<1>2. IsRecord(e)
  BY DEF EntriesOK
<1>3. /\ DOMAIN old = DOMAIN e
      /\ old.id = e.id /\ old.made = e.made /\ old.confidence = e.confidence
  BY <1>2 DEF IsRecord
<1>4. IsRecord(old)
  BY <1>2, <1>3 DEF IsRecord, Dated
<1>5. IsFiniteSet(entries')
  BY FS_RemoveElement, FS_AddElement DEF EntriesOK
<1>6. Distinguished(entries')
  <2>1. \A x \in entries \ {e} : x.id # old.id
    BY <1>3 DEF EntriesOK, Distinguished
  <2>2. \A a, b \in entries \ {e} : a.id = b.id => a = b
    BY DEF EntriesOK, Distinguished
  <2>3. \A a \in entries' : a = old \/ a \in entries \ {e}
    OBVIOUS
  <2> SUFFICES ASSUME NEW a \in entries', NEW b \in entries', a.id = b.id PROVE a = b
    BY Zenon DEF Distinguished
  <2> QED BY <2>1, <2>2, <2>3, Zenon
<1> QED BY <1>1, <1>4, <1>5, <1>6 DEF EntriesOK

LEMMA RecordsAreDistinguished == Spec => []EntriesOK
<1>1. Init => EntriesOK
  BY FS_EmptySet DEF Init, EntriesOK, Distinguished
<1>2. EntriesOK /\ [Next]_vars => EntriesOK'
  <2> SUFFICES ASSUME EntriesOK, [Next]_vars PROVE EntriesOK'
    OBVIOUS
  <2>1. ASSUME UNCHANGED <<entries, world>> PROVE EntriesOK'
    BY <2>1 DEF EntriesOK, world
  <2>2. ASSUME Hook PROVE EntriesOK'
    BY <2>1, <2>2 DEF Hook, Prompt, AnswerPrompt, Answer, Start, Compact
  <2>3. CASE UNCHANGED vars
    BY <2>1, <2>3 DEF vars, world
  <2>4. ASSUME NEW t \in corpus, Write(t) PROVE EntriesOK'
    BY <2>4, WriteStep
  <2>5. ASSUME NEW e \in entries, Expire(e) PROVE EntriesOK'
    BY <2>5, ExpireStep
  <2> QED BY <2>2, <2>3, <2>4, <2>5 DEF Next
<1> QED BY <1>1, <1>2, PTL DEF Spec

\* However records correct one another, each that is hidden by a correction is
\* reached from one that is not, for whoever reads (supersession.rs:
\* suppressed_explicit_ids, cycle_winners).
THEOREM NothingIsErased == Spec => []NothingHiddenForNothing
<1>1. ASSUME EntriesOK PROVE NothingHiddenForNothing
  <2> PICK S : S = Suppressors(entries, Policy)
    OBVIOUS
  <2>1. S \subseteq entries
    BY DEF Suppressors
  <2>2. /\ IsFiniteSet(S) /\ Distinguished(S)
        /\ \A e \in S : Dated(e)
    BY <1>1, <2>1, FS_Subset DEF EntriesOK, Distinguished, IsRecord
  <2> QED BY <2>2, ChainsEndInSight DEF NothingHiddenForNothing
<1>2. EntriesOK => NothingHiddenForNothing
  BY <1>1
<1> QED BY <1>2, RecordsAreDistinguished, PTL

-----------------------------------------------------------------------------
(* Records that may not be shown.  S and T agree on the others.            *)

Agree(S, T, q) == {e \in S : MayBeShown(e, q)} = {e \in T : MayBeShown(e, q)}

LEMMA SeenAgrees ==
    ASSUME NEW S, NEW q
    PROVE  Agree(S, {e \in S : MayBeShown(e, q)}, q)
BY DEF Agree

\* Policies and readers are those of one agent.
OneAgent(policy) == policy.viewer = Reader.viewer

LEMMA PolicyIsOfAgent ==
    ASSUME NEW project
    PROVE  /\ OneAgent(PolicyIn(project)) /\ OneAgent(ReaderIn(project))
           /\ \A n : OneAgent([PolicyIn(project) EXCEPT !.limit = n])
BY PromptRecallAssumption DEF OneAgent, PolicyIn, ReaderIn

LEMMA AllowedIsShown ==
    ASSUME NEW e, NEW q, NEW policy, OneAgent(policy), NEW includeExpired \in BOOLEAN,
           includeExpired => q.words \cap OldestWords # {},
           Allowed(e, policy, includeExpired)
    PROVE  MayBeShown(e, q)
BY DEF OneAgent, Allowed, AllowsSearch, MayBeShown

LEMMA SameLexical ==
    ASSUME NEW S, NEW T, NEW q, NEW policy, Agree(S, T, q), OneAgent(policy)
    PROVE  Lexical(S, q, policy, FALSE) = Lexical(T, q, policy, FALSE)
<1> DEFINE expired == TemporalIntent(q) = "oldest"
           allowed(X) == {x \in X : Allowed(x, policy, expired)}
<1>1. expired \in BOOLEAN /\ (expired => q.words \cap OldestWords # {})
  BY DEF TemporalIntent
<1>2. allowed(S) = allowed(T)
  <2> HIDE DEF expired
  <2> QED BY <1>1, AllowedIsShown DEF Agree
<1> QED BY <1>2 DEF Lexical

LEMMA SameIndexed ==
    ASSUME NEW S, NEW T, NEW q, NEW policy, Agree(S, T, q), OneAgent(policy)
    PROVE  Indexed({e \in S : e.kind # "curated"}, q, policy)
             = Indexed({e \in T : e.kind # "curated"}, q, policy)
<1> DEFINE expired == q.words \cap OldestWords # {}
           records(X) == {e \in X : e.kind # "curated"}
           matches(X) == {e \in records(X) :
                              Relevance(e, q) > 0 /\ Allowed(e, policy, expired)}
<1>1. expired \in BOOLEAN /\ (expired => q.words \cap OldestWords # {})
  OBVIOUS
<1>2. matches(S) = matches(T)
  <2> HIDE DEF expired
  <2> QED BY <1>1, AllowedIsShown DEF Agree
<1> QED BY <1>2 DEF Indexed

LEMMA SameSearch ==
    ASSUME NEW S, NEW T, NEW q, NEW policy, Agree(S, T, q), OneAgent(policy)
    PROVE  SearchLocal(S, q, policy, TRUE) = SearchLocal(T, q, policy, TRUE)
<1>1. Lexical(S, q, policy, FALSE) = Lexical(T, q, policy, FALSE)
  BY SameLexical, Zenon
<1>2. Indexed({e \in S : e.kind # "curated"}, q, policy)
        = Indexed({e \in T : e.kind # "curated"}, q, policy)
  BY SameIndexed
<1> QED BY <1>1, <1>2 DEF SearchLocal

\* Corrections are resolved among what the reader could be shown.
LEMMA SameSuppressors ==
    ASSUME NEW S, NEW T, NEW q, NEW reader, Agree(S, T, q), OneAgent(reader)
    PROVE  Suppressors(S, reader) = Suppressors(T, reader)
BY DEF Agree, OneAgent, Suppressors, MaySuppress, MayBeShown, AllowsCurrent, AllowsSearch

LEMMA SameHits ==
    ASSUME NEW S, NEW T, NEW p, Agree(S, T, p.query)
    PROVE  RecallHits(S, p, TRUE) = RecallHits(T, p, TRUE)
<1> DEFINE policy == PolicyIn(p.project)
<1>1. OneAgent(policy)
  BY PolicyIsOfAgent
<1>2. ExplicitlySuperseded(S, policy) = ExplicitlySuperseded(T, policy)
  BY <1>1, SameSuppressors DEF ExplicitlySuperseded
<1>3. ASSUME NEW hidden
      PROVE  HitsExcept(S, p, TRUE, hidden) = HitsExcept(T, p, TRUE, hidden)
  <2> DEFINE wide == [policy EXCEPT !.limit = RecallLimit(hidden)]
  <2>1. OneAgent(wide)
    BY PolicyIsOfAgent
  <2>2. SearchLocal(S, p.query, wide, TRUE) = SearchLocal(T, p.query, wide, TRUE)
    BY <2>1, SameSearch, Zenon
  <2> QED BY <2>2 DEF HitsExcept, HitsWithin
<1> QED BY <1>2, <1>3 DEF RecallHits

LEMMA SameContext ==
    ASSUME NEW S, NEW T, NEW q, NEW reader, Agree(S, T, q), OneAgent(reader)
    PROVE  Context(S, reader) = Context(T, reader)
<1> DEFINE hidden == Superseded(S, reader)
<1>1. hidden = Superseded(T, reader)
  BY SameSuppressors DEF Superseded
<1>2. {e \in S : Eligible(e, hidden, reader)} = {e \in T : Eligible(e, hidden, reader)}
  <2> HIDE DEF hidden
  <2> QED BY DEF Agree, OneAgent, Eligible, MayBeShown, AllowsCurrent, AllowsSearch
<1> QED BY <1>1, <1>2 DEF Context

LEMMA SameOutput ==
    ASSUME NEW S, NEW T, NEW p, Agree(S, T, p.query)
    PROVE  ForPrompt(S, p) = ForPrompt(T, p)
<1> DEFINE policy == PolicyIn(p.project)
           all == Assembly(S, p.project)
<1>1. all = Assembly(T, p.project)
  BY SameContext, PolicyIsOfAgent DEF Assembly
<1>2. EvidentTier(S, p, all) = EvidentTier(T, p, all)
  <2>1. OneAgent(policy)
    BY PolicyIsOfAgent
  <2>2. Lexical(S, p.query, policy, FALSE) = Lexical(T, p.query, policy, FALSE)
    BY <2>1, SameLexical, Zenon
  <2>3. ExplicitlySuperseded(S, policy) = ExplicitlySuperseded(T, policy)
    BY <2>1, SameSuppressors DEF ExplicitlySuperseded
  <2> HIDE DEF all
  <2> QED BY <2>2, <2>3 DEF EvidentTier
<1> HIDE DEF all
<1>3. OutputOf(S, p, all) = OutputOf(T, p, all)
  BY <1>2 DEF OutputOf
<1> QED BY <1>1, <1>3 DEF ForPrompt, all

LEMMA SameAnswer ==
    ASSUME NEW S, NEW p
    PROVE  AnsweredAlike(S, {e \in S : MayBeShown(e, p.query)}, p)
<1> DEFINE seen == {e \in S : MayBeShown(e, p.query)}
<1>1. Agree(S, seen, p.query)
  BY SeenAgrees
<1> HIDE DEF seen
<1>2. RecallHits(S, p, TRUE) = RecallHits(seen, p, TRUE)
  BY <1>1, SameHits
<1>3. ForPrompt(S, p) = ForPrompt(seen, p)
  BY <1>1, SameOutput
<1> QED BY <1>2, <1>3 DEF seen, AnsweredAlike

\* What a prompt recalls and what its context holds depend on no record that is
\* private to others, not begun, or over, whatever such records correct
\* (visibility.rs, supersession.rs, select_prompt_recall).
THEOREM OthersAreInvisible == Spec => []OthersDoNotMatter
<1>1. OthersDoNotMatter
  <2>1. \A p : AnsweredAlike(entries, {e \in entries : MayBeShown(e, p.query)}, p)
    BY SameAnswer
  <2> QED BY <2>1 DEF OthersDoNotMatter
<1> QED BY <1>1, PTL

-----------------------------------------------------------------------------
(* What is found, picked and packed.                                       *)

LEMMA CutIsRanked ==
    ASSUME NEW ranking, NEW limit, NEW r \in Truncate(Distinct(ranking), limit)
    PROVE  r \in ranking
BY DEF Truncate, Distinct

LEMMA FinishFinds ==
    ASSUME NEW S, NEW q, NEW scored, \A s \in scored : s.entry \in S,
           NEW r \in Finish(q, scored)
    PROVE  r.entry \in S
<1>1. r \in Ranked(q, scored)
  BY DEF Finish, Distinct
<1> QED BY <1>1 DEF Ranked

LEMMA LexicalFinds ==
    ASSUME NEW S, NEW q, NEW policy, NEW r \in Lexical(S, q, policy, FALSE)
    PROVE  r.entry \in S
<1> DEFINE scored == {[entry |-> e, score |-> Score(e, q, policy, FALSE)] :
                         e \in {x \in S : Allowed(x, policy, TemporalIntent(q) = "oldest")}}
           found == {s \in scored : s.score > 0}
<1>1. \A s \in found : s.entry \in S
  <2>1. \A s \in scored : \E e \in S : \E n : s = [entry |-> e, score |-> n]
    BY Zenon
  <2> HIDE DEF scored
  <2> QED BY <2>1
<1>2. r \in Finish(q, found)
  BY Zenon DEF Lexical
<1> HIDE DEF found
<1> QED BY <1>1, <1>2, FinishFinds

LEMMA IndexedFinds ==
    ASSUME NEW S, NEW q, NEW policy, NEW r \in Indexed(S, q, policy)
    PROVE  r.entry \in S
<1> DEFINE matches == {e \in S : Relevance(e, q) > 0
                                /\ Allowed(e, policy, q.words \cap OldestWords # {})}
           scored == {[entry |-> e,
                       score |-> Relevance(e, q) + ProjectBoost(Relevance(e, q), e, policy)] :
                          e \in matches}
<1>1. \A s \in scored : s.entry \in S
  OBVIOUS
<1>2. r \in Finish(q, scored)
  BY DEF Indexed
<1> HIDE DEF scored
<1> QED BY <1>1, <1>2, FinishFinds

\* A search finds records.
LEMMA SearchFinds ==
    ASSUME NEW S, NEW q, NEW policy, NEW fresh \in BOOLEAN,
           NEW r \in SearchLocal(S, q, policy, fresh)
    PROVE  r.entry \in S
<1> DEFINE lexical == Lexical(S, q, policy, FALSE)
           records == {e \in S : e.kind # "curated"}
           indexed == Indexed(records, q, policy)
<1>1. \A s \in lexical : s.entry \in S
  BY LexicalFinds, Zenon
<1>2. \A s \in indexed : s.entry \in S
  BY IndexedFinds
<1>3. CASE fresh
  <2>1. r \in Truncate(Distinct(Interleaved(indexed, lexical)), policy.limit)
    BY <1>3 DEF SearchLocal, MergedLocal
  <2>2. r \in Interleaved(indexed, lexical)
    <3> HIDE DEF indexed, lexical
    <3> QED BY <2>1, CutIsRanked
  <2> HIDE DEF indexed, lexical
  <2> QED BY <1>1, <1>2, <2>2 DEF Interleaved
<1>4. CASE ~fresh
  <2>1. r \in Truncate(lexical, policy.limit)
    BY <1>4 DEF SearchLocal
  <2> HIDE DEF lexical
  <2> QED BY <1>1, <2>1 DEF Truncate
<1> QED BY <1>3, <1>4

LEMMA PickedIsHit ==
    ASSUME NEW hits, NEW r \in Picked(hits)
    PROVE  r \in hits /\ ~InView(r.entry)
BY DEF Picked, Truncate, Known

LEMMA BestIsHit ==
    ASSUME NEW S, NEW p, NEW fresh, NEW r \in BestHits(S, p, fresh)
    PROVE  r \in RecallHits(S, p, fresh)
BY DEF BestHits, BestOf, OfBest

\* A block holds what it is made of.
LEMMA PackedIsRanked ==
    ASSUME NEW ranking, NEW limit,
           NEW e \in Shown(Pack(ranking, limit)) \cup Pack(ranking, limit).pointers
    PROVE  e \in EntriesOf(ranking)
BY DEF Shown, Pack, EntriesOf

LEMMA ContextHolds ==
    ASSUME NEW S, NEW reader, NEW e \in EntriesOf(Context(S, reader))
    PROVE  e \in Suppressors(S, reader) /\ e \notin Superseded(S, reader)
<1> DEFINE hidden == Superseded(S, reader)
           eligible == {x \in S : Eligible(x, hidden, reader)}
<1>1. PICK r \in Context(S, reader) : r.entry = e
  BY DEF EntriesOf
<1>2. r \in Candidates(eligible)
  BY <1>1 DEF Context, WithinBudget, Distinct
<1>3. e \in eligible
  <2> HIDE DEF eligible
  <2> QED BY <1>1, <1>2 DEF Candidates
<1> QED BY <1>3 DEF Eligible, Suppressors, MaySuppress

-----------------------------------------------------------------------------
(* What is shown is current.                                               *)

\* Who resolves corrections among the same records.
SameReader(a, b) == a.sources = b.sources /\ a.viewer = b.viewer

LEMMA SameCorrections ==
    ASSUME NEW S, NEW a, NEW b, SameReader(a, b)
    PROVE  Suppressors(S, a) = Suppressors(S, b)
BY DEF SameReader, Suppressors, MaySuppress, SourceAllowed

LEMMA ReadersAreTheSame ==
    ASSUME NEW project
    PROVE  SameReader(PolicyIn(project), Policy) /\ SameReader(ReaderIn(project), Reader)
BY PromptRecallAssumption DEF SameReader, PolicyIn, ReaderIn

\* What no correction hides.
LEMMA UnsuppressedIsCurrent ==
    ASSUME NEW reader, NEW e \in Suppressors(entries, reader),
           e \notin ExplicitlySuppressed(Suppressors(entries, reader), {})
    PROVE  IsCurrentFor(e, reader)
BY DEF IsCurrentFor, ExplicitlySuppressed, NamesOldFact

LEMMA RecalledIsPicked ==
    ASSUME NEW p, NEW hits, NEW picked,
           NEW e \in Shown(RecallOf(p, hits, picked).block)
                       \cup RecallOf(p, hits, picked).block.pointers
    PROVE  e \in EntriesOf(picked) /\ MaySuppress(e, PolicyIn(p.project))
<1> DEFINE reader == [PolicyIn(p.project) EXCEPT !.strategy = Reader.strategy,
                          !.searchOnly = TRUE, !.filterProject = FALSE,
                          !.budget = SizeOf(EntriesOf(picked))]
           space == Min({HostLimit, Envelope})
           block == Pack(Context(EntriesOf(picked), reader), [max |-> space, alone |-> space])
<1>1. Shown(NoRecall.block) = {} /\ NoRecall.block.pointers = {}
  BY DEF NoRecall, EmptyBlock, Shown
<1>2. RecallOf(p, hits, picked).block \in {NoRecall.block, block}
  BY DEF RecallOf
<1>3. e \in Shown(block) \cup block.pointers
  BY <1>1, <1>2
<1>4. e \in EntriesOf(Context(EntriesOf(picked), reader))
  <2> HIDE DEF reader, space
  <2> QED BY <1>3, PackedIsRanked
<1>5. e \in Suppressors(EntriesOf(picked), reader)
  <2> HIDE DEF reader
  <2> QED BY <1>4, ContextHolds
<1>6. SameReader(reader, PolicyIn(p.project))
  BY PromptRecallAssumption DEF SameReader, PolicyIn
<1>7. e \in Suppressors(EntriesOf(picked), PolicyIn(p.project))
  <2> HIDE DEF reader
  <2> QED BY <1>5, <1>6, SameCorrections
<1> QED BY <1>7 DEF Suppressors

\* What recall shows or names is current, and the model does not see it yet.
LEMMA RecalledIsCurrent ==
    ASSUME NEW p, NEW fresh \in BOOLEAN,
           NEW e \in Shown(Recall(entries, p, fresh).block)
                       \cup Recall(entries, p, fresh).block.pointers
    PROVE  IsCurrentFor(e, Policy) /\ ~InView(e)
<1> DEFINE hits == BestHits(entries, p, fresh)
           policy == PolicyIn(p.project)
           hidden == ExplicitlySuperseded(entries, policy)
<1>1. e \in EntriesOf(Picked(hits)) /\ MaySuppress(e, policy)
  BY RecalledIsPicked DEF Recall, RecallFrom
<1>2. PICK r \in Picked(hits) : r.entry = e
  BY <1>1 DEF EntriesOf
<1>3. r \in hits /\ ~InView(e)
  BY <1>2, PickedIsHit
<1>4. r \in HitsExcept(entries, p, fresh, hidden)
  BY <1>3, BestIsHit DEF RecallHits
<1>5. e \notin hidden /\ e \in entries
  <2> HIDE DEF hidden
  <2> QED BY <1>2, <1>4, SearchFinds DEF HitsExcept, HitsWithin
<1>6. Suppressors(entries, policy) = Suppressors(entries, Policy)
  BY ReadersAreTheSame, SameCorrections
<1>7. e \in Suppressors(entries, Policy)
  BY <1>1, <1>5, <1>6 DEF Suppressors
<1>8. e \notin ExplicitlySuppressed(Suppressors(entries, Policy), {})
  BY <1>5, <1>6 DEF ExplicitlySuperseded
<1> QED BY <1>3, <1>7, <1>8, UnsuppressedIsCurrent

LEMMA AssembledIsCurrent ==
    ASSUME NEW project, NEW e \in EntriesOf(Assembly(entries, project))
    PROVE  IsCurrentFor(e, Reader)
<1> DEFINE reader == ReaderIn(project)
<1>1. e \in Suppressors(entries, reader) /\ e \notin Superseded(entries, reader)
  BY ContextHolds DEF Assembly
<1>2. Suppressors(entries, reader) = Suppressors(entries, Reader)
  BY ReadersAreTheSame, SameCorrections
<1>3. e \notin ExplicitlySuppressed(Suppressors(entries, Reader), {})
  BY <1>1, <1>2 DEF Superseded, Suppressed
<1> QED BY <1>1, <1>2, <1>3, UnsuppressedIsCurrent

LEMMA OutputIsAssembled ==
    ASSUME NEW S, NEW p, NEW r \in ForPrompt(S, p).sections
    PROVE  r \in Assembly(S, p.project)
BY DEF ForPrompt, OutputOf, PromptOutput

\* What context shows is current, not delivered, and not in what recall carries.
LEMMA ContextIsCurrent ==
    ASSUME NEW p, NEW carried, NEW space,
           NEW e \in Shown(ContextBlock(entries, p, carried, space).block)
    PROVE  /\ IsCurrentFor(e, Reader)
           /\ Memory(e) \notin session.delivered \cup Memories(carried)
<1> DEFINE output == ForPrompt(entries, p)
           block == Pack(Due(output, carried), [max |-> space, alone |-> HostLimit])
<1>1. Shown(NoContext.block) = {}
  BY DEF NoContext, EmptyBlock, Shown
<1>2. ContextBlock(entries, p, carried, space).block \in {NoContext.block, block}
  BY DEF ContextBlock, ContextOf
<1>3. e \in EntriesOf(Due(output, carried))
  BY <1>1, <1>2, PackedIsRanked
<1>4. PICK r \in output.sections :
          r.entry = e /\ Memory(e) \notin session.delivered \cup Memories(carried)
  BY <1>3 DEF Due, EntriesOf
<1>5. e \in EntriesOf(Assembly(entries, p.project))
  BY <1>4, OutputIsAssembled DEF EntriesOf
<1> QED BY <1>4, <1>5, AssembledIsCurrent

\* A response holds what is current.
CurrentResponse(r) ==
    /\ \A e \in Shown(r.recall.block) \cup r.recall.block.pointers : IsCurrentFor(e, Policy)
    /\ \A e \in Shown(r.context.block) : IsCurrentFor(e, Reader)

LEMMA NothingIsCurrent ==
    /\ Shown(NoRecall.block) = {} /\ NoRecall.block.pointers = {}
    /\ Shown(NoContext.block) = {}
BY DEF NoRecall, NoContext, EmptyBlock, Shown

LEMMA ResponseIsCurrent ==
    ASSUME NEW p, NEW fresh \in BOOLEAN
    PROVE  CurrentResponse(Response(entries, p, fresh))
<1> DEFINE recall == Recall(entries, p, fresh)
           context == ContextBlock(entries, p, {}, HostLimit)
<1>1. \A e \in Shown(recall.block) \cup recall.block.pointers : IsCurrentFor(e, Policy)
  BY RecalledIsCurrent
<1>2. \A carried, space : \A e \in Shown(ContextBlock(entries, p, carried, space).block) :
          IsCurrentFor(e, Reader)
  BY ContextIsCurrent
<1>3. CASE lifetime = "persistent"
  <2>1. Response(entries, p, fresh) = WithContext(entries, p, recall)
    BY <1>3 DEF Response
  <2> HIDE DEF recall
  <2> QED BY <1>1, <1>2, <2>1 DEF WithContext, CurrentResponse
<1>4. CASE lifetime # "persistent"
  <2>1. Response(entries, p, fresh) = UnlessContext(entries, p, fresh, context)
    BY <1>4 DEF Response
  <2>2. UnlessContext(entries, p, fresh, context).recall \in {NoRecall, recall}
    BY DEF UnlessContext
  <2>3. UnlessContext(entries, p, fresh, context).context = context
    BY DEF UnlessContext
  <2> HIDE DEF recall
  <2> QED BY <1>1, <1>2, <2>1, <2>2, <2>3, NothingIsCurrent DEF CurrentResponse
<1> QED BY <1>3, <1>4

LEMMA ShownOfResponse ==
    ASSUME NEW r, CurrentResponse(r), Shows(r), UNCHANGED entries
    PROVE  ShownIsCurrent'
BY DEF CurrentResponse, Shows, ShownIsCurrent, IsCurrentFor

LEMMA NothingShown ==
    ASSUME shown' = Nothing
    PROVE  ShownIsCurrent'
BY DEF Nothing, ShownIsCurrent

LEMMA PromptShows ==
    ASSUME NEW p, NEW fresh \in BOOLEAN, AnswerPrompt(p, fresh)
    PROVE  ShownIsCurrent'
<1> PICK r : r = Response(entries, p, fresh)
  OBVIOUS
<1>1. CurrentResponse(r)
  BY ResponseIsCurrent
<1>2. Shows(r) /\ UNCHANGED entries
  BY DEF AnswerPrompt, Answer
<1> QED BY <1>1, <1>2, ShownOfResponse

\* What a session start shows.
LEMMA StartDue ==
    ASSUME NEW project, NEW limit,
           NEW e \in Shown(Pack({r \in Assembly(entries, project) :
                                     Memory(r.entry) \notin session.delivered}, limit))
    PROVE  IsCurrentFor(e, Reader) /\ Memory(e) \notin session.delivered
<1> DEFINE due == {r \in Assembly(entries, project) : Memory(r.entry) \notin session.delivered}
<1>1. e \in EntriesOf(due)
  BY PackedIsRanked
<1>2. PICK r \in Assembly(entries, project) :
          r.entry = e /\ Memory(r.entry) \notin session.delivered
  BY <1>1 DEF EntriesOf
<1> QED BY <1>2, AssembledIsCurrent DEF EntriesOf

LEMMA StartIsCurrent ==
    ASSUME NEW project
    PROVE  CurrentResponse(StartResponse(project))
BY StartDue, NothingIsCurrent DEF CurrentResponse, StartResponse

LEMMA StartShows ==
    ASSUME NEW project, Start(project)
    PROVE  ShownIsCurrent'
<1> PICK r : r = StartResponse(project)
  OBVIOUS
<1>1. CurrentResponse(r)
  BY StartIsCurrent
<1>2. Shows(r) /\ UNCHANGED entries
  BY DEF Start
<1> QED BY <1>1, <1>2, ShownOfResponse

\* Whatever records correct whatever, and whatever the prompts: what a prompt
\* recalls, and what its context holds, no readable record corrects, except the
\* newest of a circle (select_prompt_recall, assemble_context_with_mode).
THEOREM RecallIsCurrent == Spec => []ShownIsCurrent
<1>1. Init => ShownIsCurrent
  BY DEF Init, Nothing, ShownIsCurrent
<1>2. ShownIsCurrent /\ [Next]_vars => ShownIsCurrent'
  <2> SUFFICES ASSUME ShownIsCurrent, [Next]_vars PROVE ShownIsCurrent'
    OBVIOUS
  <2>1. ASSUME NEW prompt, NEW project, NEW fresh \in BOOLEAN, Prompt(prompt, project, fresh)
        PROVE  ShownIsCurrent'
    <3> PICK p : p = Prepare(prompt, project)
      OBVIOUS
    <3> QED BY <2>1, PromptShows DEF Prompt
  <2>2. ASSUME NEW project, Start(project) PROVE ShownIsCurrent'
    BY <2>2, StartShows
  <2>3. ASSUME Compact PROVE ShownIsCurrent'
    BY <2>3, NothingShown DEF Compact
  <2>4. ASSUME NEW t \in corpus, Write(t) PROVE ShownIsCurrent'
    BY <2>4, NothingShown DEF Write
  <2>5. ASSUME NEW e \in entries, Expire(e) PROVE ShownIsCurrent'
    BY <2>5, NothingShown DEF Expire
  <2>6. CASE UNCHANGED vars
    BY <2>6 DEF vars, ShownIsCurrent, IsCurrentFor
  <2> QED BY <2>1, <2>2, <2>3, <2>4, <2>5, <2>6 DEF Next, Hook
<1> QED BY <1>1, <1>2, PTL DEF Spec

-----------------------------------------------------------------------------
(* Nothing is shown twice.                                                 *)

\* The session knows exactly what the model of a persistent host can see.
DeliveredIsVisible ==
    /\ "delivered" \in DOMAIN session
    /\ lifetime = "persistent" => visible = session.delivered

LEMMA ApplyDelivers ==
    ASSUME DeliveredIsVisible, NEW r, Shows(r), UNCHANGED lifetime,
           session' = Apply(session, r)
    PROVE  DeliveredIsVisible'
BY DEF DeliveredIsVisible, Shows, Apply

LEMMA AnswerDelivers ==
    ASSUME DeliveredIsVisible, NEW p, NEW r, Answer(p, r)
    PROVE  DeliveredIsVisible'
<1> PICK applied : applied = Apply(session, r)
  OBVIOUS
<1>1. session' = [applied EXCEPT !.topic = TopicOf(p)] /\ UNCHANGED lifetime /\ Shows(r)
  BY DEF Answer, world
<1>2. /\ "delivered" \in DOMAIN applied
      /\ lifetime = "persistent" =>
            applied.delivered = session.delivered
                \cup Memories(Shown(r.recall.block) \cup Shown(r.context.block))
  BY DEF Apply, DeliveredIsVisible
<1>3. "delivered" \in DOMAIN session' /\ session'.delivered = applied.delivered
  BY <1>1, <1>2
<1> QED BY <1>1, <1>2, <1>3 DEF DeliveredIsVisible, Shows

LEMMA SessionKnowsWhatIsVisible == Spec => []DeliveredIsVisible
<1>1. Init => DeliveredIsVisible
  BY DEF Init, Fresh, DeliveredIsVisible
<1>2. DeliveredIsVisible /\ [Next]_vars => DeliveredIsVisible'
  <2> SUFFICES ASSUME DeliveredIsVisible, [Next]_vars PROVE DeliveredIsVisible'
    OBVIOUS
  <2>1. ASSUME NEW prompt, NEW project, NEW fresh, Prompt(prompt, project, fresh)
        PROVE  DeliveredIsVisible'
    BY <2>1, AnswerDelivers DEF Prompt, AnswerPrompt
  <2>2. ASSUME NEW project, Start(project) PROVE DeliveredIsVisible'
    BY <2>2, ApplyDelivers DEF Start, world
  <2>3. ASSUME Compact PROVE DeliveredIsVisible'
    BY <2>3 DEF Compact, Fresh, DeliveredIsVisible
  <2>4. ASSUME UNCHANGED <<session, visible, world>> PROVE DeliveredIsVisible'
    BY <2>4 DEF DeliveredIsVisible, world
  <2>5. CASE UNCHANGED vars
    BY <2>4, <2>5 DEF vars, world
  <2> QED BY <2>1, <2>2, <2>3, <2>4, <2>5 DEF Next, Hook, Write, Expire
<1> QED BY <1>1, <1>2, PTL DEF Spec

\* Recall and context of one response share nothing, and neither repeats what
\* was delivered.
LEMMA ResponseIsNew ==
    ASSUME NEW p, NEW fresh \in BOOLEAN
    PROVE  LET recall == Shown(Response(entries, p, fresh).recall.block)
               context == Shown(Response(entries, p, fresh).context.block)
           IN  /\ recall \cap context = {}
               /\ \A e \in recall \cup context : Memory(e) \notin session.delivered
<1> DEFINE recall == Recall(entries, p, fresh)
           context == ContextBlock(entries, p, {}, HostLimit)
<1>1. \A e \in Shown(recall.block) : Memory(e) \notin session.delivered
  BY RecalledIsCurrent DEF InView
<1>2. \A carried, space : \A e \in Shown(ContextBlock(entries, p, carried, space).block) :
          Memory(e) \notin session.delivered \cup Memories(carried)
  BY ContextIsCurrent
<1>3. CASE lifetime = "persistent"
  <2> DEFINE space == HostLimit - recall.block.used
             filled == ContextBlock(entries, p, Shown(recall.block), space)
  <2>1. Response(entries, p, fresh) = [recall |-> recall, context |-> filled]
    BY <1>3 DEF Response, WithContext
  <2>2. \A e \in Shown(filled.block) :
            Memory(e) \notin session.delivered \cup Memories(Shown(recall.block))
    BY <1>2
  <2> HIDE DEF recall, filled
  <2>3. Shown(recall.block) \cap Shown(filled.block) = {}
    BY <2>2 DEF Memories
  <2> QED BY <1>1, <2>1, <2>2, <2>3
<1>4. CASE lifetime # "persistent"
  <2> PICK r : r = UnlessContext(entries, p, fresh, context)
    OBVIOUS
  <2>1. Response(entries, p, fresh) = r
    BY <1>4 DEF Response
  <2>2. r.context = context /\ r.recall = IF Emitted(context.block) THEN NoRecall ELSE recall
    BY DEF UnlessContext
  <2>3. Emitted(context.block) \/ Shown(context.block) = {}
    BY DEF Emitted, Shown
  <2>4. \A e \in Shown(context.block) : Memory(e) \notin session.delivered
    BY <1>2
  <2> HIDE DEF recall, context
  <2> QED BY <1>1, <2>1, <2>2, <2>3, <2>4, NothingIsCurrent
<1> QED BY <1>3, <1>4

LEMMA StartIsNew ==
    ASSUME NEW project
    PROVE  /\ Shown(StartResponse(project).recall.block) = {}
           /\ \A e \in Shown(StartResponse(project).context.block) :
                  Memory(e) \notin session.delivered
BY StartDue, NothingIsCurrent DEF StartResponse

\* Whatever was shown before, whatever compactions, revisions and corrections
\* came between: an answer or a start holds nothing twice and nothing that the
\* model still sees (RecallKnown, tracked_context_selection).
THEOREM NothingIsRepeated == Spec => []NothingTwice
<1>1. ASSUME DeliveredIsVisible PROVE NothingTwice
  <2>1. ASSUME NEW r,
               Shown(r.recall.block) \cap Shown(r.context.block) = {},
               \A e \in Shown(r.recall.block) \cup Shown(r.context.block) :
                   Memory(e) \notin session.delivered
        PROVE  NoneTwice(r)
    BY <1>1, <2>1 DEF NoneTwice, NoRepeat, Memories, DeliveredIsVisible
  <2>2. ASSUME NEW project PROVE NoneTwice(StartResponse(project))
    BY <2>1, StartIsNew
  <2>3. ASSUME NEW p PROVE NoneTwice(Response(entries, p, TRUE))
    <3> PICK fresh \in BOOLEAN : fresh = TRUE
      OBVIOUS
    <3>1. NoneTwice(Response(entries, p, fresh))
      BY <2>1, ResponseIsNew
    <3> QED BY <3>1, Zenon
  <2> QED BY <2>2, <2>3, Zenon DEF NothingTwice
<1>2. DeliveredIsVisible => NothingTwice
  BY <1>1
<1> QED BY <1>2, SessionKnowsWhatIsVisible, PTL

-----------------------------------------------------------------------------
(* Ranked lists.                                                           *)

\* No two places are equal.
Ordered(ranking) ==
    \A u, v \in ranking : u = v \/ Precedes(u.rank, v.rank) \/ Precedes(v.rank, u.rank)

\* An entry comes once.
OneEach(ranking) == \A u, v \in ranking : u.entry = v.entry => u = v

\* Finitely many entries with ranks of n numbers.
Comparable(L, n) ==
    /\ IsFiniteSet(L)
    /\ \A r \in L : DOMAIN r.rank = 1..n /\ \A i \in 1..n : r.rank[i] \in Int

\* In ranks of five numbers that differ in the last, the first difference decides.
LEMMA PrecedesInFive ==
    ASSUME NEW x, NEW y, DOMAIN x = 1..5, DOMAIN y = 1..5,
           \A i \in 1..5 : x[i] \in Int /\ y[i] \in Int, x[5] # y[5]
    PROVE  Precedes(x, y) \/ Precedes(y, x)
<1>1. ASSUME NEW i \in 1..5, x[i] # y[i], \A j \in 1..(i - 1) : x[j] = y[j]
      PROVE  Precedes(x, y) \/ Precedes(y, x)
  <2>1. x[i] > y[i] \/ y[i] > x[i]
    BY <1>1
  <2>2. \A j \in 1..(i - 1) : y[j] = x[j]
    BY <1>1
  <2> QED BY <1>1, <2>1, <2>2 DEF Precedes
<1>2. DOMAIN x \subseteq Nat /\ 5 \in 1..5
  OBVIOUS
<1>3. PICK i \in {k \in 1..5 : x[k] # y[k]} :
          \A j \in {k \in 1..5 : x[k] # y[k]} : i <= j
  <2> DEFINE T == {k \in 1..5 : x[k] # y[k]}
  <2>1. T \in SUBSET Nat /\ T # {}
    BY <1>2
  <2> HIDE DEF T
  <2>2. PICK i \in T : \A j \in T : i <= j
    BY <2>1, LeastNatural
  <2> QED BY <2>2 DEF T
<1>4. ASSUME NEW j \in 1..(i - 1) PROVE x[j] = y[j]
  BY <1>3
<1> QED BY <1>1, <1>3, <1>4

LEMMA PrecedesInOne ==
    ASSUME NEW m \in Int, NEW n \in Int
    PROVE  Precedes(<<m>>, <<n>>) <=> m > n
<1> PICK x, y : x = <<m>> /\ y = <<n>>
  OBVIOUS
<1>1. DOMAIN x = {1} /\ x[1] = m /\ y[1] = n
  OBVIOUS
<1>2. 1..(1 - 1) = {}
  OBVIOUS
<1>3. Precedes(x, y) => m > n
  BY <1>1 DEF Precedes
<1>4. m > n => Precedes(x, y)
  <2>1. ASSUME m > n PROVE Precedes(x, y)
    <3>1. 1 \in DOMAIN x /\ x[1] > y[1] /\ \A j \in 1..(1 - 1) : x[j] = y[j]
      BY <1>1, <1>2, <2>1
    <3> QED BY <3>1, Zenon DEF Precedes
  <2> QED BY <2>1
<1> QED BY <1>3, <1>4

\* Entries that differ have ranks that differ, by their identities.
LEMMA RankedIsOrdered ==
    ASSUME NEW S, \A e \in S : IsRecord(e), Distinguished(S), NEW q, NEW scored,
           \A s \in scored : s.entry \in S /\ s.score \in Int,
           \A s, t \in scored : s.entry = t.entry => s = t
    PROVE  Ordered(Ranked(q, scored))
<1> SUFFICES ASSUME NEW u \in Ranked(q, scored), NEW v \in Ranked(q, scored), u # v
             PROVE  Precedes(u.rank, v.rank) \/ Precedes(v.rank, u.rank)
  BY DEF Ordered
<1>1. PICK s \in scored :
          u = [entry |-> s.entry,
               rank |-> <<s.score, s.entry.confidence, TemporalRank(q, s.entry),
                          s.entry.made, 0 - s.entry.id>>]
  BY DEF Ranked
<1>2. PICK t \in scored :
          v = [entry |-> t.entry,
               rank |-> <<t.score, t.entry.confidence, TemporalRank(q, t.entry),
                          t.entry.made, 0 - t.entry.id>>]
  BY DEF Ranked
<1>3. s.entry # t.entry
  BY <1>1, <1>2
<1>4. s.entry.id # t.entry.id
  BY <1>3 DEF Distinguished
<1>5. /\ s.entry.confidence \in Int /\ s.entry.made \in Int /\ s.entry.id \in Int
      /\ t.entry.confidence \in Int /\ t.entry.made \in Int /\ t.entry.id \in Int
      /\ s.score \in Int /\ t.score \in Int
  BY DEF IsRecord, Dated
<1>6. TemporalRank(q, s.entry) \in Int /\ TemporalRank(q, t.entry) \in Int
  BY <1>5 DEF TemporalRank, TemporalIntent
<1>7. 0 - s.entry.id \in Int /\ 0 - t.entry.id \in Int /\ 0 - s.entry.id # 0 - t.entry.id
  BY <1>4, <1>5
<1> PICK x, y : x = u.rank /\ y = v.rank
  OBVIOUS
<1>8. /\ DOMAIN x = 1..5 /\ DOMAIN y = 1..5
      /\ x[5] = 0 - s.entry.id /\ y[5] = 0 - t.entry.id
  BY <1>1, <1>2
<1>9. ASSUME NEW i \in 1..5 PROVE x[i] \in Int /\ y[i] \in Int
  BY <1>1, <1>2, <1>5, <1>6, <1>7
<1> QED BY <1>7, <1>8, <1>9, PrecedesInFive

LEMMA RankedIsFinite ==
    ASSUME NEW q, NEW scored, IsFiniteSet(scored)
    PROVE  IsFiniteSet(Finish(q, scored))
<1> DEFINE f == [s \in scored |->
                    [entry |-> s.entry,
                     rank  |-> <<s.score, s.entry.confidence, TemporalRank(q, s.entry),
                                 s.entry.made, 0 - s.entry.id>>]]
<1>1. f \in Surjection(scored, Ranked(q, scored))
  BY DEF Ranked, Surjection
<1>2. IsFiniteSet(Ranked(q, scored))
  <2> HIDE DEF f
  <2> QED BY <1>1, FS_Surjection
<1>3. Finish(q, scored) \subseteq Ranked(q, scored)
  BY DEF Finish, Distinct
<1> QED BY <1>2, <1>3, FS_Subset

-----------------------------------------------------------------------------
(* Scores are numbers.                                                     *)

LEMMA BoostIsWhole ==
    ASSUME NEW score \in Nat, NEW e, NEW policy
    PROVE  ProjectBoost(score, e, policy) \in Int
<1>1. score \div 10 \in Int
  OBVIOUS
<1>2. ASSUME NEW k \in Int PROVE Max({1, k}) \in Int
  <2>1. \E x \in {1, k} : \A y \in {1, k} : x >= y
    BY <1>2
  <2>2. Max({1, k}) \in {1, k}
    BY <2>1, Zenon DEF Max
  <2> QED BY <1>2, <2>2
<1> QED BY <1>1, <1>2 DEF ProjectBoost

LEMMA IndexedIsOrdered ==
    ASSUME NEW S, IsFiniteSet(S), \A e \in S : IsRecord(e), Distinguished(S),
           NEW q, IsFiniteSet(q.words), NEW policy
    PROVE  /\ IsFiniteSet(Indexed(S, q, policy)) /\ OneEach(Indexed(S, q, policy))
           /\ Ordered(Indexed(S, q, policy))
<1> DEFINE matches == {e \in S : Relevance(e, q) > 0
                                /\ Allowed(e, policy, q.words \cap OldestWords # {})}
           f == [e \in matches |->
                    [entry |-> e,
                     score |-> Relevance(e, q) + ProjectBoost(Relevance(e, q), e, policy)]]
           scored == {f[e] : e \in matches}
<1>1. Indexed(S, q, policy) = Finish(q, scored)
  BY DEF Indexed
<1>2. ASSUME NEW e PROVE Relevance(e, q) \in Nat
  <2>1. Cardinality(q.words \cap (e.text \cup e.meta)) \in Nat
    BY FS_Intersection, FS_CardinalityType
  <2> QED BY <2>1 DEF Relevance
<1>3. ASSUME NEW s \in scored
      PROVE  s.entry \in matches /\ s.score \in Int /\ s = f[s.entry]
  BY <1>2, <1>3, BoostIsWhole
<1>4. f \in Surjection(matches, scored)
  BY DEF Surjection
<1>5. matches \subseteq S
  OBVIOUS
<1> HIDE DEF f, matches
<1>6. IsFiniteSet(scored)
  BY <1>4, <1>5, FS_Subset, FS_Surjection
<1> HIDE DEF scored
<1>7. IsFiniteSet(Finish(q, scored))
  BY <1>6, RankedIsFinite
<1>8. Ordered(Ranked(q, scored))
  BY <1>3, <1>5, RankedIsOrdered
<1>9. Ordered(Finish(q, scored))
  BY <1>8 DEF Finish, Distinct, Ordered
<1>10. OneEach(Finish(q, scored))
  <2>1. OneEach(Ranked(q, scored))
    BY <1>3 DEF OneEach, Ranked
  <2> QED BY <2>1 DEF Finish, Distinct, OneEach
<1> QED BY <1>1, <1>7, <1>9, <1>10

LEMMA RankedIsComparable ==
    ASSUME NEW S, \A e \in S : IsRecord(e), NEW q, NEW scored, IsFiniteSet(scored),
           \A s \in scored : s.entry \in S /\ s.score \in Int,
           \A s, t \in scored : s.entry = t.entry => s = t
    PROVE  Comparable(Finish(q, scored), 5) /\ OneEach(Finish(q, scored))
<1>1. \A r \in Finish(q, scored) : r \in Ranked(q, scored)
  BY DEF Finish, Distinct
<1>2. OneEach(Ranked(q, scored))
  BY DEF OneEach, Ranked
<1>3. ASSUME NEW r \in Ranked(q, scored)
      PROVE  DOMAIN r.rank = 1..5 /\ \A i \in 1..5 : r.rank[i] \in Int
  <2>1. PICK s \in scored :
            r = [entry |-> s.entry,
                 rank |-> <<s.score, s.entry.confidence, TemporalRank(q, s.entry),
                            s.entry.made, 0 - s.entry.id>>]
    BY DEF Ranked
  <2>2. /\ s.entry.confidence \in Int /\ s.entry.made \in Int /\ s.entry.id \in Int
        /\ s.score \in Int
    BY DEF IsRecord, Dated
  <2>3. TemporalRank(q, s.entry) \in Int /\ 0 - s.entry.id \in Int
    BY <2>2 DEF TemporalRank, TemporalIntent
  <2> QED BY <2>1, <2>2, <2>3
<1> QED BY <1>1, <1>2, <1>3, RankedIsFinite DEF Comparable, OneEach

LEMMA TextScoreIsWhole ==
    ASSUME NEW text, NEW q, IsFiniteSet(q.words)
    PROVE  TextScore(text, q) \in Nat
<1>1. Terms(q) \subseteq q.words
  BY DEF Terms
<1>2. IsFiniteSet(Terms(q))
  BY <1>1, FS_Subset
<1>3. IsFiniteSet(Matched(text, q))
  BY <1>2, FS_Subset DEF Matched
<1>4. IsFiniteSet({p \in Terms(q) \X (1..3) : p[2] <= TermScore(text, p[1])})
  <2>1. IsFiniteSet(1..3)
    <3>1. 1 \in Int /\ 3 \in Int
      OBVIOUS
    <3> QED BY <3>1, FS_Interval
  <2>2. IsFiniteSet(Terms(q) \X (1..3))
    BY <1>2, <2>1, FS_Product, Zenon
  <2> QED BY <2>2, FS_Subset
<1>5. /\ Cardinality(Terms(q)) \in Nat /\ Cardinality(Matched(text, q)) \in Nat
      /\ Points(text, q) \in Nat
  BY <1>2, <1>3, <1>4, FS_CardinalityType DEF Points
<1>6. /\ 100 + 20 * Cardinality(Terms(q)) \in Nat
      /\ 10 * Cardinality(Matched(text, q)) + Points(text, q) \in Nat
  BY <1>5
<1>7. 0 \in Nat
  OBVIOUS
<1> QED BY <1>6, <1>7, Zenon DEF TextScore

LEMMA ScoreIsWhole ==
    ASSUME NEW e, NEW q, IsFiniteSet(q.words), IsFiniteSet(q.entities), NEW policy,
           NEW canonical \in BOOLEAN
    PROVE  Score(e, q, policy, canonical) \in Int
<1>1. \A text : TextScore(text, q) \in Nat
  BY TextScoreIsWhole
<1>2. WordScore(e, q) \in Nat
  <2>1. TextScore(e.text, q) + TextScore(e.meta, q) \in Nat
    BY <1>1
  <2> QED BY <1>1, <2>1 DEF WordScore
<1>3. EntityScore(e, q) \in Nat
  <2>1. Cardinality(e.entities \cap q.entities) \in Nat
    BY FS_Intersection, FS_CardinalityType
  <2> QED BY <2>1 DEF EntityScore
<1> PICK base : base = IF canonical /\ e.kind = "curated" THEN TextScore(e.text, q)
                       ELSE WordScore(e, q) + EntityScore(e, q)
  OBVIOUS
<1>4. base \in Nat
  BY <1>1, <1>2, <1>3
<1>5. ProjectBoost(base, e, policy) \in Int
  BY <1>4, BoostIsWhole
<1> QED BY <1>4, <1>5 DEF Score

LEMMA LexicalIsComparable ==
    ASSUME NEW S, IsFiniteSet(S), \A e \in S : IsRecord(e), NEW q, IsFiniteSet(q.words),
           IsFiniteSet(q.entities), NEW policy, NEW canonical \in BOOLEAN
    PROVE  /\ Comparable(Lexical(S, q, policy, canonical), 5)
           /\ OneEach(Lexical(S, q, policy, canonical))
<1> DEFINE allowed == {x \in S : Allowed(x, policy, TemporalIntent(q) = "oldest")}
           f == [e \in allowed |-> [entry |-> e, score |-> Score(e, q, policy, canonical)]]
           all == {f[e] : e \in allowed}
           scored == {s \in all : s.score > 0}
<1>1. Lexical(S, q, policy, canonical) = Finish(q, scored)
  BY Zenon DEF Lexical
<1>2. f \in Surjection(allowed, all)
  BY DEF Surjection
<1>3. allowed \subseteq S /\ scored \subseteq all
  OBVIOUS
<1>4. ASSUME NEW s \in all
      PROVE  s.entry \in S /\ s.score \in Int /\ s = f[s.entry]
  <2>1. PICK e \in allowed : s = f[e]
    OBVIOUS
  <2>2. s = [entry |-> e, score |-> Score(e, q, policy, canonical)]
    BY <2>1
  <2>3. Score(e, q, policy, canonical) \in Int
    BY ScoreIsWhole
  <2>4. s.entry = e /\ s.score \in Int
    BY <2>2, <2>3
  <2> QED BY <1>3, <2>1, <2>4
<1> HIDE DEF f, allowed
<1>5. IsFiniteSet(all)
  BY <1>2, <1>3, FS_Subset, FS_Surjection
<1> HIDE DEF all
<1>6. IsFiniteSet(scored)
  BY <1>3, <1>5, FS_Subset
<1>7. \A s, t \in scored : s.entry = t.entry => s = t
  BY <1>3, <1>4
<1>8. \A s \in scored : s.entry \in S /\ s.score \in Int
  BY <1>3, <1>4
<1> HIDE DEF scored
<1> QED BY <1>1, <1>6, <1>7, <1>8, RankedIsComparable

-----------------------------------------------------------------------------
(* The best lexical match in the merge of the searches.                    *)

\* The first of a list has nothing before it.
LEMMA FirstPlace ==
    ASSUME NEW L, IsFiniteSet(L), NEW r
    PROVE  /\ Place(L, r) \in Nat /\ Place(L, r) >= 1
           /\ Place(L, r) <= 1 <=> Before(L, r) = {}
<1>1. IsFiniteSet(Before(L, r))
  BY FS_Subset DEF Before
<1>2. /\ Cardinality(Before(L, r)) \in Nat
      /\ Cardinality(Before(L, r)) = 0 <=> Before(L, r) = {}
  BY <1>1, FS_CardinalityType, FS_EmptySet
<1> QED BY <1>2 DEF Place

\* After one entry at most, the place is the second at the latest.
LEMMA SecondPlace ==
    ASSUME NEW L, NEW r, NEW X, IsFiniteSet(X), Cardinality(X) <= 1,
           Before(L, r) \subseteq X
    PROVE  Place(L, r) <= 2
<1>1. IsFiniteSet(Before(L, r)) /\ Cardinality(Before(L, r)) <= Cardinality(X)
  BY FS_Subset
<1>2. Cardinality(Before(L, r)) \in Nat /\ Cardinality(X) \in Nat
  BY <1>1, FS_CardinalityType
<1> QED BY <1>1, <1>2 DEF Place

\* Of a list without equal places one entry at most comes first.
LEMMA OneIsFirst ==
    ASSUME NEW L, Ordered(L), NEW u \in L, NEW v \in L,
           Before(L, u) = {}, Before(L, v) = {}
    PROVE  u = v
BY DEF Ordered, Before

LEMMA AtMostOne ==
    ASSUME NEW X, \A u, v \in X : u = v
    PROVE  IsFiniteSet(X) /\ Cardinality(X) <= 1
<1>1. CASE X = {}
  BY <1>1, FS_EmptySet
<1>2. CASE X # {}
  <2>1. PICK u \in X : X = {u}
    BY <1>2
  <2> QED BY <2>1, FS_Singleton
<1> QED BY <1>1, <1>2

\* In turns with any other list, the first entry of a list comes second at the
\* latest, or the one with the same words does.
LEMMA InterleavedKeeps ==
    ASSUME NEW a, IsFiniteSet(a), Ordered(a), NEW b, IsFiniteSet(b),
           NEW r \in b, Before(b, r) = {}
    PROVE  \E s \in MergedLocal(a, b, 2) : SameWords(r, s)
<1> PICK I : I = Interleaved(a, b)
  OBVIOUS
<1> PICK x : x = [entry |-> r.entry, rank |-> <<0 - 2>>]
  OBVIOUS
<1> DEFINE F == {s \in I : s.rank = <<0 - 1>>}
<1>1. x \in I
  <2>1. Place(b, r) = 1
    BY FirstPlace
  <2>2. 0 - 2 * Place(b, r) = 0 - 2
    BY <2>1
  <2> QED BY <2>2 DEF Interleaved
<1>2. ASSUME NEW s \in I
      PROVE  \E k \in Int : s.rank = <<k>> /\ k <= 0 - 1
  <2>1. CASE \E t \in a : s = [entry |-> t.entry, rank |-> <<1 - 2 * Place(a, t)>>]
    BY <2>1, FirstPlace
  <2>2. CASE \E t \in b : s = [entry |-> t.entry, rank |-> <<0 - 2 * Place(b, t)>>]
    BY <2>2, FirstPlace
  <2> QED BY <2>1, <2>2 DEF Interleaved
<1>3. ASSUME NEW s \in F
      PROVE  \E t \in a : s = [entry |-> t.entry, rank |-> <<0 - 1>>] /\ Before(a, t) = {}
  <2>1. CASE \E t \in a : s = [entry |-> t.entry, rank |-> <<1 - 2 * Place(a, t)>>]
    <3>1. PICK t \in a : s = [entry |-> t.entry, rank |-> <<1 - 2 * Place(a, t)>>]
      BY <2>1
    <3>2. Place(a, t) \in Nat /\ 1 - 2 * Place(a, t) = 0 - 1
      BY <3>1, FirstPlace
    <3>3. Place(a, t) <= 1
      BY <3>2
    <3> QED BY <3>1, <3>2, <3>3, FirstPlace
  <2>2. CASE \E t \in b : s = [entry |-> t.entry, rank |-> <<0 - 2 * Place(b, t)>>]
    <3>1. PICK t \in b : s = [entry |-> t.entry, rank |-> <<0 - 2 * Place(b, t)>>]
      BY <2>2
    <3>2. Place(b, t) \in Nat /\ 0 - 2 * Place(b, t) = 0 - 1
      BY <3>1, FirstPlace
    <3> QED BY <3>2
  <2> QED BY <2>1, <2>2 DEF Interleaved
<1>4. \A u, v \in F : u = v
  BY <1>3, OneIsFirst
<1>5. ASSUME NEW n \in Int, n <= 0 - 1, NEW y, y.rank = <<n>>, NEW s \in Before(I, y)
      PROVE  \E k \in Int : s.rank = <<k>> /\ k <= 0 - 1 /\ k > n
  <2>1. s \in I /\ Precedes(s.rank, y.rank)
    BY <1>5 DEF Before
  <2>2. PICK k \in Int : s.rank = <<k>> /\ k <= 0 - 1
    BY <1>2, <2>1
  <2> QED BY <1>5, <2>1, <2>2, PrecedesInOne
<1>6. Before(I, x) \subseteq F
  <2> SUFFICES ASSUME NEW s \in Before(I, x) PROVE s \in F
    OBVIOUS
  <2>1. PICK k \in Int : s.rank = <<k>> /\ k <= 0 - 1 /\ k > 0 - 2
    BY <1>5
  <2>2. k = 0 - 1
    BY <2>1
  <2> QED BY <2>1, <2>2 DEF Before
<1>7. ASSUME NEW s \in F PROVE Before(I, s) = {}
  BY <1>5
<1> PICK D : D = Distinct(I)
  OBVIOUS
<1>8. ASSUME NEW s \in D, Before(I, s) \subseteq F, SameWords(r, s)
      PROVE  \E m \in MergedLocal(a, b, 2) : SameWords(r, m)
  <2>1. Before(D, s) \subseteq F
    BY <1>8 DEF Before, Distinct
  <2> HIDE DEF F
  <2>2. Place(D, s) <= 2
    BY <1>4, <2>1, AtMostOne, SecondPlace
  <2> QED BY <1>8, <2>2 DEF MergedLocal, Truncate
<1>9. CASE x \in D
  <2>1. SameWords(r, x)
    BY DEF SameWords
  <2> QED BY <1>6, <1>8, <1>9, <2>1
<1>10. CASE x \notin D
  <2>1. PICK s \in Before(I, x) : SameWords(x, s)
    BY <1>1, <1>10 DEF Distinct
  <2>2. s \in F /\ s \in D
    BY <1>6, <1>7, <2>1 DEF Distinct
  <2>3. SameWords(r, s)
    BY <2>1 DEF SameWords
  <2> QED BY <1>7, <1>8, <2>2, <2>3
<1> QED BY <1>9, <1>10

LEMMA TakeNewAdds ==
    ASSUME NEW out, IsFiniteSet(out), NEW ranking, IsFiniteSet(ranking)
    PROVE  /\ IsFiniteSet(TakeNew(out, ranking)) /\ out \subseteq TakeNew(out, ranking)
           /\ \A x \in TakeNew(out, ranking) :
                  x \in out \/ x.rank = <<0 - Cardinality(out)>>
<1> DEFINE new == {r \in ranking : \A s \in out : ~SameWords(r, s)}
           taken == {x \in new : Before(new, x) = {}}
           f == [r \in taken |-> [entry |-> r.entry, rank |-> <<0 - Cardinality(out)>>]]
           added == {f[r] : r \in taken}
<1>1. TakeNew(out, ranking) = out \cup added
  BY DEF TakeNew
<1>2. f \in Surjection(taken, added)
  BY DEF Surjection
<1>3. taken \subseteq ranking
  OBVIOUS
<1>4. ASSUME NEW x \in added PROVE x.rank = <<0 - Cardinality(out)>>
  <2>1. PICK t \in taken : x = [entry |-> t.entry, rank |-> <<0 - Cardinality(out)>>]
    BY <1>4
  <2> HIDE DEF taken
  <2> QED BY <2>1
<1> HIDE DEF f, taken
<1>5. IsFiniteSet(added)
  BY <1>2, <1>3, FS_Subset, FS_Surjection
<1> HIDE DEF added
<1> QED BY <1>1, <1>4, <1>5, FS_Union

\* s keeps its place: only entries of first come before it.
Held(out, s, first) ==
    /\ IsFiniteSet(out) /\ s \in out
    /\ \A x \in out : \E k \in Nat :
           x.rank = <<0 - k>> /\ (k = 0 => x \in first \/ s.rank = <<0>>)

LEMMA TakeNewHolds ==
    ASSUME NEW out, NEW s, NEW first, Held(out, s, first), NEW ranking, IsFiniteSet(ranking)
    PROVE  Held(TakeNew(out, ranking), s, first)
<1>1. IsFiniteSet(out) /\ s \in out
  BY DEF Held
<1>2. Cardinality(out) \in Nat /\ Cardinality(out) # 0
  BY <1>1, FS_CardinalityType, FS_EmptySet
<1>3. ASSUME NEW x \in TakeNew(out, ranking)
      PROVE  \E k \in Nat : x.rank = <<0 - k>> /\ (k = 0 => x \in first \/ s.rank = <<0>>)
  <2>1. CASE x \in out
    BY <2>1 DEF Held
  <2>2. CASE x.rank = <<0 - Cardinality(out)>>
    BY <1>2, <2>2
  <2> QED BY <1>1, <2>1, <2>2, TakeNewAdds
<1> QED BY <1>1, <1>3, TakeNewAdds DEF Held

\* What the first turn takes.
Early(s) == s.rank = <<0>> \/ s.rank = <<0 - 1>>

LEMMA HeldIsSecond ==
    ASSUME NEW out, NEW s, NEW first, Held(out, s, first), Early(s),
           IsFiniteSet(first), Cardinality(first) <= 1
    PROVE  Place(out, s) <= 2
<1> PICK n \in {0, 0 - 1} : s.rank = <<n>>
  BY DEF Early
<1>1. ASSUME NEW x \in Before(out, s) PROVE x \in first
  <2>1. x \in out /\ Precedes(x.rank, s.rank)
    BY <1>1 DEF Before
  <2>2. PICK k \in Nat : x.rank = <<0 - k>> /\ (k = 0 => x \in first \/ s.rank = <<0>>)
    BY <2>1 DEF Held
  <2>3. 0 - k > n
    BY <2>1, <2>2, PrecedesInOne
  <2>4. k = 0 /\ n = 0 - 1
    BY <2>3
  <2>5. <<0 - 1>> # <<0>>
    OBVIOUS
  <2> QED BY <2>2, <2>4, <2>5
<1> QED BY <1>1, SecondPlace

\* The first turn takes the first entry of b, unless it takes its words from a.
LEMMA FirstTurn ==
    ASSUME NEW a, IsFiniteSet(a), Ordered(a), NEW b, IsFiniteSet(b),
           NEW r \in b, Before(b, r) = {}
    PROVE  \E s, first :
               /\ SameWords(r, s) /\ Early(s)
               /\ IsFiniteSet(first) /\ Cardinality(first) <= 1
               /\ Held(Turn({}, a, b), s, first)
<1> PICK first : first = TakeNew({}, a)
  OBVIOUS
<1>1. ASSUME NEW x \in first
      PROVE  \E t \in a : x = [entry |-> t.entry, rank |-> <<0>>] /\ Before(a, t) = {}
  <2>1. 0 - Cardinality({}) = 0
    BY FS_EmptySet
  <2> QED BY <1>1, <2>1 DEF TakeNew
<1>2. \A u, v \in first : u = v
  BY <1>1, OneIsFirst
<1>3. IsFiniteSet(first) /\ Cardinality(first) <= 1
  BY <1>2, AtMostOne
<1>4. Cardinality(first) \in {0, 1}
  BY <1>3, FS_CardinalityType
<1>5. Turn({}, a, b) = TakeNew(first, b)
  BY DEF Turn
<1>6. CASE \E s \in first : SameWords(r, s)
  <2>1. PICK s \in first : SameWords(r, s)
    BY <1>6
  <2>2. s.rank = <<0>> /\ \A x \in first : x.rank = <<0 - 0>>
    BY <1>1
  <2>3. Held(first, s, first)
    BY <1>3, <2>2 DEF Held
  <2> QED BY <1>3, <1>5, <2>1, <2>2, <2>3, TakeNewHolds DEF Early
<1>7. CASE \A s \in first : ~SameWords(r, s)
  <2> PICK s : s = [entry |-> r.entry, rank |-> <<0 - Cardinality(first)>>]
    OBVIOUS
  <2> PICK new : new = {x \in b : \A y \in first : ~SameWords(x, y)}
    OBVIOUS
  <2>1. r \in new /\ Before(new, r) = {}
    BY <1>7 DEF Before
  <2>2. s \in TakeNew(first, b)
    BY <2>1 DEF TakeNew
  <2>3. Early(s) /\ SameWords(r, s)
    BY <1>4 DEF SameWords, Early
  <2>4. ASSUME NEW x \in TakeNew(first, b)
        PROVE  \E k \in Nat : x.rank = <<0 - k>> /\ (k = 0 => x \in first \/ s.rank = <<0>>)
    <3>1. CASE x \in first
      <4>1. x.rank = <<0 - 0>>
        BY <1>1, <3>1
      <4> QED BY <3>1, <4>1
    <3>2. CASE x.rank = <<0 - Cardinality(first)>>
      BY <1>4, <3>2
    <3> QED BY <1>3, <3>1, <3>2, TakeNewAdds
  <2>5. Held(TakeNew(first, b), s, first)
    BY <1>3, <2>2, <2>4, TakeNewAdds DEF Held
  <2> QED BY <1>3, <1>5, <2>3, <2>5
<1> QED BY <1>6, <1>7

\* The lists taken so far, turn by turn.
Turns(n, a, b, f) == f = [k \in 0..n |-> IF k = 0 THEN {} ELSE Turn(f[k - 1], a, b)]

LEMMA TurnsExist ==
    ASSUME NEW a, NEW b, NEW n \in Nat
    PROVE  \E f : Turns(n, a, b, f)
<1> DEFINE T == {m \in Nat : ~\E f : Turns(m, a, b, f)}
<1>1. CASE T = {}
  BY <1>1
<1>2. CASE T # {}
  <2>1. PICK m \in T : \A k \in T : m <= k
    <3>1. T \in SUBSET Nat
      OBVIOUS
    <3> HIDE DEF T
    <3> QED BY <1>2, <3>1, LeastNatural
  <2>2. m \in Nat /\ ~\E f : Turns(m, a, b, f)
    OBVIOUS
  <2>3. m # 0
    <3> PICK f : f = [k \in 0..0 |-> {}]
      OBVIOUS
    <3>1. Turns(0, a, b, f)
      BY DEF Turns
    <3> QED BY <2>2, <3>1
  <2>4. m - 1 \in Nat /\ m - 1 \notin T
    BY <2>1, <2>2, <2>3
  <2>5. PICK f : Turns(m - 1, a, b, f)
    BY <2>4
  <2> PICK g : g = [k \in 0..m |-> IF k = m THEN Turn(f[m - 1], a, b) ELSE f[k]]
    OBVIOUS
  <2>6. ASSUME NEW k \in 0..m
        PROVE  g[k] = IF k = 0 THEN {} ELSE Turn(g[k - 1], a, b)
    <3>1. CASE k = m
      BY <2>2, <2>3, <3>1
    <3>2. CASE k # m
      <4>1. k \in 0..(m - 1) /\ (k # 0 => k - 1 \in 0..(m - 1))
        BY <2>2, <3>2
      <4>2. g[k] = f[k] /\ (k # 0 => g[k - 1] = f[k - 1])
        BY <2>2, <3>2, <4>1
      <4>3. f[k] = IF k = 0 THEN {} ELSE Turn(f[k - 1], a, b)
        BY <2>5, <4>1 DEF Turns
      <4> QED BY <4>2, <4>3
    <3> QED BY <3>1, <3>2
  <2>7. g = [k \in 0..m |-> IF k = 0 THEN {} ELSE Turn(g[k - 1], a, b)]
    BY <2>6
  <2>8. Turns(m, a, b, g)
    BY <2>7 DEF Turns
  <2> QED BY <2>2, <2>8
<1> QED BY <1>1, <1>2

\* Of memories that two lists share each is taken once; the first entry of a
\* list, or the one with the same words, comes second at the latest.
LEMMA MergedKeeps ==
    ASSUME NEW a, IsFiniteSet(a), Ordered(a), NEW b, IsFiniteSet(b),
           NEW r \in b, Before(b, r) = {}
    PROVE  \E s \in Merged(a, b, 2) : SameWords(r, s)
<1> PICK turns : turns = Cardinality(a) + Cardinality(b)
  OBVIOUS
<1>1. turns \in Nat /\ turns >= 1
  <2>1. /\ Cardinality(a) \in Nat /\ Cardinality(b) \in Nat
        /\ Cardinality(b) = 0 <=> b = {}
    BY FS_CardinalityType, FS_EmptySet
  <2> QED BY <2>1
<1> PICK f : f = CHOOSE g : g = [n \in 0..turns |->
                                    IF n = 0 THEN {} ELSE Turn(g[n - 1], a, b)]
  OBVIOUS
<1>2. f = [n \in 0..turns |-> IF n = 0 THEN {} ELSE Turn(f[n - 1], a, b)]
  <2>1. \E g : g = [n \in 0..turns |-> IF n = 0 THEN {} ELSE Turn(g[n - 1], a, b)]
    <3>1. PICK g : Turns(turns, a, b, g)
      BY <1>1, TurnsExist
    <3> QED BY <3>1, Zenon DEF Turns
  <2> QED BY <2>1, Zenon
<1>3. Merged(a, b, 2) = Truncate(f[turns], 2)
  BY Zenon DEF Merged
<1>4. PICK s, first :
          /\ SameWords(r, s) /\ Early(s)
          /\ IsFiniteSet(first) /\ Cardinality(first) <= 1
          /\ Held(Turn({}, a, b), s, first)
  BY FirstTurn
<1>5. f[1] = Turn({}, a, b)
  <2>1. 0 \in 0..turns /\ 1 \in 0..turns /\ 1 - 1 = 0 /\ 1 # 0
    BY <1>1
  <2>2. f[0] = {} /\ f[1] = Turn(f[1 - 1], a, b)
    BY <1>2, <2>1
  <2> QED BY <2>1, <2>2
<1>6. ASSUME NEW n \in Nat, n >= 1, n < turns, Held(f[n], s, first)
      PROVE  Held(f[n + 1], s, first)
  <2>1. f[n + 1] = TakeNew(TakeNew(f[n], a), b)
    <3>1. n + 1 \in 0..turns /\ n + 1 # 0 /\ (n + 1) - 1 = n
      BY <1>1, <1>6
    <3>2. f[n + 1] = Turn(f[(n + 1) - 1], a, b)
      BY <1>2, <3>1
    <3> QED BY <3>1, <3>2 DEF Turn
  <2> QED BY <1>6, <2>1, TakeNewHolds
<1>7. Held(f[turns], s, first)
  <2> DEFINE T == {n \in Nat : n >= 1 /\ n <= turns /\ ~Held(f[n], s, first)}
  <2> SUFFICES ASSUME T # {} PROVE FALSE
    <3>1. Held(f[turns], s, first) \/ turns \in T
      BY <1>1
    <3> QED BY <3>1
  <2>1. PICK m \in T : \A n \in T : m <= n
    <3>1. T \in SUBSET Nat
      OBVIOUS
    <3> HIDE DEF T
    <3> QED BY <3>1, LeastNatural
  <2>2. m # 1
    BY <1>4, <1>5
  <2>3. m - 1 \in Nat /\ m - 1 >= 1 /\ m - 1 < turns /\ m - 1 \notin T
    BY <1>1, <2>1, <2>2
  <2>4. Held(f[m - 1], s, first)
    BY <1>1, <2>3
  <2>5. Held(f[(m - 1) + 1], s, first)
    BY <1>6, <2>3, <2>4
  <2>6. (m - 1) + 1 = m
    OBVIOUS
  <2> QED BY <2>5, <2>6
<1>8. Place(f[turns], s) <= 2 /\ s \in f[turns]
  BY <1>4, <1>7, HeldIsSecond DEF Held
<1> QED BY <1>3, <1>4, <1>8 DEF Truncate

LEMMA KeptInTurns ==
    ASSUME NEW a, IsFiniteSet(a), Ordered(a), NEW b, IsFiniteSet(b)
    PROVE  Keeps(b, MergedLocal(a, b, 2)) /\ Keeps(b, Merged(a, b, 2))
<1>1. ASSUME NEW r \in Truncate(b, 1)
      PROVE  /\ \E s \in MergedLocal(a, b, 2) : SameWords(r, s)
             /\ \E s \in Merged(a, b, 2) : SameWords(r, s)
  <2>1. r \in b /\ Before(b, r) = {}
    BY FirstPlace DEF Truncate
  <2> QED BY <2>1, InterleavedKeeps, MergedKeeps
<1> QED BY <1>1 DEF Keeps

\* Whatever the scores are and however many matches the full-text index has, the
\* best lexical match, or one with the same words, is among the first two results
\* of both searches: of a hook's and of "hm search" (search.rs:
\* search_indexed_with_resources, merge_ranked_sources).
THEOREM LexicalIsKept == Spec => []SearchKeepsLexical
<1>1. ASSUME EntriesOK PROVE SearchKeepsLexical
  <2> SUFFICES ASSUME NEW q \in Topics, NEW project \in Projects, NEW policy,
                      policy = [PolicyIn(project) EXCEPT !.limit = 2]
               PROVE  /\ Keeps(Lexical(entries, q, policy, FALSE),
                               SearchLocal(entries, q, policy, TRUE))
                      /\ Keeps(Lexical(entries, q, policy, TRUE),
                               SearchStore(entries, q, policy, TRUE))
    BY Zenon DEF SearchKeepsLexical
  <2> PICK records : records = {e \in entries : e.kind # "curated"}
    OBVIOUS
  <2>1. policy.limit = 2
    BY PromptRecallAssumption DEF PolicyIn
  <2>2. IsFiniteSet(q.words) /\ IsFiniteSet(q.entities)
    BY PromptRecallAssumption
  <2>3. /\ IsFiniteSet(records) /\ Distinguished(records)
        /\ \A e \in records : IsRecord(e)
    BY <1>1, FS_Subset DEF EntriesOK, Distinguished
  <2>4. ASSUME NEW canonical \in BOOLEAN
        PROVE  IsFiniteSet(Lexical(entries, q, policy, canonical))
    BY <1>1, <2>2, LexicalIsComparable DEF EntriesOK, Comparable
  <2>5. /\ IsFiniteSet(Indexed(records, q, policy)) /\ Ordered(Indexed(records, q, policy))
        /\ IsFiniteSet(Indexed(entries, q, policy)) /\ Ordered(Indexed(entries, q, policy))
    BY <1>1, <2>2, <2>3, IndexedIsOrdered DEF EntriesOK
  <2>6. ASSUME NEW canonical \in BOOLEAN
        PROVE  /\ Keeps(Lexical(entries, q, policy, canonical),
                        MergedLocal(Indexed(records, q, policy),
                                    Lexical(entries, q, policy, canonical), 2))
               /\ Keeps(Lexical(entries, q, policy, canonical),
                        Merged(Indexed(entries, q, policy),
                               Lexical(entries, q, policy, canonical), 2))
    BY <2>4, <2>5, KeptInTurns
  <2>7. SearchLocal(entries, q, policy, TRUE)
          = MergedLocal(Indexed(records, q, policy), Lexical(entries, q, policy, FALSE), 2)
    BY <2>1, Zenon DEF SearchLocal
  <2>8. SearchStore(entries, q, policy, TRUE)
          = Merged(Indexed(entries, q, policy), Lexical(entries, q, policy, TRUE), 2)
    BY <2>1, Zenon DEF SearchStore
  <2>9. TRUE \in BOOLEAN /\ FALSE \in BOOLEAN
    OBVIOUS
  <2> QED BY <2>6, <2>7, <2>8, <2>9, Zenon
<1>2. EntriesOK => SearchKeepsLexical
  BY <1>1
<1> QED BY <1>2, RecordsAreDistinguished, PTL

-----------------------------------------------------------------------------
(* How far a search goes.                                                  *)

LEMMA PrecedesIsStrict ==
    ASSUME NEW n \in Nat, NEW x, NEW y, NEW z,
           DOMAIN x = 1..n, DOMAIN y = 1..n, DOMAIN z = 1..n,
           \A i \in 1..n : x[i] \in Int /\ y[i] \in Int /\ z[i] \in Int
    PROVE  /\ ~Precedes(x, x)
           /\ Precedes(x, y) /\ Precedes(y, z) => Precedes(x, z)
<1>1. ~Precedes(x, x)
  BY DEF Precedes
<1>2. ASSUME Precedes(x, y), Precedes(y, z) PROVE Precedes(x, z)
  <2>1. PICK i \in 1..n : x[i] > y[i] /\ \A j \in 1..(i - 1) : x[j] = y[j]
    BY <1>2 DEF Precedes
  <2>2. PICK k \in 1..n : y[k] > z[k] /\ \A j \in 1..(k - 1) : y[j] = z[j]
    BY <1>2 DEF Precedes
  <2>3. PICK m \in 1..n : m = IF i <= k THEN i ELSE k
    OBVIOUS
  <2>4. x[m] > z[m]
    <3>1. CASE i < k
      <4>1. i \in 1..(k - 1)
        BY <3>1
      <4> QED BY <2>1, <2>2, <2>3, <3>1, <4>1
    <3>2. CASE i > k
      <4>1. k \in 1..(i - 1)
        BY <3>2
      <4> QED BY <2>1, <2>2, <2>3, <3>2, <4>1
    <3>3. CASE i = k
      BY <2>1, <2>2, <2>3, <3>3
    <3> QED BY <3>1, <3>2, <3>3
  <2>5. ASSUME NEW j \in 1..(m - 1) PROVE x[j] = z[j]
    <3>1. j \in 1..(i - 1) /\ j \in 1..(k - 1)
      BY <2>3
    <3> QED BY <2>1, <2>2, <3>1
  <2> QED BY <2>4, <2>5 DEF Precedes
<1> QED BY <1>1, <1>2

LEMMA SomeIsFirst ==
    ASSUME NEW n \in Nat, NEW L, Comparable(L, n), L # {}
    PROVE  \E x \in L : Before(L, x) = {}
<1> DEFINE f == [x \in L |-> Before(L, x)]
<1>1. \A x \in L : IsFiniteSet(f[x])
  BY FS_Subset DEF Comparable, Before
<1>2. PICK x \in L : \A y \in L : f[y] \subseteq f[x] => f[y] = f[x]
  <2> HIDE DEF f
  <2> QED BY <1>1, SmallestSet
<1>3. ASSUME NEW s \in Before(L, x) PROVE FALSE
  <2>1. s \in L /\ Precedes(s.rank, x.rank)
    BY <1>3 DEF Before
  <2>2. ASSUME NEW t \in Before(L, s) PROVE t \in Before(L, x)
    <3>1. t \in L /\ Precedes(t.rank, s.rank)
      BY <2>2 DEF Before
    <3>2. Precedes(t.rank, x.rank)
      BY <2>1, <3>1, PrecedesIsStrict DEF Comparable
    <3> QED BY <3>1, <3>2 DEF Before
  <2>3. f[s] = f[x]
    BY <1>2, <2>1, <2>2
  <2>4. s \in Before(L, s)
    BY <1>3, <2>1, <2>3
  <2> QED BY <2>1, <2>4, PrecedesIsStrict DEF Before, Comparable
<1> QED BY <1>3

\* A list that is cut off holds as many entries as the limit.
LEMMA CutIsFull ==
    ASSUME NEW n \in Nat, NEW L, Comparable(L, n), NEW limit \in Nat
    PROVE  \/ Truncate(L, limit) = L
           \/ Cardinality(Truncate(L, limit)) >= limit
<1> DEFINE T == Truncate(L, limit)
           X == L \ T
<1> SUFFICES ASSUME T # L PROVE Cardinality(T) >= limit
  OBVIOUS
<1>1. T \subseteq L /\ IsFiniteSet(T)
  BY FS_Subset DEF Truncate, Comparable
<1>2. X # {} /\ Comparable(X, n)
  BY <1>1, FS_Difference DEF Comparable
<1>3. PICK x \in X : Before(X, x) = {}
  <2> HIDE DEF X
  <2> QED BY <1>2, SomeIsFirst
<1>4. Before(L, x) \subseteq T
  BY <1>3 DEF Before
<1>5. ~(Place(L, x) <= limit)
  BY <1>3 DEF Truncate
<1> HIDE DEF T
<1>6. /\ Cardinality(Before(L, x)) <= Cardinality(T)
      /\ Cardinality(Before(L, x)) \in Nat /\ Cardinality(T) \in Nat
  BY <1>1, <1>4, FS_Subset, FS_CardinalityType
<1> QED BY <1>5, <1>6 DEF Place

\* In turns of two lists an entry comes once, and every place is a number.
LEMMA InterleavedIsComparable ==
    ASSUME NEW a, IsFiniteSet(a), OneEach(a), NEW b, IsFiniteSet(b), OneEach(b)
    PROVE  /\ Comparable(Distinct(Interleaved(a, b)), 1)
           /\ OneEach(Distinct(Interleaved(a, b)))
<1> DEFINE f == [r \in a |-> [entry |-> r.entry, rank |-> <<1 - 2 * Place(a, r)>>]]
           g == [r \in b |-> [entry |-> r.entry, rank |-> <<0 - 2 * Place(b, r)>>]]
           odd == {f[r] : r \in a}
           even == {g[r] : r \in b}
<1> PICK I : I = Interleaved(a, b)
  OBVIOUS
<1>1. I = odd \cup even
  BY DEF Interleaved
<1>2. ASSUME NEW s \in odd
      PROVE  \E t \in a, k \in Int : /\ s = f[t] /\ s.entry = t.entry
                                     /\ s.rank = <<1 - 2 * k>>
  <2>1. PICK t \in a : s = f[t]
    OBVIOUS
  <2>2. Place(a, t) \in Int
    BY FirstPlace
  <2> QED BY <2>1, <2>2
<1>3. ASSUME NEW s \in even
      PROVE  \E t \in b, k \in Int : /\ s = g[t] /\ s.entry = t.entry
                                     /\ s.rank = <<0 - 2 * k>>
  <2>1. PICK t \in b : s = g[t]
    OBVIOUS
  <2>2. Place(b, t) \in Int
    BY FirstPlace
  <2> QED BY <2>1, <2>2
<1>4. f \in Surjection(a, odd) /\ g \in Surjection(b, even)
  BY DEF Surjection
<1> HIDE DEF f, g
<1>5. IsFiniteSet(odd) /\ IsFiniteSet(even)
  BY <1>4, FS_Surjection
<1> HIDE DEF odd, even
<1>6. IsFiniteSet(I)
  BY <1>1, <1>5, FS_Union
<1>7. ASSUME NEW s \in I PROVE \E k \in Int : s.rank = <<k>>
  <2>1. CASE s \in odd
    <3>1. PICK k \in Int : s.rank = <<1 - 2 * k>>
      BY <1>2, <2>1
    <3> QED BY <3>1
  <2>2. CASE s \in even
    <3>1. PICK k \in Int : s.rank = <<0 - 2 * k>>
      BY <1>3, <2>2
    <3> QED BY <3>1
  <2> QED BY <1>1, <2>1, <2>2
<1> PICK D : D = Distinct(I)
  OBVIOUS
<1>8. D \subseteq I
  BY DEF Distinct
<1>9. ASSUME NEW r \in D PROVE DOMAIN r.rank = 1..1 /\ \A i \in 1..1 : r.rank[i] \in Int
  <2>1. PICK k \in Int : r.rank = <<k>>
    BY <1>7, <1>8
  <2> QED BY <2>1
<1>10. ASSUME NEW r \in D, NEW s \in D, r.entry = s.entry, r \in odd, s \in odd
       PROVE  r = s
  BY <1>2, <1>10 DEF OneEach
<1>11. ASSUME NEW r \in D, NEW s \in D, r.entry = s.entry, r \in even, s \in even
       PROVE  r = s
  BY <1>3, <1>11 DEF OneEach
<1>12. ASSUME NEW r \in D, NEW s \in D, r.entry = s.entry, r \in odd, s \in even
       PROVE  FALSE
  <2>1. PICK k \in Int : r.rank = <<1 - 2 * k>>
    BY <1>2, <1>12
  <2>2. PICK m \in Int : s.rank = <<0 - 2 * m>>
    BY <1>3, <1>12
  <2>3. 1 - 2 * k > 0 - 2 * m \/ 0 - 2 * m > 1 - 2 * k
    OBVIOUS
  <2>4. Precedes(r.rank, s.rank) \/ Precedes(s.rank, r.rank)
    <3> PICK u \in Int, v \in Int : u = 1 - 2 * k /\ v = 0 - 2 * m
      OBVIOUS
    <3>1. Precedes(<<u>>, <<v>>) \/ Precedes(<<v>>, <<u>>)
      BY <2>3, PrecedesInOne
    <3> QED BY <2>1, <2>2, <3>1
  <2>5. SameWords(r, s) /\ SameWords(s, r)
    BY <1>12 DEF SameWords
  <2> QED BY <1>8, <1>12, <2>4, <2>5 DEF Distinct, Before
<1>13. OneEach(D)
  BY <1>1, <1>8, <1>10, <1>11, <1>12 DEF OneEach
<1>14. Comparable(D, 1)
  BY <1>6, <1>8, <1>9, FS_Subset DEF Comparable
<1> QED BY <1>13, <1>14

\* Policies that differ in their limits.
SamePolicy(a, b) ==
    /\ a.sources = b.sources /\ a.scopes = b.scopes /\ a.viewer = b.viewer
    /\ a.project = b.project /\ a.projectOnly = b.projectOnly

LEMMA LimitDecidesNothing ==
    ASSUME NEW S, NEW q, NEW a, NEW b, SamePolicy(a, b), NEW canonical \in BOOLEAN
    PROVE  /\ Lexical(S, q, a, canonical) = Lexical(S, q, b, canonical)
           /\ Indexed(S, q, a) = Indexed(S, q, b)
<1>1. ASSUME NEW e, NEW expired \in BOOLEAN
      PROVE  Allowed(e, a, expired) <=> Allowed(e, b, expired)
  BY DEF SamePolicy, Allowed, SourceAllowed, ScopeAllowed, ProjectAllowed
<1>2. \A e, score : ProjectBoost(score, e, a) = ProjectBoost(score, e, b)
  BY DEF SamePolicy, ProjectBoost
<1>3. \A e : Score(e, q, a, canonical) = Score(e, q, b, canonical)
  BY <1>2 DEF Score
<1>4. Lexical(S, q, a, canonical) = Lexical(S, q, b, canonical)
  <2> PICK expired \in BOOLEAN : expired = (TemporalIntent(q) = "oldest")
    BY DEF TemporalIntent
  <2>1. {x \in S : Allowed(x, a, expired)} = {x \in S : Allowed(x, b, expired)}
    BY <1>1
  <2> PICK allowed : allowed = {x \in S : Allowed(x, a, expired)}
    OBVIOUS
  <2>2. {[entry |-> e, score |-> Score(e, q, a, canonical)] : e \in allowed}
          = {[entry |-> e, score |-> Score(e, q, b, canonical)] : e \in allowed}
    BY <1>3
  <2> QED BY <2>1, <2>2, Zenon DEF Lexical
<1>5. Indexed(S, q, a) = Indexed(S, q, b)
  <2> PICK expired \in BOOLEAN : expired = (q.words \cap OldestWords # {})
    OBVIOUS
  <2> DEFINE matches == {e \in S : Relevance(e, q) > 0 /\ Allowed(e, a, expired)}
  <2>1. {e \in S : Relevance(e, q) > 0 /\ Allowed(e, b, expired)} = matches
    BY <1>1
  <2> HIDE DEF matches
  <2>2. {[entry |-> e, score |-> Relevance(e, q) + ProjectBoost(Relevance(e, q), e, a)] :
             e \in matches}
          = {[entry |-> e, score |-> Relevance(e, q) + ProjectBoost(Relevance(e, q), e, b)] :
                 e \in matches}
    BY <1>2
  <2> QED BY <2>1, <2>2 DEF Indexed, matches
<1> QED BY <1>4, <1>5

\* A search cuts a list off, the same list at every limit.
CutsOff(L, S, q, policy, fresh) ==
    \A wide : SamePolicy(wide, policy) =>
        SearchLocal(S, q, wide, fresh) = Truncate(L, wide.limit)

LEMMA SearchIsCut ==
    ASSUME NEW S, IsFiniteSet(S), \A e \in S : IsRecord(e), Distinguished(S),
           NEW q, IsFiniteSet(q.words), IsFiniteSet(q.entities),
           NEW policy, NEW fresh \in BOOLEAN
    PROVE  \E L : \E n \in Nat :
               Comparable(L, n) /\ OneEach(L) /\ CutsOff(L, S, q, policy, fresh)
<1> PICK canonical \in BOOLEAN : canonical = FALSE
  OBVIOUS
<1> PICK lexical : lexical = Lexical(S, q, policy, canonical)
  OBVIOUS
<1> PICK records : records = {e \in S : e.kind # "curated"}
  OBVIOUS
<1> PICK indexed : indexed = Indexed(records, q, policy)
  OBVIOUS
<1>1. Comparable(lexical, 5) /\ OneEach(lexical)
  BY LexicalIsComparable
<1>2. ASSUME NEW wide, SamePolicy(wide, policy)
      PROVE  /\ Lexical(S, q, wide, canonical) = lexical
             /\ Indexed(records, q, wide) = indexed
  BY <1>2, LimitDecidesNothing
<1>3. CASE fresh
  <2> PICK L : L = Distinct(Interleaved(indexed, lexical))
    OBVIOUS
  <2>1. IsFiniteSet(indexed) /\ OneEach(indexed)
    <3>1. /\ IsFiniteSet(records) /\ Distinguished(records)
          /\ \A e \in records : IsRecord(e)
      BY FS_Subset DEF Distinguished
    <3> QED BY <3>1, IndexedIsOrdered
  <2>2. Comparable(L, 1) /\ OneEach(L)
    BY <1>1, <2>1, InterleavedIsComparable DEF Comparable
  <2>3. ASSUME NEW wide, SamePolicy(wide, policy)
        PROVE  SearchLocal(S, q, wide, fresh) = Truncate(L, wide.limit)
    <3>1. Lexical(S, q, wide, FALSE) = lexical /\ Indexed(records, q, wide) = indexed
      BY <1>2, <2>3, Zenon
    <3> QED BY <1>3, <3>1, Zenon DEF SearchLocal, MergedLocal
  <2>4. 1 \in Nat
    OBVIOUS
  <2> QED BY <2>2, <2>3, <2>4, Zenon DEF CutsOff
<1>4. CASE ~fresh
  <2>1. ASSUME NEW wide, SamePolicy(wide, policy)
        PROVE  SearchLocal(S, q, wide, fresh) = Truncate(lexical, wide.limit)
    <3>1. Lexical(S, q, wide, FALSE) = lexical
      BY <1>2, <2>1, Zenon
    <3> QED BY <1>4, <3>1, Zenon DEF SearchLocal
  <2>2. 5 \in Nat
    OBVIOUS
  <2> QED BY <1>1, <2>1, <2>2, Zenon DEF CutsOff
<1> QED BY <1>3, <1>4

-----------------------------------------------------------------------------
(* What a session knows.                                                   *)

KnownIsFinite ==
    /\ {"delivered", "turnRecall", "turnContext"} \subseteq DOMAIN session
    /\ IsFiniteSet(session.delivered)
    /\ IsFiniteSet(session.turnRecall) /\ IsFiniteSet(session.turnContext)

LEMMA NamedIsFinite ==
    ASSUME NEW X, IsFiniteSet(X)
    PROVE  IsFiniteSet(Memories(X)) /\ IsFiniteSet(Ids(X))
<1> DEFINE f == [e \in X |-> Memory(e)]
           g == [e \in X |-> e.id]
<1>1. f \in Surjection(X, Memories(X)) /\ g \in Surjection(X, Ids(X))
  BY DEF Surjection, Memories, Ids
<1> HIDE DEF f, g
<1> QED BY <1>1, FS_Surjection

LEMMA ApplyIsFinite ==
    ASSUME EntriesOK, KnownIsFinite, NEW r, CurrentResponse(r), NEW s, s = Apply(session, r)
    PROVE  /\ DOMAIN s = DOMAIN session
           /\ IsFiniteSet(s.delivered)
           /\ IsFiniteSet(s.turnRecall) /\ IsFiniteSet(s.turnContext)
<1> PICK recall : recall = r.recall.block
  OBVIOUS
<1> PICK context : context = r.context.block
  OBVIOUS
<1>1. /\ Shown(recall) \subseteq entries /\ recall.pointers \subseteq entries
      /\ Shown(context) \subseteq entries
  BY DEF CurrentResponse, IsCurrentFor, Suppressors
<1>2. /\ IsFiniteSet(Shown(recall) \cup Shown(context)) /\ IsFiniteSet(Shown(context))
      /\ IsFiniteSet(Shown(recall) \cup recall.pointers)
  BY <1>1, FS_Subset DEF EntriesOK
<1> PICK memories : memories = Memories(Shown(recall) \cup Shown(context))
  OBVIOUS
<1> PICK ids : ids = Ids(Shown(recall) \cup recall.pointers)
  OBVIOUS
<1> PICK others : others = Ids(Shown(context))
  OBVIOUS
<1>3. IsFiniteSet(memories) /\ IsFiniteSet(ids) /\ IsFiniteSet(others)
  BY <1>2, NamedIsFinite
<1>4. /\ IsFiniteSet(session.delivered \cup memories)
      /\ IsFiniteSet(session.turnRecall \cup ids)
  BY <1>3, FS_Union DEF KnownIsFinite
<1>5. /\ DOMAIN s = DOMAIN session
      /\ s.delivered \in {session.delivered, session.delivered \cup memories}
      /\ s.turnRecall \in {session.turnRecall, session.turnRecall \cup ids}
      /\ s.turnContext \in {session.turnContext, others}
  BY DEF Apply, KnownIsFinite
<1> QED BY <1>3, <1>4, <1>5 DEF KnownIsFinite

LEMMA AnswerIsFinite ==
    ASSUME EntriesOK, KnownIsFinite, NEW p, NEW fresh \in BOOLEAN, AnswerPrompt(p, fresh)
    PROVE  KnownIsFinite'
<1> PICK r : r = Response(entries, p, fresh)
  OBVIOUS
<1> PICK s : s = Apply(session, r)
  OBVIOUS
<1>1. session' = [s EXCEPT !.topic = TopicOf(p)]
  BY DEF AnswerPrompt, Answer
<1>2. /\ DOMAIN s = DOMAIN session /\ IsFiniteSet(s.delivered)
      /\ IsFiniteSet(s.turnRecall) /\ IsFiniteSet(s.turnContext)
  BY ApplyIsFinite, ResponseIsCurrent
<1>3. /\ DOMAIN session' = DOMAIN session /\ session'.delivered = s.delivered
      /\ session'.turnRecall = s.turnRecall /\ session'.turnContext = s.turnContext
  BY <1>1, <1>2 DEF KnownIsFinite
<1> QED BY <1>2, <1>3 DEF KnownIsFinite

LEMMA SessionKnowsFinitely == Spec => []KnownIsFinite
<1>1. Init => KnownIsFinite
  BY FS_EmptySet DEF Init, Fresh, KnownIsFinite
<1>2. EntriesOK /\ KnownIsFinite /\ [Next]_vars => KnownIsFinite'
  <2> SUFFICES ASSUME EntriesOK, KnownIsFinite, [Next]_vars PROVE KnownIsFinite'
    OBVIOUS
  <2>1. ASSUME NEW prompt, NEW project, NEW fresh \in BOOLEAN, Prompt(prompt, project, fresh)
        PROVE  KnownIsFinite'
    <3> PICK p : p = Prepare(prompt, project)
      OBVIOUS
    <3> QED BY <2>1, AnswerIsFinite DEF Prompt
  <2>2. ASSUME NEW project, Start(project) PROVE KnownIsFinite'
    <3> PICK r : r = StartResponse(project)
      OBVIOUS
    <3> PICK s : s = Apply(session, r)
      OBVIOUS
    <3>1. session' = s
      BY <2>2 DEF Start
    <3>2. /\ DOMAIN s = DOMAIN session /\ IsFiniteSet(s.delivered)
          /\ IsFiniteSet(s.turnRecall) /\ IsFiniteSet(s.turnContext)
      BY ApplyIsFinite, StartIsCurrent
    <3> QED BY <3>1, <3>2 DEF KnownIsFinite
  <2>3. ASSUME Compact PROVE KnownIsFinite'
    BY <2>3, FS_EmptySet DEF Compact, Fresh, KnownIsFinite
  <2>4. ASSUME UNCHANGED session PROVE KnownIsFinite'
    BY <2>4 DEF KnownIsFinite
  <2>5. CASE UNCHANGED vars
    BY <2>4, <2>5 DEF vars
  <2> QED BY <2>1, <2>2, <2>3, <2>4, <2>5 DEF Next, Hook, Write, Expire
<1> QED BY <1>1, <1>2, RecordsAreDistinguished, PTL DEF Spec

LEMMA InjectedIsFewer ==
    ASSUME NEW X, NEW Y, IsFiniteSet(Y), NEW f, \A r \in X : f[r] \in Y,
           \A r, s \in X : f[r] = f[s] => r = s
    PROVE  IsFiniteSet(X) /\ Cardinality(X) <= Cardinality(Y)
<1> PICK g : g = [r \in X |-> f[r]]
  OBVIOUS
<1>1. g \in Injection(X, Y)
  BY DEF Injection, IsInjective
<1> QED BY <1>1, FS_Injection

LEMMA UnionIsFewer ==
    ASSUME NEW X, IsFiniteSet(X), NEW Y, IsFiniteSet(Y)
    PROVE  /\ IsFiniteSet(X \cup Y) /\ Cardinality(X \cup Y) <= Cardinality(X) + Cardinality(Y)
           /\ Cardinality(X) \in Nat /\ Cardinality(Y) \in Nat
           /\ Cardinality(X \cup Y) \in Nat
<1>1. /\ IsFiniteSet(X \cup Y) /\ IsFiniteSet(X \cap Y)
      /\ Cardinality(X \cup Y) = Cardinality(X) + Cardinality(Y) - Cardinality(X \cap Y)
  BY FS_Union, FS_Intersection
<1>2. /\ Cardinality(X) \in Nat /\ Cardinality(Y) \in Nat /\ Cardinality(X \cap Y) \in Nat
      /\ Cardinality(X \cup Y) \in Nat
  BY <1>1, FS_CardinalityType
<1> QED BY <1>1, <1>2

\* Of the records that a search finds, the session knows as many as it counts.
LEMMA KnownIsCounted ==
    ASSUME EntriesOK, KnownIsFinite, NEW T, OneEach(T), \A r \in T : r.entry \in entries
    PROVE  /\ IsFiniteSet({r \in T : Known(r.entry)}) /\ KnownCount \in Nat
           /\ Cardinality({r \in T : Known(r.entry)}) <= KnownCount
<1> DEFINE recalled == {r \in T : r.entry.id \in session.turnRecall}
           held == {r \in T : r.entry.id \in session.turnContext}
           delivered == {r \in T : Memory(r.entry) \in session.delivered}
<1>1. \A r, s \in T : r.entry.id = s.entry.id => r = s
  BY DEF OneEach, EntriesOK, Distinguished
<1>2. /\ IsFiniteSet(recalled) /\ IsFiniteSet(held)
      /\ Cardinality(recalled) <= Cardinality(session.turnRecall)
      /\ Cardinality(held) <= Cardinality(session.turnContext)
  <2> PICK f : f = [r \in T |-> r.entry.id]
    OBVIOUS
  <2>1. \A r, s \in T : f[r] = f[s] => r = s
    BY <1>1
  <2>2. recalled \subseteq T /\ \A r \in recalled : f[r] \in session.turnRecall
    OBVIOUS
  <2>3. held \subseteq T /\ \A r \in held : f[r] \in session.turnContext
    OBVIOUS
  <2> HIDE DEF recalled, held
  <2>4. \A r, s \in recalled : f[r] = f[s] => r = s
    BY <2>1, <2>2
  <2>5. \A r, s \in held : f[r] = f[s] => r = s
    BY <2>1, <2>3
  <2>6. IsFiniteSet(recalled) /\ Cardinality(recalled) <= Cardinality(session.turnRecall)
    BY <2>2, <2>4, InjectedIsFewer DEF KnownIsFinite
  <2>7. IsFiniteSet(held) /\ Cardinality(held) <= Cardinality(session.turnContext)
    BY <2>3, <2>5, InjectedIsFewer DEF KnownIsFinite
  <2> QED BY <2>6, <2>7
<1>3. IsFiniteSet(delivered) /\ Cardinality(delivered) <= Cardinality(session.delivered)
  <2> PICK f : f = [r \in T |-> Memory(r.entry)]
    OBVIOUS
  <2>1. /\ \A r \in delivered : f[r] \in session.delivered
        /\ \A r, s \in delivered : f[r] = f[s] => r = s
    BY <1>1 DEF Memory
  <2> HIDE DEF delivered
  <2> QED BY <2>1, InjectedIsFewer DEF KnownIsFinite
<1> PICK known : known = {r \in T : Known(r.entry)}
  OBVIOUS
<1>4. known = (delivered \cup recalled) \cup held
  BY DEF Known, InView
<1> HIDE DEF delivered, recalled, held
<1>5. /\ IsFiniteSet(delivered \cup recalled)
      /\ Cardinality(delivered \cup recalled) <= Cardinality(delivered) + Cardinality(recalled)
      /\ Cardinality(delivered) \in Nat /\ Cardinality(recalled) \in Nat
      /\ Cardinality(delivered \cup recalled) \in Nat
  BY <1>2, <1>3, UnionIsFewer
<1>6. /\ IsFiniteSet(known)
      /\ Cardinality(known) <= Cardinality(delivered \cup recalled) + Cardinality(held)
      /\ Cardinality(held) \in Nat /\ Cardinality(known) \in Nat
  BY <1>2, <1>4, <1>5, UnionIsFewer
<1>7. /\ Cardinality(session.delivered) \in Nat /\ Cardinality(session.turnRecall) \in Nat
      /\ Cardinality(session.turnContext) \in Nat
  BY FS_CardinalityType DEF KnownIsFinite
<1>8. KnownCount \in Nat /\ Cardinality(known) <= KnownCount
  BY <1>2, <1>3, <1>5, <1>6, <1>7 DEF KnownCount
<1> QED BY <1>6, <1>8

\* A search for recall takes everything, or enough that is new.
LEMMA SearchGoesFar ==
    ASSUME EntriesOK, KnownIsFinite, NEW p, IsFiniteSet(p.query.words),
           IsFiniteSet(p.query.entities), NEW fresh \in BOOLEAN,
           NEW hidden, hidden \subseteq entries
    PROVE  LET found == HitsExcept(entries, p, fresh, hidden)
               new   == {r \in found : ~Known(r.entry)}
           IN  /\ \/ HitsWithin(entries, p, fresh, hidden, Cardinality(entries)) \subseteq found
                  \/ Cardinality(new) >= RecallCap
               /\ \E n \in Nat : Comparable(found, n)
<1> PICK policy : policy = PolicyIn(p.project)
  OBVIOUS
<1> PICK limit : limit = RecallLimit(hidden)
  OBVIOUS
<1>1. IsFiniteSet(hidden) /\ Cardinality(hidden) \in Nat
  BY FS_Subset, FS_CardinalityType DEF EntriesOK
<1>2. KnownCount \in Nat
  <2>1. /\ Cardinality(session.delivered) \in Nat /\ Cardinality(session.turnRecall) \in Nat
        /\ Cardinality(session.turnContext) \in Nat
    BY FS_CardinalityType DEF KnownIsFinite
  <2> QED BY <2>1 DEF KnownCount
<1>3. limit \in Nat /\ limit >= KnownCount + Cardinality(hidden) + RecallCap
  <2> PICK k : k = KnownCount + Cardinality(hidden) + RecallCap
    OBVIOUS
  <2>1. k \in Nat /\ LeastLimit \in Nat
    BY <1>1, <1>2, PromptRecallAssumption
  <2>2. \E x \in {LeastLimit, k} : \A y \in {LeastLimit, k} : x >= y
    BY <2>1
  <2>3. Max({LeastLimit, k}) \in {LeastLimit, k}
        /\ \A y \in {LeastLimit, k} : Max({LeastLimit, k}) >= y
    BY <2>2, Zenon DEF Max
  <2> QED BY <2>1, <2>3 DEF RecallLimit
<1>4. PICK L : \E n \in Nat : /\ Comparable(L, n) /\ OneEach(L)
                              /\ CutsOff(L, entries, p.query, policy, fresh)
  BY SearchIsCut DEF EntriesOK
<1>5. ASSUME NEW n
      PROVE  SearchLocal(entries, p.query, [policy EXCEPT !.limit = n], fresh) = Truncate(L, n)
  <2> PICK wide : wide = [policy EXCEPT !.limit = n]
    OBVIOUS
  <2>1. SamePolicy(wide, policy) /\ wide.limit = n
    BY PromptRecallAssumption DEF SamePolicy, PolicyIn
  <2> QED BY <1>4, <2>1 DEF CutsOff
<1> PICK T : T = Truncate(L, limit)
  OBVIOUS
<1> PICK found : found = HitsExcept(entries, p, fresh, hidden)
  OBVIOUS
<1>6. found = {r \in T : r.entry \notin hidden}
  BY <1>5 DEF HitsExcept, HitsWithin
<1>7. T \subseteq L /\ IsFiniteSet(T) /\ OneEach(T)
  BY <1>4, FS_Subset DEF Truncate, Comparable, OneEach
<1>8. \E n \in Nat : Comparable(found, n)
  <2>1. IsFiniteSet(found) /\ found \subseteq L
    BY <1>6, <1>7, FS_Subset
  <2> QED BY <1>4, <2>1 DEF Comparable
<1>9. CASE T = L
  <2>1. Truncate(L, Cardinality(entries)) \subseteq T
    BY <1>9 DEF Truncate
  <2>2. HitsWithin(entries, p, fresh, hidden, Cardinality(entries))
          = {r \in Truncate(L, Cardinality(entries)) : r.entry \notin hidden}
    BY <1>5 DEF HitsWithin
  <2>3. HitsWithin(entries, p, fresh, hidden, Cardinality(entries)) \subseteq found
    BY <1>6, <2>1, <2>2
  <2> QED BY <1>8, <2>3
<1>10. CASE Cardinality(T) >= limit
  <2> PICK new : new = {r \in found : ~Known(r.entry)}
    OBVIOUS
  <2> PICK known : known = {r \in T : Known(r.entry)}
    OBVIOUS
  <2> PICK corrected : corrected = {r \in T : r.entry \in hidden}
    OBVIOUS
  <2>1. \A r \in T : r.entry \in entries
    <3> PICK wide : wide = [policy EXCEPT !.limit = limit]
      OBVIOUS
    <3>1. T = SearchLocal(entries, p.query, wide, fresh)
      BY <1>5
    <3> QED BY <3>1, SearchFinds
  <2>2. IsFiniteSet(known) /\ Cardinality(known) <= KnownCount
    BY <1>7, <2>1, KnownIsCounted
  <2>3. IsFiniteSet(corrected) /\ Cardinality(corrected) <= Cardinality(hidden)
    <3> PICK f : f = [r \in T |-> r.entry]
      OBVIOUS
    <3>1. /\ \A r \in corrected : f[r] \in hidden
          /\ \A r, s \in corrected : f[r] = f[s] => r = s
      BY <1>7 DEF OneEach
    <3> QED BY <1>1, <3>1, InjectedIsFewer
  <2>4. T = (known \cup corrected) \cup new /\ new \subseteq T
    BY <1>6
  <2>5. IsFiniteSet(new)
    BY <1>7, <2>4, FS_Subset
  <2>6. /\ IsFiniteSet(known \cup corrected)
        /\ Cardinality(known \cup corrected) <= Cardinality(known) + Cardinality(corrected)
        /\ Cardinality(known) \in Nat /\ Cardinality(corrected) \in Nat
        /\ Cardinality(known \cup corrected) \in Nat
    BY <2>2, <2>3, UnionIsFewer
  <2>7. /\ Cardinality(T) <= Cardinality(known \cup corrected) + Cardinality(new)
        /\ Cardinality(new) \in Nat
    BY <2>4, <2>5, <2>6, UnionIsFewer
  <2>8. Cardinality(T) <= Cardinality(known) + Cardinality(corrected) + Cardinality(new)
    BY <1>7, <2>6, <2>7, FS_CardinalityType
  <2>9. Cardinality(T) \in Nat /\ RecallCap \in Nat
    BY <1>7, FS_CardinalityType, PromptRecallAssumption
  <2>10. Cardinality(new) >= RecallCap
    BY <1>1, <1>2, <1>3, <1>10, <2>2, <2>3, <2>6, <2>7, <2>8, <2>9
  <2> QED BY <1>8, <2>10
<1>11. T = L \/ Cardinality(T) >= limit
  BY <1>3, <1>4, CutIsFull
<1> QED BY <1>9, <1>10, <1>11

\* Something is picked while there is anything to pick.
LEMMA SomethingIsPicked ==
    ASSUME NEW n \in Nat, NEW hits, Comparable(hits, n), Picked(hits) = {}
    PROVE  \A r \in hits : InView(r.entry)
<1> DEFINE new == {r \in hits : ~Known(r.entry)}
           unseen == {r \in hits : ~InView(r.entry)}
<1>1. ASSUME NEW X \in SUBSET hits, X # {} PROVE Truncate(X, RecallCap) # {}
  <2>1. Comparable(X, n)
    BY FS_Subset DEF Comparable
  <2>2. PICK x \in X : Before(X, x) = {}
    BY <1>1, <2>1, SomeIsFirst
  <2>3. Place(X, x) <= 1
    BY <2>1, <2>2, FirstPlace DEF Comparable
  <2>4. Place(X, x) <= RecallCap
    BY <2>1, <2>3, FirstPlace, PromptRecallAssumption DEF Comparable
  <2> QED BY <2>4 DEF Truncate
<1>2. Picked(hits) = Truncate(IF new # {} THEN new ELSE unseen, RecallCap)
  BY DEF Picked
<1>3. new \in SUBSET hits /\ unseen \in SUBSET hits
  OBVIOUS
<1>4. unseen = {}
  <2> HIDE DEF new, unseen
  <2> QED BY <1>1, <1>2, <1>3
<1> QED BY <1>4

\* However many memories the session knows and however many are corrected: the
\* search for recall finds all there is, or as many new memories as recall takes,
\* and what it finds is shown unless it is all in view (select_prompt_recall).
THEOREM RecallGoesOn == Spec => []RecallAdvances
<1>1. ASSUME EntriesOK, KnownIsFinite PROVE RecallAdvances
  <2>1. ASSUME NEW q \in Topics, NEW project \in Projects, NEW fresh \in BOOLEAN, NEW p,
               p = Prepare(q, project), NEW hidden,
               hidden = ExplicitlySuperseded(entries, PolicyIn(project)), NEW found,
               found = HitsExcept(entries, p, fresh, hidden)
        PROVE  /\ \/ HitsWithin(entries, p, fresh, hidden, Cardinality(entries))
                        \subseteq found
                  \/ Cardinality({r \in found : ~Known(r.entry)}) >= RecallCap
               /\ Picked(found) = {} => \A r \in found : InView(r.entry)
    <3>1. p.query = q
      BY <2>1 DEF Prepare
    <3>2. IsFiniteSet(q.words) /\ IsFiniteSet(q.entities)
      BY PromptRecallAssumption
    <3>3. hidden \subseteq entries
      BY <2>1 DEF ExplicitlySuperseded, ExplicitlySuppressed, Suppressors
    <3>4. /\ \/ HitsWithin(entries, p, fresh, hidden, Cardinality(entries)) \subseteq found
             \/ Cardinality({r \in found : ~Known(r.entry)}) >= RecallCap
          /\ \E n \in Nat : Comparable(found, n)
      BY <1>1, <2>1, <3>1, <3>2, <3>3, SearchGoesFar
    <3> QED BY <3>4, SomethingIsPicked
  <2> QED BY <2>1, Zenon DEF RecallAdvances
<1>2. EntriesOK /\ KnownIsFinite => RecallAdvances
  BY <1>1
<1> QED BY <1>2, RecordsAreDistinguished, SessionKnowsFinitely, PTL

=============================================================================
