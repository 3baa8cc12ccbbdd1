---------------------------- MODULE PromptRecall ----------------------------
(***************************************************************************)
(* What one agent session with delivery tracking is shown, hook by hook:   *)
(* the startup context, and for a prompt the recall of its topic and the   *)
(* context of a changed selection.  Hooks run one after the other here;    *)
(* their overlap is the subject of HookSession.                            *)
(*                                                                         *)
(* The host keeps what it is shown until it compacts ("persistent") or     *)
(* until the next prompt ("turn"); without hooks ("none") there are only   *)
(* the records, for searches and for what hides what.  The projection is   *)
(* as recent as the records, the full-text index is fresh or not.          *)
(***************************************************************************)
EXTENDS Context

CONSTANTS
    Corpora,        \* per lifetime: sets of records that may be written together
    Topics,         \* queries that prompts stand for, each with its lead word
    Generic,        \* a prompt without a subject of its own
    Unusable,       \* a prompt whose subject cannot be used
    Policy,         \* what prompt recall may search, with the fields of a reader
    Reader,         \* what context may hold
    Projects,       \* projects that the session works in
    Lifetimes,      \* of the hosts considered
    HostLimit,      \* size limit of a response
    Envelope,       \* size limit of prompt recall
    RecallCap,      \* memories of one recall: three in the code
    LeastLimit,     \* of a search for recall: ten in the code
    MaxEntries,     \* bound, per lifetime: records in the store
    MaxExpired      \* bound, per lifetime: expired records

ASSUME PromptRecallAssumption ==
    /\ Lifetimes \subseteq {"persistent", "turn", "none"}
    /\ {HostLimit, Envelope, LeastLimit} \subseteq Nat
    /\ RecallCap \in Nat \ {0}
    /\ MaxEntries \in [Lifetimes -> Nat] /\ MaxExpired \in [Lifetimes -> Nat]
    /\ DOMAIN Corpora = Lifetimes
    /\ \A life \in Lifetimes : \A c \in Corpora[life] : \A e \in c :
           /\ {"id", "made", "confidence"} \subseteq DOMAIN e
           /\ {e.id, e.made, e.confidence} \subseteq Nat
    /\ \A q \in Topics : IsFiniteSet(q.words) /\ IsFiniteSet(q.entities)
    /\ {"viewer", "sources", "limit"} \subseteq DOMAIN Policy \cap DOMAIN Reader
    /\ {"scopes", "project", "projectOnly"} \subseteq DOMAIN Policy
    /\ Policy.viewer = Reader.viewer

VARIABLES
    entries,    \* the indexed records
    session,    \* the tracked part of hook-state.json
    visible,    \* what the model can see, as delivery tracking names it
    shown,      \* the last response
    corpus,     \* the records that may come to be written here
    lifetime    \* of this host

world == <<corpus, lifetime>>
vars == <<entries, session, visible, shown, corpus, lifetime>>

-----------------------------------------------------------------------------
\* DeliveredMemory: an id with the digest of the text it was shown with.
Memory(e) == <<e.id, e.text>>
Memories(S) == {Memory(e) : e \in S}
Ids(S) == {e.id : e \in S}
NoKey == <<>>
NoTopic == <<>>

Fresh == [delivered |-> {}, contextKey |-> NoKey, recallKey |-> NoKey,
          topic |-> NoTopic, turnRecall |-> {}, turnContext |-> {}]

Nothing == [recall |-> {}, context |-> {}, pointers |-> {}]

Init ==
    /\ entries = {}
    /\ session = Fresh
    /\ visible = {} /\ shown = Nothing
    /\ lifetime \in Lifetimes
    /\ corpus \in Corpora[lifetime]

-----------------------------------------------------------------------------
(* Prompts.                                                                *)

\* prepare_prompt_recall: a prompt without a subject continues the topic of the
\* same project.
Prepare(prompt, project) ==
    LET goesOn == session.topic # NoTopic /\ session.topic[2] = project
        query  == IF prompt \in Topics THEN prompt
                  ELSE IF prompt = Generic /\ goesOn THEN session.topic[1]
                  ELSE None
    IN  [query |-> query, continuation |-> prompt = Generic, project |-> project]

TopicOf(p) == IF p.query = None THEN NoTopic ELSE <<p.query, p.project>>

\* RecallKnown.
InView(e) == e.id \in session.turnContext \/ Memory(e) \in session.delivered
Known(e) == e.id \in session.turnRecall \/ InView(e)
KnownCount == Cardinality(session.delivered) + Cardinality(session.turnRecall)
              + Cardinality(session.turnContext)

\* RecallQuery::evidence, from the best kind to none.
Evidence(e, q) ==
    IF WordScore(e, q) > 0 THEN 3
    ELSE IF EntityScore(e, q) > 0 THEN 2
    ELSE IF Required(q) = {} /\ TermScore(e.text \cup e.meta, q.lead) > 0 THEN 1
    ELSE 0

PolicyIn(project) == [Policy EXCEPT !.project = project]
ReaderIn(project) == [Reader EXCEPT !.project = project]

-----------------------------------------------------------------------------
(* Prompt recall (select_prompt_recall).                                   *)

\* Mutant: what the session knows takes places of the search.
RecallLimitAnew(hidden) == Max({LeastLimit, Cardinality(hidden) + RecallCap})

RecallLimit(hidden) == Max({LeastLimit, KnownCount + Cardinality(hidden) + RecallCap})

\* Mutant: search is trusted with corrections.
ExceptNothing(S, p, fresh, hidden) ==
    SearchLocal(S, p.query, [PolicyIn(p.project) EXCEPT !.limit = RecallLimit(hidden)], fresh)

HitsWithin(S, p, fresh, hidden, limit) ==
    LET policy == [PolicyIn(p.project) EXCEPT !.limit = limit] IN
    {r \in SearchLocal(S, p.query, policy, fresh) : r.entry \notin hidden}

HitsExcept(S, p, fresh, hidden) == HitsWithin(S, p, fresh, hidden, RecallLimit(hidden))

\* Corrections of the whole store count here, whatever words they have.
RecallHits(S, p, fresh) ==
    HitsExcept(S, p, fresh, ExplicitlySuperseded(S, PolicyIn(p.project)))

\* What has the best evidence of all.
OfBest(hits, q, best) == {r \in hits : best > 0 /\ Evidence(r.entry, q) = best}
BestOf(hits, q) == OfBest(hits, q, Max({0} \cup {Evidence(r.entry, q) : r \in hits}))

BestHits(S, p, fresh) == BestOf(RecallHits(S, p, fresh), p.query)

\* The first that recall has not shown, else that the model cannot see.
Picked(hits) ==
    LET new == {r \in hits : ~Known(r.entry)} IN
    Truncate(IF new # {} THEN new ELSE {r \in hits : ~InView(r.entry)}, RecallCap)

NoRecall == [block |-> EmptyBlock, key |-> NoKey]

\* The picked memories are rendered as a context of their own: in context
\* order, with the corrections among themselves.
RecallOf(p, hits, picked) ==
    LET key    == <<p.query, p.project, {<<Place(picked, r), r.entry.id>> : r \in picked}>>
        reader == [PolicyIn(p.project) EXCEPT !.strategy = Reader.strategy,
                       !.searchOnly = TRUE, !.filterProject = FALSE,
                       !.budget = SizeOf(EntriesOf(picked))]
        space  == Min({HostLimit, Envelope})
        block  == Pack(Context(EntriesOf(picked), reader), [max |-> space, alone |-> space])
    IN  IF \/ p.query = None
           \/ p.continuation /\ \E r \in hits : InView(r.entry)
           \/ picked = {}
           \/ lifetime = "persistent" /\ key = session.recallKey
           \/ block.kept = {} /\ block.pointers = {}
        THEN NoRecall
        ELSE [block |-> block, key |-> key]

RecallFrom(p, hits) == RecallOf(p, hits, Picked(hits))
Recall(S, p, fresh) == RecallFrom(p, BestHits(S, p, fresh))

-----------------------------------------------------------------------------
(* The context of a changed selection (tracked_context_selection).         *)

FullKey(p) == <<"all", p.project>>
PromptKey(p) == <<"topic", p.project, p.query>>

Assembly(S, project) == Context(S, ReaderIn(project))

\* prompt_context_output: of the assembly, what has the best evidence of all
\* that context or recall could show.
Tier(eligible, q, best) == {e \in eligible : Evidence(e, q) = best}
BestTier(eligible, q) == Tier(eligible, q, Max({0} \cup {Evidence(e, q) : e \in eligible}))

EvidentTier(S, p, all) ==
    LET policy == PolicyIn(p.project)
        found  == EntriesOf(Lexical(S, p.query, policy, FALSE)) \ ExplicitlySuperseded(S, policy)
    IN  BestTier({e \in found \cup EntriesOf(all) : Evidence(e, p.query) >= 2}, p.query)

PromptOutput(p, all, tier) ==
    LET kept == {r \in all : r.entry \in tier} IN
    IF p.continuation /\ \E e \in tier : InView(e)
    THEN [sections |-> {}, key |-> PromptKey(p)]
    ELSE [sections |-> kept,
          key |-> IF kept = all /\ kept # {} THEN FullKey(p) ELSE PromptKey(p)]

OutputOf(S, p, all) ==
    IF p.query = None THEN [sections |-> {}, key |-> PromptKey(p)]
    ELSE PromptOutput(p, all, EvidentTier(S, p, all))
ForPrompt(S, p) == OutputOf(S, p, Assembly(S, p.project))

NoContext == [block |-> EmptyBlock, key |-> NoKey]

\* Mutant: context does not look at what recall carries.
DueOfAll(output, carried) ==
    {r \in output.sections : Memory(r.entry) \notin session.delivered}

\* carried: what recall puts in the same response; space: what it leaves.
Due(output, carried) ==
    {r \in output.sections : Memory(r.entry) \notin session.delivered \cup Memories(carried)}

ContextOf(p, output, carried, space) ==
    IF session.contextKey \in {FullKey(p), output.key} THEN NoContext
    ELSE [block |-> Pack(Due(output, carried), [max |-> space, alone |-> HostLimit]),
          key |-> output.key]

ContextBlock(S, p, carried, space) == ContextOf(p, ForPrompt(S, p), carried, space)

Emitted(block) == block.kept # {} \/ block.pointers # {}

\* select_tracked: a header alone, unless memories are left for later.
Responds(block) == Emitted(block) \/ ~block.full

-----------------------------------------------------------------------------
(* tracked_prompt_selection.                                               *)

\* Recall first; context fills what is left.
WithContext(S, p, recall) ==
    [recall  |-> recall,
     context |-> ContextBlock(S, p, Shown(recall.block), HostLimit - recall.block.used)]

\* A changed selection instead of recall.
UnlessContext(S, p, fresh, context) ==
    [recall  |-> IF Emitted(context.block) THEN NoRecall ELSE Recall(S, p, fresh),
     context |-> context]

Response(S, p, fresh) ==
    IF lifetime = "persistent" THEN WithContext(S, p, Recall(S, p, fresh))
    ELSE UnlessContext(S, p, fresh, ContextBlock(S, p, {}, HostLimit))

\* DeliveryTracker::update and apply_update.  On a persistent host a key stands
\* for a selection of which nothing was left out.
Complete(block) == lifetime = "turn" \/ ~block.full

Apply(s, r) ==
    LET recall  == r.recall.block
        context == r.context.block
    IN  [s EXCEPT
          !.delivered = IF lifetime = "turn" THEN @
                        ELSE @ \cup Memories(Shown(recall) \cup Shown(context)),
          !.contextKey = IF r.context.key # NoKey /\ Complete(context) THEN r.context.key ELSE @,
          !.recallKey = IF r.recall.key # NoKey /\ Complete(recall) THEN r.recall.key ELSE @,
          !.turnRecall = IF lifetime = "turn"
                         THEN @ \cup Ids(Shown(recall) \cup recall.pointers) ELSE @,
          !.turnContext = IF lifetime = "turn" /\ r.context.key # NoKey
                          THEN Ids(Shown(context)) ELSE @]

Shows(r) ==
    LET recall  == r.recall.block
        context == r.context.block
        kept    == IF lifetime = "turn" THEN {} ELSE visible
    IN  /\ shown' = [recall |-> Shown(recall), context |-> Shown(context),
                     pointers |-> recall.pointers \cup context.pointers]
        /\ visible' = kept \cup Memories(Shown(recall) \cup Shown(context))

Answer(p, r) ==
    /\ session' = [Apply(session, r) EXCEPT !.topic = TopicOf(p)]
    /\ Shows(r)
    /\ UNCHANGED <<entries, world>>

AnswerPrompt(p, fresh) == Answer(p, Response(entries, p, fresh))
Prompt(prompt, project, fresh) == AnswerPrompt(Prepare(prompt, project), fresh)

\* run_session_start: everything the model does not see yet, and an empty block
\* counts as shown when nothing was left out.
StartResponse(project) ==
    LET due   == {r \in Assembly(entries, project) : Memory(r.entry) \notin session.delivered}
        block == Pack(due, [max |-> HostLimit, alone |-> HostLimit])
    IN  [recall |-> NoRecall,
         context |-> [block |-> block,
                      key |-> IF Responds(block)
                              THEN FullKey([project |-> project]) ELSE NoKey]]

Start(project) ==
    LET r == StartResponse(project) IN
    /\ session' = Apply(session, r)
    /\ Shows(r)
    /\ UNCHANGED <<entries, world>>

\* The host loses its context and its adapter resets the epoch.
Compact ==
    /\ session' = Fresh
    /\ visible' = {} /\ shown' = Nothing
    /\ UNCHANGED <<entries, world>>

-----------------------------------------------------------------------------
(* The records change.                                                     *)

\* A new record, or a new revision of a curated file.
Write(t) ==
    /\ t \notin entries
    /\ LET others == {e \in entries : e.id # t.id} IN
        /\ Cardinality(others) < MaxEntries[lifetime]
        /\ \A e \in entries \ others : e.kind = "curated" /\ e.rev < t.rev
        /\ entries' = others \cup {t}
    /\ shown' = Nothing
    /\ UNCHANGED <<session, visible, world>>

\* The validity window of a record ends.
Expire(e) ==
    /\ e.kind # "curated" /\ e.validity = "current"
    /\ Cardinality({x \in entries : x.validity = "expired"}) < MaxExpired[lifetime]
    /\ entries' = (entries \ {e}) \cup {[e EXCEPT !.validity = "expired"]}
    /\ shown' = Nothing
    /\ UNCHANGED <<session, visible, world>>

Prompts == Topics \cup {Generic, Unusable}

Hook ==
    \/ \E prompt \in Prompts, project \in Projects, fresh \in BOOLEAN :
          Prompt(prompt, project, fresh)
    \/ \E project \in Projects : Start(project)
    \/ Compact

Next ==
    \/ lifetime # "none" /\ Hook
    \/ \E t \in corpus : Write(t)
    \/ \E e \in entries : Expire(e)

Spec == Init /\ [][Next]_vars

-----------------------------------------------------------------------------
(* Properties.                                                             *)

\* What is shown is current for who reads it, and no record that this reader may
\* be shown corrects it, whatever words the correction has, unless it is the
\* newest of a circle of corrections ("explicit corrections hide their targets",
\* select_prompt_recall).
IsCurrentFor(e, reader) ==
    LET S == Suppressors(entries, reader) IN
    /\ e \in S
    /\ (\E n \in S : Corrects(n, e)) => InCycle(S, e) /\ Winner(S, e)

ShownIsCurrent ==
    /\ \A e \in shown.recall : IsCurrentFor(e, Policy)
    /\ \A e \in shown.context : IsCurrentFor(e, Reader)

\* Corrections of any shape leave something of what they correct: every hidden
\* record is reached by a chain of corrections from one that is not hidden (a
\* "cycle can never erase all its members", cycle_winners).
NothingHiddenForNothing ==
    LET S == Suppressors(entries, Policy)
        hidden == ExplicitlySuppressed(S, {})
    IN  \A e \in hidden : \E n \in S \ hidden : e \in Reached(S, n)

\* Who asks for what was may be shown what has expired.
MayBeShown(e, q) ==
    /\ AudienceAllows(e, Reader.viewer)
    /\ AllowsSearch(e, q.words \cap OldestWords # {})

AnsweredAlike(S, T, p) ==
    /\ RecallHits(S, p, TRUE) = RecallHits(T, p, TRUE)
    /\ ForPrompt(S, p) = ForPrompt(T, p)

\* What an agent is shown does not depend on records that it may not be shown:
\* a private or expired correction hides nothing from it (may_suppress).
OthersDoNotMatter ==
    \A p \in {Prepare(q, project) : q \in Topics, project \in Projects} :
        AnsweredAlike(entries, {e \in entries : MayBeShown(e, p.query)}, p)

Keeps(lexical, merged) ==
    \A r \in Truncate(lexical, 1) : \E s \in merged : SameWords(r, s)

\* The best lexical match is among the first two results of a search, however
\* many matches the full-text index has ("duplicate BM25 hits cannot crowd a
\* lexical-only match", search_indexed_with_resources).
SearchKeepsLexical ==
    \A q \in Topics, project \in Projects :
        LET policy == [PolicyIn(project) EXCEPT !.limit = 2]
        IN  /\ Keeps(Lexical(entries, q, policy, FALSE), SearchLocal(entries, q, policy, TRUE))
            /\ Keeps(Lexical(entries, q, policy, TRUE), SearchStore(entries, q, policy, TRUE))

\* No start and no answer repeats a memory that the model can still see, in the
\* words it saw, and none holds a memory twice (RecallKnown,
\* tracked_context_selection).
NoRepeat(recall, context) ==
    /\ recall \cap context = {}
    /\ lifetime = "persistent" => Memories(recall \cup context) \cap visible = {}
NoneTwice(r) == NoRepeat(Shown(r.recall.block), Shown(r.context.block))

NothingTwice ==
    \A project \in Projects :
        /\ NoneTwice(StartResponse(project))
        /\ \A q \in Topics : NoneTwice(Response(entries, Prepare(q, project), TRUE))

\* The search for recall goes far enough, however much the session knows and the
\* records correct: either it finds all that there is, or as many new memories as
\* recall takes; and recall only has nothing to show when it could only repeat
\* what is in view ("search beyond memories already emitted in this session",
\* select_prompt_recall).
RecallAdvances ==
    \A q \in Topics, project \in Projects, fresh \in BOOLEAN :
        LET p      == Prepare(q, project)
            hidden == ExplicitlySuperseded(entries, PolicyIn(project))
            found  == HitsExcept(entries, p, fresh, hidden)
        IN  /\ \/ HitsWithin(entries, p, fresh, hidden, Cardinality(entries)) \subseteq found
               \/ Cardinality({r \in found : ~Known(r.entry)}) >= RecallCap
            /\ Picked(found) = {} => \A r \in found : InView(r.entry)

\* Claims of the documents that the code does not keep.

Answers(r) == Emitted(r.recall.block) \/ Emitted(r.context.block)

BestStillMissing(e) ==
    LET space == Min({HostLimit, Envelope}) IN
    ~InView(e) /\ ~TooLarge(e, [max |-> space, alone |-> space])

\* A prompt about a topic is answered while one of the best memories for it
\* neither is in view nor has been, in whatever words, and is not too large
\* ("points to it and still shows the smaller hits ranked below it").
LargeStarvesNoOther ==
    lifetime = "persistent" =>
        \A p \in {Prepare(q, project) : q \in Topics, project \in Projects} :
            (\E e \in EntriesOf(BestHits(entries, p, TRUE)) :
                BestStillMissing(e) /\ e.id \notin {m[1] : m \in session.delivered})
            => Answers(Response(entries, p, TRUE))

\* So it is while one of them was shown in other words than it has now ("changed
\* text under the same id counts as new").
ChangedTextIsNew ==
    lifetime = "persistent" =>
        \A p \in {Prepare(q, project) : q \in Topics, project \in Projects} :
            (\E e \in EntriesOf(BestHits(entries, p, TRUE)) :
                BestStillMissing(e) /\ e.id \in {m[1] : m \in session.delivered})
            => Answers(Response(entries, p, TRUE))

=============================================================================
