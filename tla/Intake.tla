------------------------------- MODULE Intake -------------------------------
(***************************************************************************)
(* What people and models put into the memory: promotions of raw notes     *)
(* (Curation) beside captured or reconciled facts (Capture), which share   *)
(* the inbox: a capture stages the notes that a promotion reads.           *)
(***************************************************************************)
EXTENDS Curation

CONSTANTS
    \* those of Capture
    Commands, Agent, Facts, Secrets, Conversations, PhraseOf(_),
    WriteScope, SearchScopes, Limit, InitMemory, MaxWritten,
    \* those of Search and Corrections
    LinkStopWords, StaleMarkers, ReplacementMarkers, TopicWords, HeuristicWindow,
    StopWords, RequiredWords, NewestWords, OldestWords, Alternatives(_), Family(_)

VARIABLES
    memory,     \* durable records
    jobs        \* captures and reconciliations under way

Reconciling == INSTANCE Capture

Curated == <<files, events, lock, proc, saved>>
intake == <<vars, memory, jobs>>

IntakeInit == Init /\ Reconciling!Init

Promotes   == Next /\ UNCHANGED <<memory, jobs>>
Reconciles == Reconciling!Next /\ UNCHANGED Curated
IntakeNext == Promotes \/ Reconciles

IntakeSpec == IntakeInit /\ [][IntakeNext]_intake

-----------------------------------------------------------------------------
(* The properties of Capture, beside promotions.                           *)

\* A reconciliation replaces only what was its agent's to read and of no
\* project (decide_candidate, parse_operation).
OnlyOwnIsReplaced == Reconciling!OnlyOwnIsReplaced

\* A run that could know of a fact does not write it again (run_capture).
RetryAddsNothing == Reconciling!RetryAddsNothing
=============================================================================
