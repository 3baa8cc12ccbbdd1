---------------------------- MODULE HookSession ----------------------------
(***************************************************************************)
(* One agent session as the lifecycle hooks of hive-memory see it.  Every  *)
(* hook is a short-lived process; they meet in hook-state.json (rewritten  *)
(* whole, under a per-session lock), in the write receipts that            *)
(* `hm remember` appends, and in the detached refresh child that moves the *)
(* receipt cursor.  Readers take no lock.                                  *)
(*                                                                         *)
(* The host is a context-persistent one with delivery tracking: it shows   *)
(* the model what hooks emit until it loses its context, and its adapter   *)
(* reports each loss with a reset, retrying when the reset fails.  A       *)
(* memory here is an id together with its digest.                          *)
(***************************************************************************)
EXTENDS Naturals

CONSTANTS
    Memories,       \* memories that context and recall can emit
    Keys,           \* context selections (hook_context_key), filtered or not
    Sections,       \* selection -> the memories eligible in it
    TooLarge,       \* memories that only ever fit as a pointer block
    Hooks,          \* the context hooks of the host: "start", "prompt"
    Procs,          \* hook and refresh processes
    None,
    MaxReceipts,    \* bound: receipts of the session
    MaxEpochs,      \* bound: context resets
    MaxFaults       \* bound: processes that die or time out on the lock

ASSUME HookAssumption ==
    /\ Sections \in [Keys -> SUBSET Memories]
    /\ TooLarge \subseteq Memories
    /\ Hooks \subseteq {"start", "prompt"}
    /\ None \notin Keys \cup Procs \cup Nat
    /\ {MaxReceipts, MaxEpochs, MaxFaults} \subseteq Nat

VARIABLES
    state,      \* hook-state.json
    receipts,   \* number of lines in writes.jsonl
    canonical,  \* receipts whose memory is in the store, not queued
    index,      \* receipts whose memory is a row of the published index
    marker,     \* receipt-refresh-attempt: its cursor, and whether it is recent
    refresher,  \* holder of the refresh lock
    visible,    \* memories the model can still see
    owed,       \* the host lost context and no reset was started for it yet
    proc,       \* the running processes
    faults      \* processes that died so far

files == <<receipts, canonical, index, marker>>
host  == <<visible, owed>>
vars == <<state, receipts, canonical, index, marker, refresher, visible, owed,
          proc, faults>>

-----------------------------------------------------------------------------
\* HookState, its tracked part.
Session == [pending : BOOLEAN, refreshed : 0..MaxReceipts, epoch : 0..MaxEpochs,
            delivered : SUBSET Memories, key : Keys \cup {None},
            topic : (0..MaxEpochs) \cup {None}]

Fresh == [pending |-> FALSE, refreshed |-> 0, epoch |-> 0, delivered |-> {},
          key |-> None, topic |-> None]

\* What a tracker keeps of the state it loaded, to filter against.
View == [epoch : 0..MaxEpochs, delivered : SUBSET Memories, key : Keys \cup {None}]
ViewOf(h) == [epoch |-> h.epoch, delivered |-> h.delivered, key |-> h.key]

Update == [memories : SUBSET Memories, key : Keys \cup {None}]
NoUpdate == [memories |-> {}, key |-> None]

\* Where a process needs the state lock, and what it will do to the state.
Locking == {"reset", "topic", "pending", "apply", "satisfy", "advance"}
Control == Locking \cup {"idle", "load", "select", "emit", "t_state", "t_spawn",
                         "r_read", "r_seen", "r_wait", "r_build", "r_check"}

\* kind: the command.  owes: this process must reset for a lost context.
\* precompact: the host drops its context when this reset returns.
\* held, loaded: it is inside with_state_lock, with the state it read there.
\* snap: what the tracker loaded.  moved: a reset overtook it.
\* count, seen: the receipts and the cursor it read.
Process == [pc : Control, kind : {"none", "start", "prompt", "reset", "tool", "refresh"},
            owes : BOOLEAN, precompact : BOOLEAN, held : BOOLEAN, loaded : Session,
            snap : View, moved : BOOLEAN, update : Update,
            count : 0..MaxReceipts, seen : 0..MaxReceipts]

Idle == [pc |-> "idle", kind |-> "none", owes |-> FALSE, precompact |-> FALSE,
         held |-> FALSE, loaded |-> Fresh, snap |-> ViewOf(Fresh), moved |-> FALSE,
         update |-> NoUpdate, count |-> 0, seen |-> 0]

Tracked(s) == s.kind \in {"start", "prompt"}

TypeOK ==
    /\ state \in Session
    /\ receipts \in 0..MaxReceipts
    /\ canonical \subseteq 1..receipts
    /\ index \subseteq canonical
    /\ marker \in [cursor : (0..MaxReceipts) \cup {None}, recent : BOOLEAN]
    /\ refresher \in Procs \cup {None}
    /\ visible \subseteq Memories
    /\ owed \in BOOLEAN
    /\ proc \in [Procs -> Process]
    /\ faults \in 0..MaxFaults

NoMarker == [cursor |-> None, recent |-> FALSE]

Init ==
    /\ state = Fresh
    /\ receipts = 0 /\ canonical = {} /\ index = {}
    /\ marker = NoMarker
    /\ refresher = None
    /\ visible = {} /\ owed = FALSE
    /\ proc = [p \in Procs |-> Idle]
    /\ faults = 0

Becomes(p, s) == proc' = [proc EXCEPT ![p] = s]

-----------------------------------------------------------------------------
(* with_state_lock: wait for the lock, read the file, write it whole.      *)

Free == \A q \in Procs : ~proc[q].held

Acquire(p) ==
    /\ proc[p].pc \in Locking /\ ~proc[p].held /\ Free
    /\ Becomes(p, [proc[p] EXCEPT !.held = TRUE, !.loaded = state])
    /\ UNCHANGED <<state, files, refresher, host, faults>>

\* The end of the critical section of point `pc`: the file becomes `new`, and
\* the process goes on as `s`.
Saves(p, pc, new, s) ==
    /\ proc[p].pc = pc /\ proc[p].held
    /\ state' = new
    /\ Becomes(p, [s EXCEPT !.held = FALSE, !.loaded = Fresh])

-----------------------------------------------------------------------------
(* Context resets.                                                         *)

\* reset_context_epoch; and a reset that forgets the tracked selection key, or
\* the saved topic.
ResetButKey(h) == [h EXCEPT !.delivered = {}, !.topic = None, !.epoch = @ + 1]
ResetButTopic(h) == [h EXCEPT !.delivered = {}, !.key = None, !.epoch = @ + 1]
Reset(h) == [h EXCEPT !.delivered = {}, !.key = None, !.topic = None, !.epoch = @ + 1]

\* Room under the bound for the resets that are under way.
MayReset == state.epoch < MaxEpochs /\ \A q \in Procs : proc[q].pc # "reset"

\* session-start or prompt-submit with --delivery; the adapter adds --reset
\* when it owes one.
HookStart(p, kind) ==
    /\ proc[p].pc = "idle"
    /\ owed => MayReset
    /\ \A q \in Procs : ~proc[q].precompact
    /\ Becomes(p, [Idle EXCEPT !.kind = kind, !.owes = owed,
                   !.pc = IF owed THEN "reset" ELSE "load"])
    /\ owed' = FALSE
    /\ UNCHANGED <<state, files, refresher, visible, faults>>

\* hm hook context-reset, after the loss.
ContextReset(p) ==
    /\ proc[p].pc = "idle" /\ MayReset
    /\ Becomes(p, [Idle EXCEPT !.kind = "reset", !.owes = owed, !.pc = "reset"])
    /\ owed' = FALSE
    /\ UNCHANGED <<state, files, refresher, visible, faults>>

\* The same from a PreCompact event: the host runs no other context hook until
\* it has compacted.
PreCompact(p) ==
    /\ proc[p].pc = "idle" /\ MayReset
    /\ \A q \in Procs : ~Tracked(proc[q])
    /\ Becomes(p, [Idle EXCEPT !.kind = "reset", !.owes = TRUE, !.precompact = TRUE,
                   !.pc = "reset"])
    /\ UNCHANGED <<state, files, refresher, host, faults>>

SaveReset(p) ==
    LET s == proc[p] IN
    /\ Saves(p, "reset", Reset(s.loaded),
             IF Tracked(s) THEN [s EXCEPT !.owes = FALSE, !.pc = "load"] ELSE Idle)
    /\ visible' = IF s.precompact THEN {} ELSE visible
    /\ UNCHANGED <<files, refresher, owed, faults>>

-----------------------------------------------------------------------------
(* session-start and prompt-submit.                                        *)

\* DeliveryTracker::start reads the state without the lock.  A prompt whose
\* topic differs from the saved one goes through set_recall_topic.
Load(p) ==
    LET s == proc[p] IN
    /\ s.pc = "load"
    /\ \E next \in IF s.kind = "prompt" THEN {"topic", "select"} ELSE {"select"} :
          Becomes(p, [s EXCEPT !.snap = ViewOf(state), !.pc = next])
    /\ UNCHANGED <<state, files, refresher, host, faults>>

\* set_recall_topic: an old prompt cannot restore a topic after a reset.  The
\* topic is known here by the epoch of the prompt that chose it.
TopicAlways(h, epoch) == [h EXCEPT !.topic = epoch]
TopicSet(h, epoch) == IF h.epoch = epoch THEN [h EXCEPT !.topic = epoch] ELSE h

SaveTopic(p) ==
    LET s == proc[p] IN
    /\ Saves(p, "topic", TopicSet(s.loaded, s.snap.epoch),
             [s EXCEPT !.pc = "select", !.moved = s.loaded.epoch # s.snap.epoch])
    /\ UNCHANGED <<files, refresher, host, faults>>

\* tracked_prompt_selection, or tracker.select at session start.  Recall comes
\* first and skips what is delivered; the context selection k then fills what
\* is left, skips what recall carries, and is complete when the size limit
\* left nothing out.  The limit may leave out anything; a memory too large for
\* it becomes a pointer, is not delivered and holds nothing open.
Selected(s, u) ==
    \E recall \in SUBSET (Memories \ (s.snap.delivered \cup TooLarge)) :
        /\ recall # {} => s.kind = "prompt" /\ ~s.moved
        /\ \/ u = [memories |-> recall, key |-> None]
           \/ \E k \in Keys \ {s.snap.key} :
              \E context \in SUBSET (Sections[k] \ (s.snap.delivered \cup recall \cup TooLarge)) :
                 /\ ~s.moved
                 /\ u = [memories |-> recall \cup context,
                         key |-> IF Sections[k] \subseteq s.snap.delivered \cup recall
                                                         \cup context \cup TooLarge
                                 THEN k ELSE None]

\* The update is chosen; a prompt that says "remember" also records the debt.
Select(p) ==
    LET s == proc[p] IN
    /\ s.pc = "select"
    /\ \E u \in Update :
        /\ Selected(s, u)
        /\ \E next \in IF s.kind = "prompt" THEN {"pending", "emit"} ELSE {"emit"} :
              Becomes(p, [s EXCEPT !.update = u, !.pc = next])
    /\ UNCHANGED <<state, files, refresher, host, faults>>

\* mark_memory_pending, before the response is written.
SavePending(p) ==
    LET s == proc[p] IN
    /\ Saves(p, "pending", [s.loaded EXCEPT !.pending = TRUE], [s EXCEPT !.pc = "emit"])
    /\ UNCHANGED <<files, refresher, host, faults>>

\* After its response a hook may launch the periodic refresh, which is limited
\* to one in sixty seconds.
Ends(p) == \E next \in {"idle", "r_read"} :
    Becomes(p, IF next = "idle" THEN Idle
               ELSE [Idle EXCEPT !.kind = "refresh", !.pc = "r_read"])

\* emit_hook_response: from here on the model sees the memories.
Emit(p) ==
    LET s == proc[p] IN
    /\ s.pc = "emit"
    /\ visible' = visible \cup s.update.memories
    /\ IF s.update = NoUpdate THEN Ends(p) ELSE Becomes(p, [s EXCEPT !.pc = "apply"])
    /\ UNCHANGED <<state, files, refresher, owed, faults>>

\* apply_update; and one that forgets to compare epochs.
ApplyAlways(h, epoch, u) ==
    [h EXCEPT !.delivered = @ \cup u.memories,
              !.key = IF u.key # None THEN u.key ELSE @]
ApplyUpdate(h, epoch, u) ==
    IF h.epoch # epoch THEN h
    ELSE [h EXCEPT !.delivered = @ \cup u.memories,
                   !.key = IF u.key # None THEN u.key ELSE @]

SaveApply(p) ==
    LET s == proc[p] IN
    /\ s.pc = "apply" /\ s.held
    /\ state' = ApplyUpdate(s.loaded, s.snap.epoch, s.update)
    /\ Ends(p)
    /\ UNCHANGED <<files, refresher, host, faults>>

-----------------------------------------------------------------------------
(* tool-complete.                                                          *)

\* load_write_receipts, then load_state: both without a lock.
ToolComplete(p) ==
    /\ proc[p].pc = "idle"
    /\ Becomes(p, [Idle EXCEPT !.kind = "tool", !.count = receipts, !.pc = "t_state"])
    /\ UNCHANGED <<state, files, refresher, host, faults>>

ToolState(p) ==
    LET s == proc[p] IN
    /\ s.pc = "t_state"
    /\ Becomes(p, IF s.count > state.refreshed
                  THEN [s EXCEPT !.seen = state.refreshed, !.pc = "satisfy"]
                  ELSE Idle)
    /\ UNCHANGED <<state, files, refresher, host, faults>>

\* mark_memory_satisfied.
SaveSatisfy(p) ==
    LET s == proc[p] IN
    /\ Saves(p, "satisfy", [s.loaded EXCEPT !.pending = FALSE], [s EXCEPT !.pc = "t_spawn"])
    /\ UNCHANGED <<files, refresher, host, faults>>

\* maybe_spawn_background_refresh for a receipt cursor: the marker is read and
\* written under the state lock, which is tried once; the same cursor is not
\* tried again inside the watchdog window.  The hook ends, its child starts.
SuppressedForever(m, cursor) == m.cursor # None
Suppressed(m, cursor) == m.recent /\ m.cursor = cursor

ToolSpawn(p) ==
    LET s == proc[p] IN
    /\ s.pc = "t_spawn"
    /\ \/ /\ ~Free \/ Suppressed(marker, s.count)
          /\ Becomes(p, Idle) /\ UNCHANGED marker
       \/ /\ Free /\ ~Suppressed(marker, s.count)
          /\ marker' = [cursor |-> s.count, recent |-> TRUE]
          /\ Becomes(p, [Idle EXCEPT !.kind = "refresh", !.pc = "r_read"])
    /\ UNCHANGED <<state, receipts, canonical, index, refresher, host, faults>>

-----------------------------------------------------------------------------
(* hm refresh --background, with the session id of the hook.               *)

Holds(p) == refresher = p
Releases(p) == refresher' = IF refresher = p THEN None ELSE refresher

\* refresh_receipt_cursor, read before the refresh lock and again under it.
RefreshReceipts(p) ==
    /\ proc[p].pc = "r_read"
    /\ Becomes(p, [proc[p] EXCEPT !.count = receipts, !.pc = "r_seen"])
    /\ UNCHANGED <<state, files, refresher, host, faults>>

\* Nothing unrefreshed: under the lock the child is done, without it this is a
\* periodic refresh of the index.
RefreshCursor(p) ==
    LET s == proc[p] IN
    /\ s.pc = "r_seen"
    /\ IF s.count > state.refreshed
       THEN /\ Becomes(p, [s EXCEPT !.seen = state.refreshed,
                           !.pc = IF Holds(p) THEN "r_build" ELSE "r_wait"])
            /\ UNCHANGED <<refresher, index>>
       ELSE /\ Becomes(p, Idle)
            /\ Releases(p)
            /\ index' = IF Holds(p) THEN index ELSE canonical
    /\ UNCHANGED <<state, receipts, canonical, marker, host, faults>>

RefreshLock(p) ==
    /\ proc[p].pc = "r_wait" /\ refresher = None
    /\ refresher' = p
    /\ Becomes(p, [proc[p] EXCEPT !.pc = "r_read"])
    /\ UNCHANGED <<state, files, host, faults>>

\* perform_background publishes a generation of the index, or gives up on a
\* rebuild lock that is held for too long.
RefreshBuild(p) ==
    /\ proc[p].pc = "r_build"
    /\ \/ index' = canonical /\ UNCHANGED faults
       \/ faults < MaxFaults /\ faults' = faults + 1 /\ UNCHANGED index
    /\ Becomes(p, [proc[p] EXCEPT !.pc = "r_check"])
    /\ UNCHANGED <<state, receipts, canonical, marker, refresher, host>>

\* receipt_rows_available, and a child that trusts its own rebuild.
RowsAssumed(from, to) == TRUE
RowsAvailable(from, to) == (from + 1)..to \subseteq index

RefreshCheck(p) ==
    LET s == proc[p] IN
    /\ s.pc = "r_check"
    /\ Releases(p)
    /\ Becomes(p, IF RowsAvailable(s.seen, s.count) THEN [s EXCEPT !.pc = "advance"]
                  ELSE Idle)
    /\ UNCHANGED <<state, files, host, faults>>

\* mark_receipts_refreshed; and a cursor that the last child decides.
LastCursor(old, new) == new
Cursor(old, new) == IF old < new THEN new ELSE old

SaveAdvance(p) ==
    LET s == proc[p] IN
    /\ Saves(p, "advance", [s.loaded EXCEPT !.refreshed = Cursor(@, s.count)], Idle)
    /\ UNCHANGED <<files, refresher, host, faults>>

-----------------------------------------------------------------------------
(* The session around the hooks.                                           *)

\* hm remember, hm note: the memory is stored or queued, then its receipt is
\* appended under the blocking receipt lock.
Remember(stored) ==
    /\ receipts < MaxReceipts
    /\ receipts' = receipts + 1
    /\ canonical' = IF stored THEN canonical \cup {receipts + 1} ELSE canonical
    /\ UNCHANGED <<state, index, marker, refresher, host, proc, faults>>

\* Somebody runs hm flush or hm refresh while the store is mounted.
Flush ==
    /\ canonical # 1..receipts /\ canonical' = 1..receipts
    /\ UNCHANGED <<state, receipts, index, marker, refresher, host, proc, faults>>

\* The host loses its context; its adapter now owes a reset.
LoseContext ==
    /\ state.epoch < MaxEpochs
    /\ \A q \in Procs : ~proc[q].precompact
    /\ visible' = {} /\ owed' = TRUE
    /\ UNCHANGED <<state, files, refresher, proc, faults>>

\* The watchdog window of the last attempt is over.
MarkerAges ==
    /\ marker.recent /\ marker' = [marker EXCEPT !.recent = FALSE]
    /\ UNCHANGED <<state, receipts, canonical, index, refresher, host, proc, faults>>

\* prune_inactive_runs, by a refresh of some other session, thirty days after
\* this one last wrote anything.  Row numbers start again with the receipts.
Prune ==
    /\ proc = [p \in Procs |-> Idle] /\ state # Fresh
    /\ state' = Fresh /\ marker' = NoMarker
    /\ receipts' = 0 /\ canonical' = {} /\ index' = {}
    /\ UNCHANGED <<refresher, host, proc, faults>>

\* A process is killed (hook timeout, refresh watchdog) or gives up on the
\* state lock.  The OS drops its locks; a reset that did not happen stays owed,
\* and the host compacts anyway.
Dies(p) ==
    LET s == proc[p] IN
    /\ s.pc # "idle" /\ faults < MaxFaults
    /\ faults' = faults + 1
    /\ Becomes(p, Idle)
    /\ Releases(p)
    /\ owed' = (owed \/ s.owes)
    /\ visible' = IF s.precompact THEN {} ELSE visible
    /\ UNCHANGED <<state, files>>

-----------------------------------------------------------------------------
Start(p) ==
    \/ \E kind \in Hooks : HookStart(p, kind)
    \/ ContextReset(p) \/ PreCompact(p) \/ ToolComplete(p)

\* A started process goes on.
Step(p) ==
    \/ Acquire(p) \/ SaveReset(p) \/ Load(p) \/ SaveTopic(p) \/ Select(p)
    \/ SavePending(p) \/ Emit(p) \/ SaveApply(p)
    \/ ToolState(p) \/ SaveSatisfy(p) \/ ToolSpawn(p)
    \/ RefreshReceipts(p) \/ RefreshCursor(p) \/ RefreshLock(p) \/ RefreshBuild(p)
    \/ RefreshCheck(p) \/ SaveAdvance(p)

Environment ==
    \/ \E stored \in BOOLEAN : Remember(stored)
    \/ Flush \/ LoseContext \/ MarkerAges \/ Prune
    \/ \E p \in Procs : Dies(p)

Next == Environment \/ \E p \in Procs : Start(p) \/ Step(p)

Spec == Init /\ [][Next]_vars

\* A started process is scheduled, and wins a lock that is released again and
\* again; the watchdog window ends; and the agent goes on completing tool
\* calls, some of which find no other hook inside its critical section.
Fairness ==
    /\ \A p \in Procs : SF_vars(Step(p))
    /\ SF_vars(\E p \in Procs : ToolComplete(p))
    /\ SF_vars(\E p \in Procs : ToolSpawn(p) /\ marker' # marker)
    /\ WF_vars(MarkerAges)

FairSpec == Spec /\ Fairness

-----------------------------------------------------------------------------
(* Properties.                                                             *)

\* Nothing is withheld from the model as "already visible" that it cannot see:
\* once every context loss has been answered by a reset, the delivered set is
\* part of the transcript, although hooks that overlapped the reset save their
\* bookkeeping late (the epoch check of apply_update).
SuppressedIsVisible ==
    ~owed /\ (\A p \in Procs : ~proc[p].owes) => state.delivered \subseteq visible

\* A selection that prompts no longer send was sent whole in this epoch: its
\* key is recorded only with everything in it delivered, and a reset forgets
\* both (DeliveryTracker::update, reset_context_epoch).
KeyMeansComplete ==
    state.key # None => Sections[state.key] \ TooLarge \subseteq state.delivered

\* A follow-up prompt never continues a topic from before a context reset
\* (set_recall_topic compares epochs under the lock).
TopicOfThisEpoch == state.topic # None => state.topic = state.epoch

\* The receipt cursor only passes writes that the published index contains,
\* so a memory queued in the outbox or missed by a rebuild is refreshed again
\* (receipt_rows_available).
CursorIsIndexed == 1..state.refreshed \subseteq index

\* The cursor never moves back, although children finish out of launch order
\* (the max in mark_receipts_refreshed); only pruning starts it again.
CursorNeverBack ==
    [][state'.refreshed >= state.refreshed \/ state' = Fresh]_vars

\* Every write of the session is eventually covered by the refresh cursor, or
\* the session is pruned, as long as queued memories are flushed some day:
\* suppression of repeated attempts, contention and dying children only delay
\* it (maybe_spawn_background_refresh, run_refresh).
WritesAreRefreshed ==
    <>[](canonical = 1..receipts) =>
        (state.refreshed < receipts ~> state.refreshed >= receipts)

=============================================================================
