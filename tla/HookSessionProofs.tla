------------------------- MODULE HookSessionProofs -------------------------
(***************************************************************************)
(* Proofs about HookSession, for any memories, selections, processes,      *)
(* receipts, resets and faults: what is withheld from the model as         *)
(* delivered is visible to it, selection keys and topics never outlive     *)
(* their epoch, and the refresh cursor passes indexed writes only.         *)
(*                                                                         *)
(* The hooks read hook-state.json without its lock and write what they     *)
(* make of it much later.  The inductive invariant says, process by        *)
(* process, what is still true of what it read: inside the lock it holds   *)
(* the current file; what it loaded is of this epoch and still delivered,  *)
(* or of an older one; what it has emitted is visible unless a loss of     *)
(* context is still to be answered by a reset.                             *)
(***************************************************************************)
EXTENDS HookSession, TLAPS

Viewing == {"topic", "select", "pending", "emit", "apply"}

\* A loss of context that no reset has answered.
Owing == owed \/ \E q \in Procs : proc[q].owes

LockIsGood(p) ==
    /\ proc[p].held => proc[p].pc \in Locking /\ proc[p].loaded = state
    /\ proc[p].pc = "reset" => state.epoch < MaxEpochs
    /\ proc[p].owes => proc[p].pc = "reset"
    /\ proc[p].precompact => proc[p].owes /\ proc[p].kind = "reset"

RowsAreIndexed(p) ==
    /\ proc[p].pc \in {"r_build", "r_check"} => 1..proc[p].seen \subseteq index
    /\ proc[p].pc = "advance" => 1..proc[p].count \subseteq index

ViewIsGood(p) ==
    /\ proc[p].pc \in Viewing =>
          /\ proc[p].snap.epoch <= state.epoch
          /\ proc[p].snap.epoch = state.epoch =>
                proc[p].snap.delivered \subseteq state.delivered
    /\ proc[p].pc \in {"pending", "emit", "apply"} /\ proc[p].update.key # None =>
          Sections[proc[p].update.key] \ TooLarge
              \subseteq proc[p].snap.delivered \cup proc[p].update.memories
    /\ proc[p].pc = "apply" /\ proc[p].snap.epoch = state.epoch /\ ~Owing =>
          proc[p].update.memories \subseteq visible

Sound(p) == LockIsGood(p) /\ RowsAreIndexed(p) /\ ViewIsGood(p)

Exclusive ==
    \A p, q \in Procs : p # q => /\ ~(proc[p].held /\ proc[q].held)
                                 /\ ~(proc[p].pc = "reset" /\ proc[q].pc = "reset")

SessionIsGood == /\ CursorIsIndexed /\ KeyMeansComplete
                 /\ SuppressedIsVisible /\ TopicOfThisEpoch

IInv == TypeOK /\ (\A p \in Procs : Sound(p)) /\ Exclusive /\ SessionIsGood

-----------------------------------------------------------------------------
(* Types.                                                                  *)

LEMMA FreshTypes == Fresh \in Session /\ ViewOf(Fresh) \in View /\ NoUpdate \in Update
BY HookAssumption DEF Fresh, Session, View, ViewOf, Update, NoUpdate

LEMMA IdleTypes == Idle \in Process
BY FreshTypes, HookAssumption DEF Idle, Process, Control, Locking

\* What a process becomes, and that the others stay as they are.
LEMMA Actor ==
    ASSUME TypeOK, NEW p \in Procs, NEW s, Becomes(p, s)
    PROVE  /\ proc'[p] = s
           /\ \A q \in Procs \ {p} : proc'[q] = proc[q]
           /\ s \in Process => proc' \in [Procs -> Process]
BY DEF TypeOK, Becomes

\* A step that only changes its process.
LEMMA TypeAside ==
    ASSUME TypeOK, NEW p \in Procs, NEW s \in Process, Becomes(p, s),
           UNCHANGED <<state, files, refresher, visible, faults>>, owed' \in BOOLEAN
    PROVE  TypeOK'
BY Actor DEF TypeOK, files

\* A step that saves a state.
LEMMA TypeSaved ==
    ASSUME TypeOK, NEW p \in Procs, NEW s \in Process, Becomes(p, s),
           state' \in Session, visible' \in SUBSET Memories,
           UNCHANGED <<files, refresher, owed, faults>>
    PROVE  TypeOK'
BY Actor DEF TypeOK, files

LEMMA ProcessTypes ==
    ASSUME TypeOK, NEW p \in Procs
    PROVE  proc[p] \in Process /\ proc[p].loaded \in Session /\ proc[p].snap \in View
               /\ proc[p].update \in Update
BY DEF TypeOK, Process

\* The periodic refresh, or the end.
LEMMA EndsTypes ==
    ASSUME NEW p \in Procs, Ends(p)
    PROVE  \E s \in Process : /\ Becomes(p, s)
                              /\ s = Idle \/ s = [Idle EXCEPT !.kind = "refresh", !.pc = "r_read"]
<1>1. [Idle EXCEPT !.kind = "refresh", !.pc = "r_read"] \in Process
  BY IdleTypes DEF Process, Control
<1> QED BY <1>1, IdleTypes DEF Ends

-----------------------------------------------------------------------------
(* What others do leaves a process sound.                                  *)

\* A process that stays as it is remains sound when the session does not
\* change, and what is visible only shrinks with a loss that is owed a reset.
LEMMA AsideIsSound ==
    ASSUME IInv, state' = state, index \subseteq index',
           ~Owing' => ~Owing /\ visible \subseteq visible',
           NEW q \in Procs, proc'[q] = proc[q]
    PROVE  Sound(q)'
<1>1. LockIsGood(q)'
  BY DEF IInv, Sound, LockIsGood
<1>2. RowsAreIndexed(q)'
  BY DEF IInv, Sound, RowsAreIndexed
<1>3. ViewIsGood(q)'
  BY DEF IInv, Sound, ViewIsGood
<1> QED BY <1>1, <1>2, <1>3 DEF Sound

LEMMA AsideIsGood ==
    ASSUME IInv, state' = state, index \subseteq index',
           ~Owing' => ~Owing /\ visible \subseteq visible'
    PROVE  SessionIsGood'
<1>1. SuppressedIsVisible'
  BY DEF IInv, SessionIsGood, SuppressedIsVisible, Owing
<1> QED BY <1>1 DEF IInv, SessionIsGood, CursorIsIndexed, KeyMeansComplete, TopicOfThisEpoch

\* Who changes nothing of the session but its own progress.
LEMMA AsideKeeps ==
    ASSUME IInv, TypeOK', NEW p \in Procs, state' = state, index \subseteq index',
           ~Owing' => ~Owing /\ visible \subseteq visible',
           \A q \in Procs \ {p} : proc'[q] = proc[q], Sound(p)',
           proc'[p].held => proc[p].held \/ Free,
           proc'[p].pc = "reset" => proc[p].pc = "reset" \/ MayReset
    PROVE  IInv'
<1>1. ASSUME NEW q \in Procs \ {p} PROVE Sound(q)'
  BY AsideIsSound
<1>2. Exclusive'
  BY DEF IInv, Exclusive, Free, MayReset
<1>3. SessionIsGood'
  BY AsideIsGood
<1> QED BY <1>1, <1>2, <1>3 DEF IInv

\* Who holds the lock is the only one to do so.
LEMMA Holder ==
    ASSUME IInv, NEW p \in Procs, proc[p].held
    PROVE  /\ proc[p].loaded = state
           /\ \A q \in Procs \ {p} : ~proc[q].held
BY DEF IInv, Sound, LockIsGood, Exclusive

\* Who saves a state of the same epoch in which nothing delivered is missing.
LEMMA SavedKeeps ==
    ASSUME IInv, TypeOK', NEW p \in Procs, proc[p].held, proc[p].pc # "reset",
           state'.epoch = state.epoch, state.delivered \subseteq state'.delivered,
           visible' = visible, index' = index, owed' = owed,
           \A q \in Procs \ {p} : proc'[q] = proc[q],
           ~proc'[p].held, ~proc'[p].owes, proc'[p].pc # "reset",
           Sound(p)', SessionIsGood'
    PROVE  IInv'
<1>1. Owing' <=> Owing
  BY DEF IInv, Sound, LockIsGood, Owing
<1>2. ASSUME NEW q \in Procs \ {p} PROVE Sound(q)'
  <2>1. LockIsGood(q)'
    BY Holder DEF IInv, Sound, LockIsGood
  <2>2. RowsAreIndexed(q)'
    BY DEF IInv, Sound, RowsAreIndexed
  <2>3. ViewIsGood(q)'
    BY <1>1 DEF IInv, Sound, ViewIsGood
  <2> QED BY <2>1, <2>2, <2>3 DEF Sound
<1>3. Exclusive'
  BY DEF IInv, Exclusive
<1> QED BY <1>2, <1>3 DEF IInv

\* A process that holds nothing, owes nothing and knows nothing yet.
LEMMA QuietIsSound ==
    ASSUME NEW p \in Procs, ~proc'[p].held, ~proc'[p].owes, ~proc'[p].precompact,
           proc'[p].pc \in {"idle", "load", "satisfy", "t_state", "t_spawn", "r_read", "r_seen",
                            "r_wait"}
    PROVE  Sound(p)'
BY DEF Sound, LockIsGood, RowsAreIndexed, ViewIsGood, Viewing

\* A step of one process that makes it quiet, and shows or indexes no less.
LEMMA QuietKeeps ==
    ASSUME IInv, TypeOK', NEW p \in Procs, state' = state,
           visible \subseteq visible', index \subseteq index', owed' = owed,
           ~proc[p].owes,
           \A q \in Procs \ {p} : proc'[q] = proc[q],
           ~proc'[p].held, ~proc'[p].owes, ~proc'[p].precompact,
           proc'[p].pc \in {"idle", "load", "satisfy", "t_state", "t_spawn", "r_read", "r_seen",
                            "r_wait"}
    PROVE  IInv'
<1>1. Owing => Owing'
  BY DEF Owing
<1>2. proc'[p].held => proc[p].held \/ Free
  OBVIOUS
<1>3. proc'[p].pc = "reset" => proc[p].pc = "reset" \/ MayReset
  OBVIOUS
<1> QED BY <1>1, <1>2, <1>3, QuietIsSound, AsideKeeps

-----------------------------------------------------------------------------
(* The lock and the resets.                                                *)

LEMMA AcquireKeeps == ASSUME IInv, NEW p \in Procs, Acquire(p) PROVE IInv'
<1> DEFINE s == [proc[p] EXCEPT !.held = TRUE, !.loaded = state]
<1>1. s \in Process /\ Becomes(p, s)
  BY ProcessTypes DEF Acquire, IInv, TypeOK, Process
<1>2. TypeOK'
  BY <1>1, TypeAside DEF Acquire, files, host, IInv, TypeOK
<1>3. proc'[p] = s /\ \A q \in Procs \ {p} : proc'[q] = proc[q]
  BY <1>1, Actor DEF IInv
<1>4. proc[p] \in Process
  BY ProcessTypes DEF IInv
<1>5. /\ s.held /\ s.loaded = state /\ s.pc = proc[p].pc /\ s.owes = proc[p].owes
      /\ s.precompact = proc[p].precompact /\ s.kind = proc[p].kind /\ s.snap = proc[p].snap
      /\ s.update = proc[p].update /\ s.count = proc[p].count /\ s.seen = proc[p].seen
  BY <1>4 DEF Process
<1> HIDE DEF s
<1>6. UNCHANGED <<state, index, visible, owed>> /\ proc[p].pc \in Locking /\ Free
  BY DEF Acquire, files, host
<1>7. Owing' <=> Owing
  BY <1>3, <1>5, <1>6 DEF Owing
<1>8. Sound(p)'
  BY <1>3, <1>5, <1>6, <1>7 DEF IInv, Sound, LockIsGood, RowsAreIndexed, ViewIsGood
<1> QED BY <1>2, <1>3, <1>5, <1>6, <1>7, <1>8, AsideKeeps

\* A hook begins: it takes the reset that is owed upon itself.
LEMMA HookStartKeeps ==
    ASSUME IInv, NEW p \in Procs, NEW kind \in Hooks, HookStart(p, kind) PROVE IInv'
<1> DEFINE s == [Idle EXCEPT !.kind = kind, !.owes = owed,
                   !.pc = IF owed THEN "reset" ELSE "load"]
<1>1. s \in Process /\ Becomes(p, s)
  BY IdleTypes, HookAssumption DEF HookStart, IInv, TypeOK, Process, Control, Locking
<1>2. TypeOK'
  BY <1>1, TypeAside DEF HookStart, files, host, IInv, TypeOK
<1>3. proc'[p] = s /\ \A q \in Procs \ {p} : proc'[q] = proc[q]
  BY <1>1, Actor DEF IInv
<1>4. /\ ~s.held /\ s.owes = owed /\ ~s.precompact
      /\ s.pc = IF owed THEN "reset" ELSE "load"
  BY DEF Idle
<1> HIDE DEF s
<1>5. /\ UNCHANGED <<state, index, visible>> /\ (owed => MayReset)
      /\ proc[p].pc = "idle"
  BY DEF HookStart, files, host
<1>6. Owing => Owing'
  <2>1. ~proc[p].owes
    BY <1>5 DEF IInv, Sound, LockIsGood
  <2> QED BY <2>1, <1>3, <1>4 DEF Owing
<1>7. Sound(p)'
  BY <1>3, <1>4, <1>5 DEF Sound, LockIsGood, RowsAreIndexed, ViewIsGood, Viewing, MayReset
<1> QED BY <1>2, <1>3, <1>4, <1>5, <1>6, <1>7, AsideKeeps

LEMMA ContextResetKeeps == ASSUME IInv, NEW p \in Procs, ContextReset(p) PROVE IInv'
<1> DEFINE s == [Idle EXCEPT !.kind = "reset", !.owes = owed, !.pc = "reset"]
<1>1. s \in Process /\ Becomes(p, s)
  BY IdleTypes DEF ContextReset, IInv, TypeOK, Process, Control, Locking
<1>2. TypeOK'
  BY <1>1, TypeAside DEF ContextReset, files, host, IInv, TypeOK
<1>3. proc'[p] = s /\ \A q \in Procs \ {p} : proc'[q] = proc[q]
  BY <1>1, Actor DEF IInv
<1>4. ~s.held /\ s.owes = owed /\ ~s.precompact /\ s.pc = "reset"
  BY DEF Idle
<1> HIDE DEF s
<1>5. UNCHANGED <<state, index, visible>> /\ MayReset /\ proc[p].pc = "idle"
  BY DEF ContextReset, files, host
<1>6. Owing => Owing'
  <2>1. ~proc[p].owes
    BY <1>5 DEF IInv, Sound, LockIsGood
  <2> QED BY <2>1, <1>3, <1>4 DEF Owing
<1>7. Sound(p)'
  BY <1>3, <1>4, <1>5 DEF Sound, LockIsGood, RowsAreIndexed, ViewIsGood, Viewing, MayReset
<1> QED BY <1>2, <1>3, <1>4, <1>5, <1>6, <1>7, AsideKeeps

LEMMA PreCompactKeeps == ASSUME IInv, NEW p \in Procs, PreCompact(p) PROVE IInv'
<1> DEFINE s == [Idle EXCEPT !.kind = "reset", !.owes = TRUE, !.precompact = TRUE,
                   !.pc = "reset"]
<1>1. s \in Process /\ Becomes(p, s)
  BY IdleTypes DEF PreCompact, IInv, TypeOK, Process, Control, Locking
<1>2. TypeOK'
  BY <1>1, TypeAside DEF PreCompact, files, host, IInv, TypeOK
<1>3. proc'[p] = s /\ \A q \in Procs \ {p} : proc'[q] = proc[q]
  BY <1>1, Actor DEF IInv
<1>4. ~s.held /\ s.owes /\ s.precompact /\ s.kind = "reset" /\ s.pc = "reset"
  BY DEF Idle
<1> HIDE DEF s
<1>5. UNCHANGED <<state, index, visible, owed>> /\ MayReset
  BY DEF PreCompact, files, host
<1>6. Owing'
  BY <1>3, <1>4 DEF Owing
<1>7. Sound(p)'
  BY <1>3, <1>4, <1>5 DEF Sound, LockIsGood, RowsAreIndexed, ViewIsGood, Viewing, MayReset
<1> QED BY <1>2, <1>3, <1>4, <1>5, <1>6, <1>7, AsideKeeps

\* A reset begins an epoch: whatever others have loaded is of an older one, and
\* nothing is delivered in the new one.
LEMMA SaveResetKeeps == ASSUME IInv, NEW p \in Procs, SaveReset(p) PROVE IInv'
<1> DEFINE s == IF Tracked(proc[p]) THEN [proc[p] EXCEPT !.owes = FALSE, !.pc = "load"]
                ELSE Idle
           t == [s EXCEPT !.held = FALSE, !.loaded = Fresh]
<1>1. proc[p] \in Process /\ state \in Session
  BY ProcessTypes DEF IInv, TypeOK
<1>2. t \in Process
  <2>1. s \in Process
    BY <1>1, IdleTypes DEF Process, Control
  <2> QED BY <2>1, FreshTypes DEF Process
<1>3. /\ ~t.held /\ ~t.owes /\ ~t.precompact /\ t.pc \in {"load", "idle"}
  <2>1. ~s.owes /\ s.pc \in {"load", "idle"}
    BY <1>1 DEF Process, Idle
  <2>2. ~s.precompact
    BY <1>1 DEF Process, Idle, Tracked, IInv, Sound, LockIsGood
  <2>3. s \in Process
    BY <1>1, IdleTypes DEF Process, Control
  <2> QED BY <2>1, <2>2, <2>3 DEF Process
<1>4. /\ proc[p].held /\ proc[p].pc = "reset" /\ Becomes(p, t)
      /\ state' = Reset(proc[p].loaded)
  BY DEF SaveReset, Saves
<1> HIDE DEF t, s
<1>5. state' = Reset(state)
  BY <1>4, Holder
<1>6. state.epoch < MaxEpochs
  BY <1>4 DEF IInv, Sound, LockIsGood
<1>7. /\ state' \in Session /\ state'.epoch = state.epoch + 1 /\ state'.delivered = {}
      /\ state'.key = None /\ state'.topic = None /\ state'.refreshed = state.refreshed
  <2>1. state.epoch + 1 \in 0..MaxEpochs
    BY <1>1, <1>6, HookAssumption DEF Session
  <2>2. state' \in Session
    BY <1>1, <1>5, <2>1 DEF Reset, Session
  <2>3. state'.epoch = state.epoch + 1 /\ state'.delivered = {} /\ state'.key = None
    BY <1>1, <1>5 DEF Reset, Session
  <2>4. state'.topic = None /\ state'.refreshed = state.refreshed
    BY <1>1, <1>5 DEF Reset, Session
  <2> QED BY <2>2, <2>3, <2>4
<1>8. UNCHANGED <<files, refresher, owed, faults>> /\ visible' \in SUBSET Memories
  BY DEF SaveReset, IInv, TypeOK
<1>9. TypeOK'
  BY <1>2, <1>4, <1>7, <1>8, TypeSaved DEF IInv
<1>10. proc'[p] = t /\ \A q \in Procs \ {p} : proc'[q] = proc[q]
  BY <1>4, Actor DEF IInv
<1>11. Sound(p)'
  BY <1>3, <1>10, QuietIsSound
<1>12. ASSUME NEW q \in Procs \ {p} PROVE Sound(q)'
  <2>1. ~proc[q].held /\ proc[q].pc # "reset"
    BY <1>4 DEF IInv, Exclusive
  <2>2. LockIsGood(q)'
    BY <2>1, <1>10 DEF IInv, Sound, LockIsGood
  <2>3. RowsAreIndexed(q)'
    BY <1>8, <1>10 DEF IInv, Sound, RowsAreIndexed, files
  <2>4. ViewIsGood(q)'
    <3>1. proc[q].snap.epoch \in Nat /\ state.epoch \in Nat
      BY <1>1, ProcessTypes, HookAssumption DEF IInv, View, Session
    <3>2. proc'[q].pc \in Viewing =>
              proc'[q].snap.epoch <= state'.epoch /\ proc'[q].snap.epoch # state'.epoch
      BY <3>1, <1>7, <1>10 DEF IInv, Sound, ViewIsGood
    <3> QED BY <3>2, <1>10 DEF IInv, Sound, ViewIsGood, Viewing
  <2> QED BY <2>2, <2>3, <2>4 DEF Sound
<1>13. Exclusive'
  BY <1>3, <1>10 DEF IInv, Exclusive
<1>14. SessionIsGood'
  BY <1>7, <1>8 DEF IInv, SessionIsGood, CursorIsIndexed, KeyMeansComplete,
     SuppressedIsVisible, TopicOfThisEpoch, files
<1> QED BY <1>9, <1>11, <1>12, <1>13, <1>14 DEF IInv

-----------------------------------------------------------------------------
(* Session-start and prompt-submit.                                        *)

\* Outside the points where it is used there is no lock, and no reset is owed.
LEMMA Unlocked ==
    ASSUME IInv, NEW p \in Procs
    PROVE  /\ proc[p].pc \notin Locking => ~proc[p].held
           /\ proc[p].pc # "reset" => ~proc[p].owes /\ ~proc[p].precompact
BY DEF IInv, Sound, LockIsGood

\* What the session promises, where a step leaves its part of it alone.
LEMMA QuietSession ==
    ASSUME IInv, NEW p \in Procs, ~proc[p].owes, ~proc'[p].owes,
           \A q \in Procs \ {p} : proc'[q] = proc[q],
           UNCHANGED <<visible, index, owed>>,
           state'.delivered = state.delivered, state'.key = state.key,
           state'.refreshed = state.refreshed
    PROVE  CursorIsIndexed' /\ KeyMeansComplete' /\ SuppressedIsVisible'
<1>1. SuppressedIsVisible'
  BY DEF IInv, SessionIsGood, SuppressedIsVisible
<1> QED BY <1>1 DEF IInv, SessionIsGood, CursorIsIndexed, KeyMeansComplete

LEMMA LoadKeeps == ASSUME IInv, NEW p \in Procs, Load(p) PROVE IInv'
<1>1. PICK next \in {"topic", "select"} :
          Becomes(p, [proc[p] EXCEPT !.snap = ViewOf(state), !.pc = next])
  BY DEF Load
<1> DEFINE s == [proc[p] EXCEPT !.snap = ViewOf(state), !.pc = next]
<1>2. proc[p] \in Process /\ state \in Session
  BY ProcessTypes DEF IInv, TypeOK
<1>3. ViewOf(state) \in View
  BY <1>2 DEF ViewOf, View, Session
<1>4. s \in Process
  BY <1>2, <1>3 DEF Process, Control, Locking
<1>5. TypeOK'
  BY <1>1, <1>4, TypeAside DEF Load, files, host, IInv, TypeOK
<1>6. proc'[p] = s /\ \A q \in Procs \ {p} : proc'[q] = proc[q]
  BY <1>1, Actor DEF IInv
<1>7. /\ s.held = proc[p].held /\ s.owes = proc[p].owes /\ s.precompact = proc[p].precompact
      /\ s.pc = next /\ s.snap = ViewOf(state)
  BY <1>2 DEF Process
<1> HIDE DEF s
<1>8. ~s.held /\ ~s.owes /\ ~s.precompact /\ ~proc[p].owes
  BY <1>7, Unlocked DEF Load, Locking
<1>9. UNCHANGED <<state, index, visible, owed>>
  BY DEF Load, files, host
<1>10. Sound(p)'
  <2>1. s.snap.epoch = state.epoch /\ s.snap.delivered = state.delivered
    BY <1>7 DEF ViewOf
  <2>2. state.epoch <= state.epoch
    BY <1>2, HookAssumption DEF Session
  <2> QED BY <2>1, <2>2, <1>6, <1>7, <1>8, <1>9 DEF Sound, LockIsGood, RowsAreIndexed, ViewIsGood
<1>11. Owing => Owing'
  BY <1>6, <1>8, <1>9 DEF Owing
<1> QED BY <1>5, <1>6, <1>7, <1>8, <1>9, <1>10, <1>11, AsideKeeps

LEMMA SaveTopicKeeps == ASSUME IInv, NEW p \in Procs, SaveTopic(p) PROVE IInv'
<1> DEFINE s == [proc[p] EXCEPT !.pc = "select",
                   !.moved = proc[p].loaded.epoch # proc[p].snap.epoch]
           t == [s EXCEPT !.held = FALSE, !.loaded = Fresh]
<1>1. proc[p] \in Process /\ state \in Session /\ proc[p].snap \in View
  BY ProcessTypes DEF IInv, TypeOK
<1>2. t \in Process
  BY <1>1, FreshTypes DEF Process, Control
<1>3. /\ ~t.held /\ t.pc = "select" /\ t.snap = proc[p].snap
      /\ t.owes = proc[p].owes /\ t.precompact = proc[p].precompact
  BY <1>1 DEF Process
<1>4. /\ proc[p].held /\ proc[p].pc = "topic" /\ Becomes(p, t)
      /\ state' = TopicSet(proc[p].loaded, proc[p].snap.epoch)
  BY DEF SaveTopic, Saves
<1> HIDE DEF t
<1>5. state' = TopicSet(state, proc[p].snap.epoch)
  BY <1>4, Holder
<1>6. /\ state' \in Session /\ state'.epoch = state.epoch /\ state'.key = state.key
      /\ state'.delivered = state.delivered /\ state'.refreshed = state.refreshed
  BY <1>1, <1>5 DEF TopicSet, Session, View
<1>7. UNCHANGED <<files, refresher, visible, owed, faults>>
  BY DEF SaveTopic, host
<1>8. TypeOK'
  BY <1>2, <1>4, <1>6, <1>7, TypeSaved DEF IInv, TypeOK
<1>9. proc'[p] = t /\ \A q \in Procs \ {p} : proc'[q] = proc[q]
  BY <1>4, Actor DEF IInv
<1>10. ~t.owes /\ ~t.precompact /\ ~proc[p].owes
  BY <1>3, <1>4, Unlocked
<1>11. Sound(p)'
  BY <1>3, <1>4, <1>6, <1>9, <1>10 DEF IInv, Sound, LockIsGood, RowsAreIndexed, ViewIsGood, Viewing
<1>12. TopicOfThisEpoch'
  BY <1>1, <1>5 DEF TopicSet, Session, IInv, SessionIsGood, TopicOfThisEpoch
<1>13. SessionIsGood'
  BY <1>6, <1>7, <1>9, <1>10, <1>12, QuietSession DEF SessionIsGood, files
<1> QED BY <1>3, <1>4, <1>6, <1>7, <1>8, <1>9, <1>10, <1>11, <1>13, SavedKeeps DEF files

\* A selection is complete only with what is delivered or in its update.
LEMMA SelectedIsComplete ==
    ASSUME NEW s \in Process, NEW u \in Update, Selected(s, u), u.key # None
    PROVE  Sections[u.key] \ TooLarge \subseteq s.snap.delivered \cup u.memories
BY DEF Selected, Update

LEMMA SelectKeeps == ASSUME IInv, NEW p \in Procs, Select(p) PROVE IInv'
<1>1. PICK u \in Update, next \in {"pending", "emit"} :
          /\ Selected(proc[p], u)
          /\ Becomes(p, [proc[p] EXCEPT !.update = u, !.pc = next])
  BY DEF Select
<1> DEFINE s == [proc[p] EXCEPT !.update = u, !.pc = next]
<1>2. proc[p] \in Process
  BY ProcessTypes DEF IInv
<1>3. s \in Process
  BY <1>2 DEF Process, Control, Locking
<1>4. TypeOK'
  BY <1>1, <1>3, TypeAside DEF Select, files, host, IInv, TypeOK
<1>5. proc'[p] = s /\ \A q \in Procs \ {p} : proc'[q] = proc[q]
  BY <1>1, Actor DEF IInv
<1>6. /\ s.held = proc[p].held /\ s.owes = proc[p].owes /\ s.precompact = proc[p].precompact
      /\ s.pc = next /\ s.snap = proc[p].snap /\ s.update = u
  BY <1>2 DEF Process
<1> HIDE DEF s
<1>7. ~s.held /\ ~s.owes /\ ~s.precompact /\ ~proc[p].owes /\ proc[p].pc = "select"
  BY <1>6, Unlocked DEF Select, Locking
<1>8. UNCHANGED <<state, index, visible, owed>>
  BY DEF Select, files, host
<1>9. u.key # None => Sections[u.key] \ TooLarge \subseteq s.snap.delivered \cup u.memories
  BY <1>1, <1>2, <1>6, SelectedIsComplete
<1>10. Sound(p)'
  BY <1>5, <1>6, <1>7, <1>8, <1>9
     DEF IInv, Sound, LockIsGood, RowsAreIndexed, ViewIsGood, Viewing
<1>11. Owing => Owing'
  BY <1>5, <1>7, <1>8 DEF Owing
<1> QED BY <1>4, <1>5, <1>6, <1>7, <1>8, <1>10, <1>11, AsideKeeps

LEMMA SavePendingKeeps == ASSUME IInv, NEW p \in Procs, SavePending(p) PROVE IInv'
<1> DEFINE t == [[proc[p] EXCEPT !.pc = "emit"] EXCEPT !.held = FALSE, !.loaded = Fresh]
<1>1. proc[p] \in Process /\ state \in Session
  BY ProcessTypes DEF IInv, TypeOK
<1>2. t \in Process
  BY <1>1, FreshTypes DEF Process, Control
<1>3. /\ ~t.held /\ t.pc = "emit" /\ t.snap = proc[p].snap /\ t.update = proc[p].update
      /\ t.owes = proc[p].owes /\ t.precompact = proc[p].precompact
  BY <1>1 DEF Process
<1>4. /\ proc[p].held /\ proc[p].pc = "pending" /\ Becomes(p, t)
      /\ state' = [proc[p].loaded EXCEPT !.pending = TRUE]
  BY DEF SavePending, Saves
<1> HIDE DEF t
<1>5. state' = [state EXCEPT !.pending = TRUE]
  BY <1>4, Holder
<1>6. /\ state' \in Session /\ state'.epoch = state.epoch /\ state'.key = state.key
      /\ state'.delivered = state.delivered /\ state'.refreshed = state.refreshed
      /\ state'.topic = state.topic
  BY <1>1, <1>5 DEF Session
<1>7. UNCHANGED <<files, refresher, visible, owed, faults>>
  BY DEF SavePending, host
<1>8. TypeOK'
  BY <1>2, <1>4, <1>6, <1>7, TypeSaved DEF IInv, TypeOK
<1>9. proc'[p] = t /\ \A q \in Procs \ {p} : proc'[q] = proc[q]
  BY <1>4, Actor DEF IInv
<1>10. ~t.owes /\ ~t.precompact /\ ~proc[p].owes
  BY <1>3, <1>4, Unlocked
<1>11. Sound(p)'
  BY <1>3, <1>4, <1>6, <1>9, <1>10 DEF IInv, Sound, LockIsGood, RowsAreIndexed, ViewIsGood, Viewing
<1>12. SessionIsGood'
  BY <1>6, <1>7, <1>9, <1>10, QuietSession DEF SessionIsGood, files, IInv, TopicOfThisEpoch
<1> QED BY <1>3, <1>4, <1>6, <1>7, <1>8, <1>9, <1>10, <1>11, <1>12, SavedKeeps DEF files

\* Periodic refreshes and ends are quiet.
LEMMA EndsQuiet ==
    ASSUME TypeOK, NEW p \in Procs, Ends(p)
    PROVE  /\ proc' \in [Procs -> Process]
           /\ \A q \in Procs \ {p} : proc'[q] = proc[q]
           /\ ~proc'[p].held /\ ~proc'[p].owes /\ ~proc'[p].precompact
           /\ proc'[p].pc \in {"idle", "r_read"}
<1>1. PICK s \in Process :
          /\ Becomes(p, s)
          /\ s = Idle \/ s = [Idle EXCEPT !.kind = "refresh", !.pc = "r_read"]
  BY EndsTypes
<1>2. ~s.held /\ ~s.owes /\ ~s.precompact /\ s.pc \in {"idle", "r_read"}
  <2>1. CASE s = Idle
    BY <2>1 DEF Idle
  <2>2. CASE s = [Idle EXCEPT !.kind = "refresh", !.pc = "r_read"]
    BY <2>2 DEF Idle
  <2> QED BY <1>1, <2>1, <2>2
<1> QED BY <1>1, <1>2, Actor

LEMMA EmitKeeps == ASSUME IInv, NEW p \in Procs, Emit(p) PROVE IInv'
<1>1. /\ UNCHANGED <<state, files, refresher, owed, faults>> /\ proc[p].pc = "emit"
      /\ visible' = visible \cup proc[p].update.memories
  BY DEF Emit
<1>2. ~proc[p].held /\ ~proc[p].owes /\ ~proc[p].precompact
  BY <1>1, Unlocked DEF Locking
<1>3. proc[p] \in Process /\ proc[p].update \in Update
  BY ProcessTypes DEF IInv
<1>4. visible' \in SUBSET Memories
  BY <1>1, <1>3 DEF IInv, TypeOK, Update
<1>5. CASE Ends(p)
  <2>1. TypeOK'
    BY <1>1, <1>4, <1>5, EndsQuiet DEF IInv, TypeOK, files
  <2> QED BY <1>1, <1>2, <1>5, <2>1, EndsQuiet, QuietKeeps DEF IInv, files
<1>6. CASE Becomes(p, [proc[p] EXCEPT !.pc = "apply"])
  <2> DEFINE s == [proc[p] EXCEPT !.pc = "apply"]
  <2>1. s \in Process
    BY <1>3 DEF Process, Control, Locking
  <2>2. proc'[p] = s /\ proc' \in [Procs -> Process] /\ \A q \in Procs \ {p} : proc'[q] = proc[q]
    BY <1>6, <2>1, Actor DEF IInv
  <2>3. /\ ~s.held /\ ~s.owes /\ ~s.precompact /\ s.pc = "apply"
        /\ s.snap = proc[p].snap /\ s.update = proc[p].update
    BY <1>2, <1>3 DEF Process
  <2> HIDE DEF s
  <2>4. TypeOK'
    BY <1>1, <1>4, <2>2 DEF IInv, TypeOK, files
  <2>5. Sound(p)'
    BY <1>1, <2>2, <2>3 DEF IInv, Sound, LockIsGood, RowsAreIndexed, ViewIsGood, Viewing
  <2>6. Owing => Owing'
    BY <1>1, <1>2, <2>2 DEF Owing
  <2> QED BY <1>1, <2>2, <2>3, <2>4, <2>5, <2>6, AsideKeeps DEF files
<1> QED BY <1>5, <1>6 DEF Emit

\* A late update changes nothing, one of this epoch adds what is visible.
LEMMA SaveApplyKeeps == ASSUME IInv, NEW p \in Procs, SaveApply(p) PROVE IInv'
<1>1. /\ proc[p].pc = "apply" /\ proc[p].held /\ Ends(p)
      /\ state' = ApplyUpdate(proc[p].loaded, proc[p].snap.epoch, proc[p].update)
      /\ UNCHANGED <<files, refresher, visible, owed, faults>>
  BY DEF SaveApply, host
<1> DEFINE u == proc[p].update
<1>2. state' = ApplyUpdate(state, proc[p].snap.epoch, u)
  BY <1>1, Holder
<1>3. state \in Session /\ u \in Update
  BY ProcessTypes DEF IInv, TypeOK
<1>4. /\ state' \in Session /\ state'.epoch = state.epoch /\ state'.topic = state.topic
      /\ state'.refreshed = state.refreshed
  BY <1>2, <1>3 DEF ApplyUpdate, Session, Update
<1>5. /\ proc' \in [Procs -> Process] /\ \A q \in Procs \ {p} : proc'[q] = proc[q]
      /\ ~proc'[p].held /\ ~proc'[p].owes /\ ~proc'[p].precompact
      /\ proc'[p].pc \in {"idle", "r_read"}
  BY <1>1, EndsQuiet DEF IInv
<1>6. TypeOK'
  BY <1>1, <1>4, <1>5 DEF IInv, TypeOK, files
<1>7. Sound(p)'
  BY <1>5, QuietIsSound
<1>8. ~proc[p].owes
  BY <1>1, Unlocked
<1>9. CASE state.epoch # proc[p].snap.epoch
  <2>1. state' = state
    BY <1>2, <1>9 DEF ApplyUpdate
  <2>2. SessionIsGood'
    BY <1>1, <1>5, <1>8, <2>1, QuietSession DEF SessionIsGood, files, IInv, TopicOfThisEpoch
  <2> QED BY <1>1, <1>5, <1>6, <1>7, <2>1, <2>2, SavedKeeps DEF files
<1>10. CASE state.epoch = proc[p].snap.epoch
  <2>1. /\ state'.delivered = state.delivered \cup u.memories
        /\ state'.key = IF u.key # None THEN u.key ELSE state.key
    BY <1>2, <1>3, <1>10 DEF ApplyUpdate, Session
  <2>2. KeyMeansComplete'
    <3>1. u.key # None => Sections[u.key] \ TooLarge \subseteq state.delivered \cup u.memories
      BY <1>1, <1>10 DEF IInv, Sound, ViewIsGood, Viewing
    <3> QED BY <2>1, <3>1 DEF IInv, SessionIsGood, KeyMeansComplete
  <2>3. SuppressedIsVisible'
    <3>1. ~Owing => u.memories \subseteq visible
      BY <1>1, <1>10 DEF IInv, Sound, ViewIsGood
    <3>2. Owing' <=> Owing
      BY <1>1, <1>5, <1>8 DEF Owing
    <3> QED BY <1>1, <2>1, <3>1, <3>2 DEF IInv, SessionIsGood, SuppressedIsVisible, Owing
  <2>4. SessionIsGood'
    BY <1>1, <1>4, <2>2, <2>3 DEF SessionIsGood, IInv, CursorIsIndexed, TopicOfThisEpoch, files
  <2> QED BY <1>1, <1>4, <1>5, <1>6, <1>7, <2>1, <2>4, SavedKeeps DEF files
<1> QED BY <1>9, <1>10

-----------------------------------------------------------------------------
(* Tool-complete.                                                          *)

\* A step to a quiet point, with whatever it knows.
LEMMA QuietStep ==
    ASSUME IInv, NEW p \in Procs, NEW s \in Process, Becomes(p, s),
           ~s.held, ~s.owes, ~s.precompact, proc[p].pc \notin Locking,
           s.pc \in {"idle", "load", "satisfy", "t_state", "t_spawn", "r_read", "r_seen",
                     "r_wait"},
           UNCHANGED <<state, receipts, canonical, host, faults>>,
           index' \in {index, canonical}, refresher' \in Procs \cup {None},
           marker' \in [cursor : (0..MaxReceipts) \cup {None}, recent : BOOLEAN]
    PROVE  IInv'
<1>1. /\ proc'[p] = s /\ proc' \in [Procs -> Process]
      /\ \A q \in Procs \ {p} : proc'[q] = proc[q]
  BY Actor DEF IInv
<1>2. TypeOK' /\ index \subseteq index'
  BY <1>1 DEF IInv, TypeOK, host
<1>3. ~proc[p].owes
  BY Unlocked DEF Locking
<1> QED BY <1>1, <1>2, <1>3, QuietKeeps DEF host

LEMMA ToolCompleteKeeps == ASSUME IInv, NEW p \in Procs, ToolComplete(p) PROVE IInv'
<1> DEFINE s == [Idle EXCEPT !.kind = "tool", !.count = receipts, !.pc = "t_state"]
<1>1. s \in Process
  BY IdleTypes DEF IInv, TypeOK, Process, Control
<1>2. ~s.held /\ ~s.owes /\ ~s.precompact /\ s.pc = "t_state"
  BY DEF Idle
<1>3. Becomes(p, s) /\ proc[p].pc \notin Locking
  BY DEF ToolComplete, Locking
<1> HIDE DEF s
<1> QED BY <1>1, <1>2, <1>3, QuietStep DEF ToolComplete, IInv, TypeOK, files

LEMMA ToolStateKeeps == ASSUME IInv, NEW p \in Procs, ToolState(p) PROVE IInv'
<1>1. /\ proc[p].pc = "t_state" /\ proc[p].pc \notin Locking
      /\ UNCHANGED <<state, files, refresher, host, faults>>
  BY DEF ToolState, Locking
<1>2. proc[p] \in Process /\ state \in Session
  BY ProcessTypes DEF IInv, TypeOK
<1>3. ~proc[p].held /\ ~proc[p].owes /\ ~proc[p].precompact
  BY <1>1, Unlocked
<1>4. CASE Becomes(p, Idle)
  BY <1>1, <1>4, IdleTypes, QuietStep DEF Idle, IInv, TypeOK, files
<1>5. CASE Becomes(p, [proc[p] EXCEPT !.seen = state.refreshed, !.pc = "satisfy"])
  <2> DEFINE s == [proc[p] EXCEPT !.seen = state.refreshed, !.pc = "satisfy"]
  <2>1. s \in Process
    BY <1>2 DEF Process, Session, Control, Locking
  <2>2. ~s.held /\ ~s.owes /\ ~s.precompact /\ s.pc = "satisfy"
    BY <1>2, <1>3 DEF Process
  <2> HIDE DEF s
  <2> QED BY <1>1, <1>5, <2>1, <2>2, QuietStep DEF IInv, TypeOK, files, s
<1> QED BY <1>4, <1>5 DEF ToolState

LEMMA SaveSatisfyKeeps == ASSUME IInv, NEW p \in Procs, SaveSatisfy(p) PROVE IInv'
<1> DEFINE t == [[proc[p] EXCEPT !.pc = "t_spawn"] EXCEPT !.held = FALSE, !.loaded = Fresh]
<1>1. proc[p] \in Process /\ state \in Session
  BY ProcessTypes DEF IInv, TypeOK
<1>2. t \in Process
  BY <1>1, FreshTypes DEF Process, Control
<1>3. /\ ~t.held /\ t.pc = "t_spawn"
      /\ t.owes = proc[p].owes /\ t.precompact = proc[p].precompact
  BY <1>1 DEF Process
<1>4. /\ proc[p].held /\ proc[p].pc = "satisfy" /\ Becomes(p, t)
      /\ state' = [proc[p].loaded EXCEPT !.pending = FALSE]
  BY DEF SaveSatisfy, Saves
<1> HIDE DEF t
<1>5. state' = [state EXCEPT !.pending = FALSE]
  BY <1>4, Holder
<1>6. /\ state' \in Session /\ state'.epoch = state.epoch /\ state'.key = state.key
      /\ state'.delivered = state.delivered /\ state'.refreshed = state.refreshed
      /\ state'.topic = state.topic
  BY <1>1, <1>5 DEF Session
<1>7. UNCHANGED <<files, refresher, visible, owed, faults>>
  BY DEF SaveSatisfy, host
<1>8. TypeOK'
  BY <1>2, <1>4, <1>6, <1>7, TypeSaved DEF IInv, TypeOK
<1>9. proc'[p] = t /\ \A q \in Procs \ {p} : proc'[q] = proc[q]
  BY <1>4, Actor DEF IInv
<1>10. ~t.owes /\ ~t.precompact /\ ~proc[p].owes
  BY <1>3, <1>4, Unlocked
<1>11. Sound(p)'
  BY <1>3, <1>9, <1>10, QuietIsSound
<1>12. SessionIsGood'
  BY <1>6, <1>7, <1>9, <1>10, QuietSession DEF SessionIsGood, files, IInv, TopicOfThisEpoch
<1> QED BY <1>3, <1>4, <1>6, <1>7, <1>8, <1>9, <1>10, <1>11, <1>12, SavedKeeps DEF files

LEMMA ToolSpawnKeeps == ASSUME IInv, NEW p \in Procs, ToolSpawn(p) PROVE IInv'
<1> DEFINE r == [Idle EXCEPT !.kind = "refresh", !.pc = "r_read"]
<1>1. r \in Process /\ ~r.held /\ ~r.owes /\ ~r.precompact /\ r.pc = "r_read"
  <2>1. r \in Process
    BY IdleTypes DEF Process, Control
  <2> QED BY <2>1 DEF Idle
<1>2. Idle \in Process /\ ~Idle.held /\ ~Idle.owes /\ ~Idle.precompact /\ Idle.pc = "idle"
  BY IdleTypes DEF Idle
<1>3. /\ proc[p].pc \notin Locking
      /\ UNCHANGED <<state, receipts, canonical, index, refresher, host, faults>>
  BY DEF ToolSpawn, Locking
<1>4. proc[p].count \in 0..MaxReceipts
  BY ProcessTypes DEF IInv, Process
<1>5. PICK s \in {Idle, r} : Becomes(p, s)
  BY DEF ToolSpawn
<1> HIDE DEF r
<1>6. marker' \in [cursor : (0..MaxReceipts) \cup {None}, recent : BOOLEAN]
  <2>1. marker' \in {marker, [cursor |-> proc[p].count, recent |-> TRUE]}
    BY DEF ToolSpawn
  <2>2. marker \in [cursor : (0..MaxReceipts) \cup {None}, recent : BOOLEAN]
    BY DEF IInv, TypeOK
  <2>3. [cursor |-> proc[p].count, recent |-> TRUE]
           \in [cursor : (0..MaxReceipts) \cup {None}, recent : BOOLEAN]
    BY <1>4
  <2> QED BY <2>1, <2>2, <2>3
<1>7. refresher \in Procs \cup {None}
  BY DEF IInv, TypeOK
<1> QED BY <1>1, <1>2, <1>3, <1>5, <1>6, <1>7, QuietStep

-----------------------------------------------------------------------------
(* The refresh child.                                                      *)

LEMMA RefreshReceiptsKeeps == ASSUME IInv, NEW p \in Procs, RefreshReceipts(p) PROVE IInv'
<1> DEFINE s == [proc[p] EXCEPT !.count = receipts, !.pc = "r_seen"]
<1>1. proc[p] \in Process /\ receipts \in 0..MaxReceipts
  BY ProcessTypes DEF IInv, TypeOK
<1>2. s \in Process
  BY <1>1 DEF Process, Control
<1>3. proc[p].pc = "r_read" /\ proc[p].pc \notin Locking /\ Becomes(p, s)
  BY DEF RefreshReceipts, Locking
<1>4. ~s.held /\ ~s.owes /\ ~s.precompact /\ s.pc = "r_seen"
  BY <1>1, <1>3, Unlocked DEF Process
<1> HIDE DEF s
<1> QED BY <1>2, <1>3, <1>4, QuietStep DEF RefreshReceipts, IInv, TypeOK, files

\* A child that works on the index, which may have gained rows.
LEMMA RefreshStepKeeps ==
    ASSUME IInv, NEW p \in Procs, NEW s \in Process, Becomes(p, s),
           ~proc[p].held, ~proc[p].owes, ~s.held, ~s.owes, ~s.precompact,
           s.pc \in {"r_build", "r_check", "advance"},
           s.pc \in {"r_build", "r_check"} => 1..s.seen \subseteq index',
           s.pc = "advance" => 1..s.count \subseteq index',
           UNCHANGED <<state, receipts, canonical, marker, host>>,
           index' \in {index, canonical}, refresher' \in Procs \cup {None},
           faults' \in 0..MaxFaults
    PROVE  IInv'
<1>1. /\ proc'[p] = s /\ proc' \in [Procs -> Process]
      /\ \A q \in Procs \ {p} : proc'[q] = proc[q]
  BY Actor DEF IInv
<1>2. TypeOK' /\ index \subseteq index'
  BY <1>1 DEF IInv, TypeOK, host
<1>3. Sound(p)'
  BY <1>1 DEF Sound, LockIsGood, RowsAreIndexed, ViewIsGood, Viewing
<1>4. ~Owing' => ~Owing /\ visible \subseteq visible'
  BY <1>1 DEF Owing, host
<1> QED BY <1>1, <1>2, <1>3, <1>4, AsideKeeps

LEMMA RefreshCursorKeeps == ASSUME IInv, NEW p \in Procs, RefreshCursor(p) PROVE IInv'
<1>1. /\ proc[p].pc = "r_seen" /\ proc[p].pc \notin Locking
      /\ UNCHANGED <<state, receipts, canonical, marker, host, faults>>
  BY DEF RefreshCursor, Locking
<1>2. proc[p] \in Process /\ state \in Session
  BY ProcessTypes DEF IInv, TypeOK
<1>3. ~proc[p].held /\ ~proc[p].owes /\ ~proc[p].precompact
  BY <1>1, Unlocked
<1>4. marker \in [cursor : (0..MaxReceipts) \cup {None}, recent : BOOLEAN]
      /\ refresher \in Procs \cup {None} /\ faults \in 0..MaxFaults
  BY DEF IInv, TypeOK
<1>5. CASE proc[p].count > state.refreshed
  <2> DEFINE s == [proc[p] EXCEPT !.seen = state.refreshed,
                           !.pc = IF Holds(p) THEN "r_build" ELSE "r_wait"]
  <2>1. s \in Process
    BY <1>2 DEF Process, Session, Control
  <2>2. /\ ~s.held /\ ~s.owes /\ ~s.precompact /\ s.pc \in {"r_build", "r_wait"}
        /\ s.seen = state.refreshed
    BY <1>2, <1>3 DEF Process
  <2>3. Becomes(p, s) /\ UNCHANGED <<refresher, index>>
    BY <1>5 DEF RefreshCursor
  <2> HIDE DEF s
  <2>4. 1..s.seen \subseteq index'
    BY <2>2, <2>3 DEF IInv, SessionIsGood, CursorIsIndexed
  <2>5. CASE s.pc = "r_wait"
    BY <1>1, <1>4, <2>1, <2>2, <2>3, <2>5, QuietStep
  <2>6. CASE s.pc = "r_build"
    BY <1>1, <1>3, <1>4, <2>1, <2>2, <2>3, <2>4, <2>6, RefreshStepKeeps
  <2> QED BY <2>2, <2>5, <2>6
<1>6. CASE ~(proc[p].count > state.refreshed)
  <2>1. Becomes(p, Idle) /\ Releases(p) /\ index' \in {index, canonical}
    BY <1>6 DEF RefreshCursor
  <2>2. refresher' \in Procs \cup {None}
    BY <1>4, <2>1 DEF Releases
  <2> QED BY <1>1, <1>4, <2>1, <2>2, IdleTypes, QuietStep DEF Idle
<1> QED BY <1>5, <1>6

LEMMA RefreshLockKeeps == ASSUME IInv, NEW p \in Procs, RefreshLock(p) PROVE IInv'
<1> DEFINE s == [proc[p] EXCEPT !.pc = "r_read"]
<1>1. proc[p] \in Process
  BY ProcessTypes DEF IInv
<1>2. s \in Process
  BY <1>1 DEF Process, Control
<1>3. proc[p].pc = "r_wait" /\ proc[p].pc \notin Locking /\ Becomes(p, s)
  BY DEF RefreshLock, Locking
<1>4. ~s.held /\ ~s.owes /\ ~s.precompact /\ s.pc = "r_read"
  BY <1>1, <1>3, Unlocked DEF Process
<1> HIDE DEF s
<1> QED BY <1>2, <1>3, <1>4, QuietStep DEF RefreshLock, IInv, TypeOK, files

LEMMA RefreshBuildKeeps == ASSUME IInv, NEW p \in Procs, RefreshBuild(p) PROVE IInv'
<1> DEFINE s == [proc[p] EXCEPT !.pc = "r_check"]
<1>1. proc[p] \in Process
  BY ProcessTypes DEF IInv
<1>2. s \in Process
  BY <1>1 DEF Process, Control
<1>3. proc[p].pc = "r_build" /\ proc[p].pc \notin Locking /\ Becomes(p, s)
  BY DEF RefreshBuild, Locking
<1>4. ~s.held /\ ~s.owes /\ ~s.precompact /\ s.pc = "r_check" /\ s.seen = proc[p].seen
  BY <1>1, <1>3, Unlocked DEF Process
<1>5. index' \in {index, canonical} /\ faults' \in 0..MaxFaults
  BY HookAssumption DEF RefreshBuild, IInv, TypeOK
<1>6. 1..s.seen \subseteq index'
  BY <1>3, <1>4, <1>5 DEF IInv, Sound, RowsAreIndexed, TypeOK
<1>7. UNCHANGED <<state, receipts, canonical, marker, host, refresher>>
      /\ refresher \in Procs \cup {None}
  BY DEF RefreshBuild, IInv, TypeOK
<1>8. ~proc[p].held /\ ~proc[p].owes
  BY <1>3, Unlocked
<1> HIDE DEF s
<1> QED BY <1>2, <1>3, <1>4, <1>5, <1>6, <1>7, <1>8, RefreshStepKeeps

\* Rows up to the old cursor are indexed, and rows beyond it are looked up.
LEMMA RefreshCheckKeeps == ASSUME IInv, NEW p \in Procs, RefreshCheck(p) PROVE IInv'
<1>1. /\ proc[p].pc = "r_check" /\ proc[p].pc \notin Locking
      /\ UNCHANGED <<state, files, host, faults>> /\ Releases(p)
  BY DEF RefreshCheck, Locking
<1>2. proc[p] \in Process
  BY ProcessTypes DEF IInv
<1>3. ~proc[p].held /\ ~proc[p].owes /\ ~proc[p].precompact
  BY <1>1, Unlocked
<1>4. marker \in [cursor : (0..MaxReceipts) \cup {None}, recent : BOOLEAN]
      /\ refresher' \in Procs \cup {None} /\ faults \in 0..MaxFaults
  BY <1>1 DEF IInv, TypeOK, Releases
<1>5. CASE Becomes(p, Idle)
  BY <1>1, <1>4, <1>5, IdleTypes, QuietStep DEF Idle, files
<1>6. CASE /\ RowsAvailable(proc[p].seen, proc[p].count)
           /\ Becomes(p, [proc[p] EXCEPT !.pc = "advance"])
  <2> DEFINE s == [proc[p] EXCEPT !.pc = "advance"]
  <2>1. s \in Process
    BY <1>2 DEF Process, Control, Locking
  <2>2. /\ ~s.held /\ ~s.owes /\ ~s.precompact /\ s.pc = "advance"
        /\ s.count = proc[p].count
    BY <1>2, <1>3 DEF Process
  <2>3. 1..proc[p].seen \subseteq index
    BY <1>1 DEF IInv, Sound, RowsAreIndexed
  <2>4. proc[p].seen \in Nat /\ proc[p].count \in Nat
    BY <1>2, HookAssumption DEF Process
  <2>5. 1..proc[p].count \subseteq index
    BY <1>6, <2>3, <2>4 DEF RowsAvailable
  <2> HIDE DEF s
  <2> QED BY <1>1, <1>3, <1>4, <1>6, <2>1, <2>2, <2>5, RefreshStepKeeps DEF files, s
<1> QED BY <1>5, <1>6 DEF RefreshCheck

\* The cursor only moves forward, to a row up to which all are indexed.
LEMMA Advances ==
    ASSUME IInv, NEW p \in Procs, SaveAdvance(p)
    PROVE  /\ state' \in Session /\ state'.epoch = state.epoch /\ state'.key = state.key
           /\ state'.delivered = state.delivered /\ state'.topic = state.topic
           /\ state'.refreshed >= state.refreshed
           /\ 1..state'.refreshed \subseteq index
<1>1. /\ proc[p].held /\ proc[p].pc = "advance"
      /\ state' = [proc[p].loaded EXCEPT !.refreshed = Cursor(@, proc[p].count)]
  BY DEF SaveAdvance, Saves
<1>2. state' = [state EXCEPT !.refreshed = Cursor(state.refreshed, proc[p].count)]
  BY <1>1, Holder
<1>3. state \in Session /\ proc[p].count \in 0..MaxReceipts
  BY ProcessTypes DEF IInv, TypeOK, Process
<1>4. Cursor(state.refreshed, proc[p].count) \in 0..MaxReceipts
  BY <1>3 DEF Cursor, Session
<1>5. state' \in Session /\ state'.refreshed = Cursor(state.refreshed, proc[p].count)
  BY <1>2, <1>3, <1>4 DEF Session
<1>6. /\ state'.epoch = state.epoch /\ state'.key = state.key
      /\ state'.delivered = state.delivered /\ state'.topic = state.topic
  BY <1>2, <1>3 DEF Session
<1>7. state'.refreshed >= state.refreshed
  BY <1>3, <1>5, HookAssumption DEF Cursor, Session
<1>8. 1..state'.refreshed \subseteq index
  BY <1>1, <1>5 DEF Cursor, IInv, Sound, RowsAreIndexed, SessionIsGood, CursorIsIndexed
<1> QED BY <1>5, <1>6, <1>7, <1>8

LEMMA SaveAdvanceKeeps == ASSUME IInv, NEW p \in Procs, SaveAdvance(p) PROVE IInv'
<1>1. /\ proc[p].held /\ proc[p].pc = "advance"
      /\ Becomes(p, [Idle EXCEPT !.held = FALSE, !.loaded = Fresh])
      /\ UNCHANGED <<files, refresher, visible, owed, faults>>
  BY DEF SaveAdvance, Saves, host
<1>2. Becomes(p, Idle)
  <2>1. [Idle EXCEPT !.held = FALSE, !.loaded = Fresh] = Idle
    <3>1. Idle \in Process /\ Idle.held = FALSE /\ Idle.loaded = Fresh
      BY IdleTypes DEF Idle
    <3> QED BY <3>1 DEF Process
  <2> QED BY <1>1, <2>1
<1>3. proc'[p] = Idle /\ \A q \in Procs \ {p} : proc'[q] = proc[q]
  BY <1>2, Actor DEF IInv
<1>4. TypeOK'
  BY <1>1, <1>2, Advances, IdleTypes, TypeSaved DEF IInv, TypeOK
<1>5. /\ ~proc'[p].held /\ ~proc'[p].owes /\ ~proc'[p].precompact /\ proc'[p].pc = "idle"
      /\ ~proc[p].owes
  BY <1>1, <1>3, Unlocked DEF Idle
<1>6. Sound(p)'
  BY <1>5, QuietIsSound
<1>7. SessionIsGood'
  <2>1. SuppressedIsVisible'
    BY <1>1, <1>3, <1>5, Advances DEF IInv, SessionIsGood, SuppressedIsVisible
  <2>2. CursorIsIndexed' /\ KeyMeansComplete' /\ TopicOfThisEpoch'
    BY <1>1, Advances
       DEF IInv, SessionIsGood, CursorIsIndexed, KeyMeansComplete, TopicOfThisEpoch, files
  <2> QED BY <2>1, <2>2 DEF SessionIsGood
<1> QED BY <1>1, <1>3, <1>4, <1>5, <1>6, <1>7, Advances, SavedKeeps DEF files

-----------------------------------------------------------------------------
(* The session around the hooks.                                           *)

\* Where no process takes a step and the file stays.
LEMMA AroundKeeps ==
    ASSUME IInv, TypeOK', UNCHANGED <<state, proc>>, index \subseteq index',
           ~Owing' => ~Owing /\ visible \subseteq visible'
    PROVE  IInv'
<1>1. \A q \in Procs : Sound(q)'
  BY AsideIsSound
<1>2. Exclusive'
  BY DEF IInv, Exclusive
<1> QED BY <1>1, <1>2, AsideIsGood DEF IInv

LEMMA AroundSteps ==
    ASSUME IInv,
           \/ \E stored \in BOOLEAN : Remember(stored)
           \/ Flush \/ LoseContext \/ MarkerAges
    PROVE  IInv'
<1>1. CASE \E stored \in BOOLEAN : Remember(stored)
  <2>1. receipts \in Nat /\ receipts' = receipts + 1 /\ receipts' \in 0..MaxReceipts
    BY <1>1, HookAssumption DEF Remember, IInv, TypeOK
  <2>2. canonical' \in {canonical, canonical \cup {receipts + 1}}
    BY <1>1 DEF Remember
  <2>3. canonical' \subseteq 1..receipts' /\ canonical \subseteq canonical'
    BY <2>1, <2>2 DEF IInv, TypeOK
  <2>4. UNCHANGED <<state, index, marker, refresher, visible, owed, proc, faults>>
    BY <1>1 DEF Remember, host
  <2>5. TypeOK'
    BY <2>1, <2>3, <2>4 DEF IInv, TypeOK
  <2> QED BY <2>4, <2>5, AroundKeeps DEF Owing
<1>2. CASE Flush
  <2>1. TypeOK'
    BY <1>2 DEF Flush, host, IInv, TypeOK
  <2> QED BY <1>2, <2>1, AroundKeeps DEF Flush, host, Owing
<1>3. CASE LoseContext
  <2>1. TypeOK'
    BY <1>3 DEF LoseContext, files, IInv, TypeOK
  <2> QED BY <1>3, <2>1, AroundKeeps DEF LoseContext, files, Owing
<1>4. CASE MarkerAges
  <2>1. TypeOK'
    BY <1>4 DEF MarkerAges, host, IInv, TypeOK
  <2> QED BY <1>4, <2>1, AroundKeeps DEF MarkerAges, host, Owing
<1> QED BY <1>1, <1>2, <1>3, <1>4

LEMMA PruneKeeps == ASSUME IInv, Prune PROVE IInv'
<1>1. /\ proc = [p \in Procs |-> Idle] /\ state' = Fresh /\ index' = {}
      /\ receipts' = 0 /\ canonical' = {} /\ marker' = NoMarker
      /\ UNCHANGED <<refresher, visible, owed, proc, faults>>
  BY DEF Prune, host
<1>2. TypeOK'
  BY <1>1, FreshTypes, HookAssumption DEF IInv, TypeOK, NoMarker
<1>3. ASSUME NEW p \in Procs PROVE Sound(p)'
  <2>1. proc'[p] = Idle
    BY <1>1
  <2> QED BY <2>1, QuietIsSound DEF Idle
<1>4. Exclusive'
  BY <1>1 DEF IInv, Exclusive
<1>5. SessionIsGood'
  BY <1>1, HookAssumption DEF SessionIsGood, CursorIsIndexed, KeyMeansComplete,
     SuppressedIsVisible, TopicOfThisEpoch, Fresh
<1> QED BY <1>2, <1>3, <1>4, <1>5 DEF IInv

\* A reset that dies stays owed, so that nothing is missed when the context is
\* gone.
LEMMA DiesKeeps == ASSUME IInv, NEW p \in Procs, Dies(p) PROVE IInv'
<1>1. /\ Becomes(p, Idle) /\ UNCHANGED <<state, files>> /\ Releases(p)
      /\ faults < MaxFaults /\ faults' = faults + 1
      /\ owed' = (owed \/ proc[p].owes)
      /\ visible' = IF proc[p].precompact THEN {} ELSE visible
  BY DEF Dies
<1>2. /\ proc'[p] = Idle /\ proc' \in [Procs -> Process]
      /\ \A q \in Procs \ {p} : proc'[q] = proc[q]
  BY <1>1, IdleTypes, Actor DEF IInv
<1>3. TypeOK'
  <2>1. faults' \in 0..MaxFaults
    BY <1>1, HookAssumption DEF IInv, TypeOK
  <2>2. refresher' \in Procs \cup {None}
    BY <1>1 DEF IInv, TypeOK, Releases
  <2>3. owed' \in BOOLEAN /\ visible' \subseteq Memories
    BY <1>1 DEF IInv, TypeOK
  <2> QED BY <1>1, <1>2, <2>1, <2>2, <2>3 DEF IInv, TypeOK, files
<1>4. ~Owing' => ~Owing /\ visible \subseteq visible'
  <2>1. proc[p].precompact => proc[p].owes
    BY DEF IInv, Sound, LockIsGood
  <2> QED BY <2>1, <1>1, <1>2 DEF Owing
<1>5. Sound(p)' /\ ~proc'[p].held /\ proc'[p].pc # "reset"
  BY <1>2, QuietIsSound DEF Idle
<1> QED BY <1>1, <1>2, <1>3, <1>4, <1>5, AsideKeeps DEF files

-----------------------------------------------------------------------------
(* Every step keeps the invariant, and the theorems.                       *)

LEMMA InitIsGood == Init => IInv
<1> SUFFICES ASSUME Init PROVE IInv
  OBVIOUS
<1>1. TypeOK
  <2>1. proc \in [Procs -> Process]
    BY IdleTypes DEF Init
  <2>2. marker \in [cursor : (0..MaxReceipts) \cup {None}, recent : BOOLEAN]
    BY HookAssumption DEF Init, NoMarker
  <2>3. state \in Session
    BY FreshTypes DEF Init
  <2>4. receipts \in 0..MaxReceipts /\ faults \in 0..MaxFaults
    BY HookAssumption DEF Init
  <2>5. /\ canonical \subseteq 1..receipts /\ index \subseteq canonical
        /\ refresher \in Procs \cup {None} /\ visible \subseteq Memories /\ owed \in BOOLEAN
    BY DEF Init
  <2> QED BY <2>1, <2>2, <2>3, <2>4, <2>5 DEF TypeOK
<1>2. \A p \in Procs : Sound(p) /\ ~proc[p].held /\ proc[p].pc # "reset"
  BY DEF Init, Idle, Sound, LockIsGood, RowsAreIndexed, ViewIsGood, Viewing
<1>3. Exclusive
  BY <1>2 DEF Exclusive
<1>4. SessionIsGood
  BY HookAssumption DEF Init, Fresh, SessionIsGood, CursorIsIndexed, KeyMeansComplete,
     SuppressedIsVisible, TopicOfThisEpoch
<1> QED BY <1>1, <1>2, <1>3, <1>4 DEF IInv

LEMMA StepKeeps == IInv /\ [Next]_vars => IInv'
<1> SUFFICES ASSUME IInv, [Next]_vars PROVE IInv'
  OBVIOUS
<1>1. ASSUME NEW p \in Procs, Start(p) PROVE IInv'
  BY <1>1, HookStartKeeps, ContextResetKeeps, PreCompactKeeps, ToolCompleteKeeps DEF Start
<1>2. ASSUME NEW p \in Procs, Step(p) PROVE IInv'
  BY <1>2, AcquireKeeps, SaveResetKeeps, LoadKeeps, SaveTopicKeeps, SelectKeeps,
     SavePendingKeeps, EmitKeeps, SaveApplyKeeps, ToolStateKeeps, SaveSatisfyKeeps,
     ToolSpawnKeeps, RefreshReceiptsKeeps, RefreshCursorKeeps, RefreshLockKeeps,
     RefreshBuildKeeps, RefreshCheckKeeps, SaveAdvanceKeeps DEF Step
<1>3. CASE Environment
  BY <1>3, AroundSteps, PruneKeeps, DiesKeeps DEF Environment
<1>4. CASE UNCHANGED vars
  <2>1. UNCHANGED <<state, proc, index, visible, owed>> /\ TypeOK'
    BY <1>4 DEF vars, IInv, TypeOK
  <2> QED BY <2>1, AroundKeeps DEF Owing
<1> QED BY <1>1, <1>2, <1>3, <1>4 DEF Next

LEMMA Invariance == Spec => []IInv
BY InitIsGood, StepKeeps, PTL DEF Spec

\* Every variable keeps its type; no reset goes beyond the bound, although
\* resets wait for the lock.
THEOREM TypeCorrect == Spec => []TypeOK
<1>1. IInv => TypeOK
  BY DEF IInv
<1> QED BY <1>1, Invariance, PTL

\* Once every loss of context has been answered by a reset, nothing that hooks
\* withhold as delivered is out of the model's sight (apply_update).
THEOREM DeliveredIsVisible == Spec => []SuppressedIsVisible
<1>1. IInv => SuppressedIsVisible
  BY DEF IInv, SessionIsGood
<1> QED BY <1>1, Invariance, PTL

\* A selection that prompts no longer send was sent whole in this epoch
\* (DeliveryTracker::update).
THEOREM KeysAreComplete == Spec => []KeyMeansComplete
<1>1. IInv => KeyMeansComplete
  BY DEF IInv, SessionIsGood
<1> QED BY <1>1, Invariance, PTL

\* No prompt continues a topic from before a reset (set_recall_topic).
THEOREM TopicsAreCurrent == Spec => []TopicOfThisEpoch
<1>1. IInv => TopicOfThisEpoch
  BY DEF IInv, SessionIsGood
<1> QED BY <1>1, Invariance, PTL

\* The cursor passes only writes that the published index has, however many
\* children refresh at once (receipt_rows_available).
THEOREM CursorIsSafe == Spec => []CursorIsIndexed
<1>1. IInv => CursorIsIndexed
  BY DEF IInv, SessionIsGood
<1> QED BY <1>1, Invariance, PTL

-----------------------------------------------------------------------------
(* The cursor as it moves.                                                 *)

\* What a save leaves of the cursor, whatever else it writes.
LEMMA SavesKeepCursor ==
    ASSUME IInv, NEW p \in Procs,
           SaveReset(p) \/ SaveTopic(p) \/ SavePending(p) \/ SaveApply(p) \/ SaveSatisfy(p)
    PROVE  state'.refreshed = state.refreshed
<1>1. proc[p].held
  BY DEF SaveReset, SaveTopic, SavePending, SaveApply, SaveSatisfy, Saves
<1>2. proc[p].loaded = state /\ state \in Session
  BY <1>1, Holder DEF IInv, TypeOK
<1>3. CASE SaveReset(p)
  <2>1. state' = Reset(state)
    BY <1>2, <1>3 DEF SaveReset, Saves
  <2> QED BY <2>1, <1>2 DEF Reset, Session
<1>4. CASE SaveTopic(p)
  <2>1. state' = TopicSet(state, proc[p].snap.epoch)
    BY <1>2, <1>4 DEF SaveTopic, Saves
  <2> QED BY <2>1, <1>2 DEF TopicSet, Session
<1>5. CASE SavePending(p)
  <2>1. state' = [state EXCEPT !.pending = TRUE]
    BY <1>2, <1>5 DEF SavePending, Saves
  <2> QED BY <2>1, <1>2 DEF Session
<1>6. CASE SaveApply(p)
  <2>1. state' = ApplyUpdate(state, proc[p].snap.epoch, proc[p].update)
    BY <1>2, <1>6 DEF SaveApply
  <2> QED BY <2>1, <1>2 DEF ApplyUpdate, Session
<1>7. CASE SaveSatisfy(p)
  <2>1. state' = [state EXCEPT !.pending = FALSE]
    BY <1>2, <1>7 DEF SaveSatisfy, Saves
  <2> QED BY <2>1, <1>2 DEF Session
<1> QED BY <1>3, <1>4, <1>5, <1>6, <1>7

LEMMA CursorSteps == IInv /\ [Next]_vars => state'.refreshed >= state.refreshed \/ state' = Fresh
<1> SUFFICES ASSUME IInv, [Next]_vars
             PROVE  state'.refreshed >= state.refreshed \/ state' = Fresh
  OBVIOUS
<1>1. state.refreshed \in Nat
  BY HookAssumption DEF IInv, TypeOK, Session
<1>2. CASE UNCHANGED state
  BY <1>1, <1>2
<1>3. ASSUME NEW p \in Procs, Start(p) PROVE UNCHANGED state
  BY <1>3 DEF Start, HookStart, ContextReset, PreCompact, ToolComplete
<1>4. ASSUME NEW p \in Procs, Step(p) PROVE state'.refreshed >= state.refreshed
  <2>1. CASE SaveReset(p) \/ SaveTopic(p) \/ SavePending(p) \/ SaveApply(p) \/ SaveSatisfy(p)
    BY <2>1, <1>1, SavesKeepCursor
  <2>2. CASE SaveAdvance(p)
    BY <2>2, Advances
  <2>3. CASE Acquire(p) \/ Load(p) \/ Select(p) \/ Emit(p) \/ ToolState(p) \/ ToolSpawn(p)
             \/ RefreshReceipts(p) \/ RefreshCursor(p) \/ RefreshLock(p) \/ RefreshBuild(p)
             \/ RefreshCheck(p)
    <3>1. UNCHANGED state
      BY <2>3 DEF Acquire, Load, Select, Emit, ToolState, ToolSpawn, RefreshReceipts,
         RefreshCursor, RefreshLock, RefreshBuild, RefreshCheck
    <3> QED BY <3>1, <1>1
  <2> QED BY <1>4, <2>1, <2>2, <2>3 DEF Step
<1>5. CASE Environment
  <2>1. UNCHANGED state \/ state' = Fresh
    BY <1>5 DEF Environment, Remember, Flush, LoseContext, MarkerAges, Prune, Dies
  <2> QED BY <2>1, <1>2
<1> QED BY <1>2, <1>3, <1>4, <1>5 DEF Next, vars

\* The cursor never moves back, in whatever order children finish
\* (mark_receipts_refreshed).
THEOREM CursorAdvances == Spec => CursorNeverBack
<1>1. IInv /\ [Next]_vars => [state'.refreshed >= state.refreshed \/ state' = Fresh]_vars
  BY CursorSteps
<1> QED BY <1>1, Invariance, PTL DEF Spec, CursorNeverBack

=============================================================================
