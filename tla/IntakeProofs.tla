---------------------------- MODULE IntakeProofs ----------------------------
(***************************************************************************)
(* Promotions of Curation, for any notes, targets and promoters: types,    *)
(* at most one entry for a note, an event behind every success, and        *)
(* nothing that somebody else saved or appended is lost; all of it also    *)
(* beside captures and reconciliations, which replace only what is their   *)
(* agent's own, for any facts and any answers of the language model.       *)
(***************************************************************************)
EXTENDS Intake, SequenceTheorems, TLAPS

-----------------------------------------------------------------------------
(* Sequences of marks.                                                     *)

Distinct(seq) == \A i, j \in DOMAIN seq : seq[i] = seq[j] => i = j

\* An entry behind the others.
LEMMA AppendIsSequence ==
    ASSUME NEW S, NEW seq \in Seq(S), NEW e \in S
    PROVE  /\ Append(seq, e) \in Seq(S)
           /\ ToSet(Append(seq, e)) = ToSet(seq) \cup {e}
           /\ Distinct(seq) /\ e \notin ToSet(seq) => Distinct(Append(seq, e))
<1>1. /\ Append(seq, e) \in Seq(S)
      /\ Len(Append(seq, e)) = Len(seq) + 1
      /\ \A i \in 1..Len(seq) : Append(seq, e)[i] = seq[i]
      /\ Append(seq, e)[Len(seq) + 1] = e
    OBVIOUS
<1>2. DOMAIN seq = 1..Len(seq) /\ DOMAIN Append(seq, e) = 1..(Len(seq) + 1)
      /\ Len(seq) \in Nat
    BY <1>1
<1>3. ToSet(Append(seq, e)) = ToSet(seq) \cup {e}
    BY <1>1, <1>2 DEF ToSet
<1>4. ASSUME Distinct(seq), e \notin ToSet(seq)
      PROVE  Distinct(Append(seq, e))
    BY <1>1, <1>2, <1>4 DEF Distinct, ToSet
<1>. QED BY <1>1, <1>3, <1>4

\* An entry taken out.
LEMMA RemoveIsSequence ==
    ASSUME NEW S, NEW seq \in Seq(S), NEW i \in DOMAIN seq
    PROVE  /\ RemoveAt(seq, i) \in Seq(S)
           /\ ToSet(RemoveAt(seq, i)) \subseteq ToSet(seq)
           /\ Distinct(seq) => Distinct(RemoveAt(seq, i))
<1>. DEFINE a == SubSeq(seq, 1, i - 1)
            b == SubSeq(seq, i + 1, Len(seq))
<1>1. /\ i \in 1..Len(seq) /\ Len(seq) \in Nat /\ DOMAIN seq = 1..Len(seq)
    OBVIOUS
<1>2. /\ a \in Seq(S) /\ Len(a) = i - 1
      /\ \A j \in 1..(i - 1) : a[j] = seq[j]
    BY <1>1
<1>3. /\ b \in Seq(S) /\ Len(b) = Len(seq) - i
      /\ \A j \in 1..(Len(seq) - i) : b[j] = seq[j + i]
    BY <1>1
<1>4. RemoveAt(seq, i) = a \o b
    BY DEF RemoveAt
<1>. HIDE DEF a, b
<1>5. /\ a \o b \in Seq(S) /\ Len(a \o b) = Len(seq) - 1
      /\ \A j \in 1..(Len(seq) - 1) :
            (a \o b)[j] = IF j < i THEN seq[j] ELSE seq[j + 1]
  <2>1. /\ Len(a \o b) = Len(a) + Len(b)
        /\ \A j \in 1..(Len(a) + Len(b)) :
              (a \o b)[j] = IF j <= Len(a) THEN a[j] ELSE b[j - Len(a)]
        /\ a \o b \in Seq(S)
      BY <1>2, <1>3, ConcatProperties
  <2>2. Len(a) + Len(b) = Len(seq) - 1
      BY <1>1, <1>2, <1>3
  <2>3. ASSUME NEW j \in 1..(Len(seq) - 1), j < i
        PROVE  (a \o b)[j] = seq[j]
      BY <1>1, <1>2, <2>1, <2>2, <2>3
  <2>4. ASSUME NEW j \in 1..(Len(seq) - 1), ~(j < i)
        PROVE  (a \o b)[j] = seq[j + 1]
    <3>1. j - (i - 1) \in 1..(Len(seq) - i) /\ j - (i - 1) + i = j + 1
        BY <1>1, <2>4
    <3>2. (a \o b)[j] = b[j - (i - 1)]
        BY <1>1, <1>2, <2>1, <2>2, <2>4
    <3>. QED BY <1>3, <3>1, <3>2
  <2>. QED BY <2>1, <2>2, <2>3, <2>4
<1>6. DOMAIN (a \o b) = 1..(Len(seq) - 1)
    BY <1>5
<1>. DEFINE from(j) == IF j < i THEN j ELSE j + 1
<1>7. ASSUME NEW j \in DOMAIN (a \o b)
      PROVE  from(j) \in DOMAIN seq /\ (a \o b)[j] = seq[from(j)]
  <2>1. j \in 1..(Len(seq) - 1)
      BY <1>6
  <2>2. from(j) \in 1..Len(seq)
      BY <1>1, <2>1
  <2>3. (a \o b)[j] = IF j < i THEN seq[j] ELSE seq[j + 1]
      BY <1>5, <2>1
  <2>4. CASE j < i
      BY <1>1, <2>2, <2>3, <2>4
  <2>5. CASE ~(j < i)
      BY <1>1, <2>2, <2>3, <2>5
  <2>. QED BY <2>4, <2>5
<1>8. ASSUME NEW j \in DOMAIN (a \o b), NEW k \in DOMAIN (a \o b), from(j) = from(k)
      PROVE  j = k
  <2>0. j \in 1..(Len(seq) - 1) /\ k \in 1..(Len(seq) - 1)
      BY <1>6, Zenon
  <2>1. j \in Nat /\ k \in Nat /\ i \in Nat
      BY <1>1, <2>0
  <2>2. (IF j < i THEN j ELSE j + 1) = (IF k < i THEN k ELSE k + 1)
      BY <1>8
  <2>. HIDE DEF from
  <2>. QED BY <2>1, <2>2
<1>. HIDE DEF from
<1>9. ToSet(a \o b) \subseteq ToSet(seq)
    BY <1>7, Zenon DEF ToSet
<1>10. Distinct(seq) => Distinct(a \o b)
    BY <1>7, <1>8, Zenon DEF Distinct
<1>. QED BY <1>4, <1>5, <1>9, <1>10

-----------------------------------------------------------------------------
(* Types.                                                                  *)

\* What a record of a promoter is made of at each point.
LEMMA Shapes ==
    ASSUME TypeOK, NEW p \in Promoters
    PROVE  /\ proc[p].at \in {"idle", "lock", "done", "failed", "read", "compare",
                              "replace", "event"}
           /\ proc[p].at # "idle" => proc[p].note \in Notes /\ proc[p].target \in Targets
           /\ proc[p].at \in {"read", "compare", "replace", "event"} =>
                  proc[p] \in Working
<1>1. proc[p] \in {Idle} \cup Asked \cup Working
    BY DEF TypeOK
<1>2. CASE proc[p] = Idle
    BY <1>2 DEF Idle
<1>3. CASE proc[p] \in Asked
    BY <1>3 DEF Asked
<1>4. CASE proc[p] \in Working
    BY <1>4 DEF Working
<1>. QED BY <1>1, <1>2, <1>3, <1>4

\* A promoter that goes on, or ends, keeps its shape.
LEMMA StepsKeepShape ==
    ASSUME TypeOK, NEW p \in Promoters, proc[p].at # "idle"
    PROVE  /\ \A result \in {"done", "failed"} :
                 Ends(p, result) => proc' \in [Promoters -> {Idle} \cup Asked \cup Working]
           /\ \A to \in {"read", "compare", "replace", "event"}, b \in Contents :
                 Goes(p, to, b) => proc' \in [Promoters -> {Idle} \cup Asked \cup Working]
<1>1. proc[p].note \in Notes /\ proc[p].target \in Targets
    BY Shapes
<1>2. \A result \in {"done", "failed"} :
         [at |-> result, note |-> proc[p].note, target |-> proc[p].target] \in Asked
    BY <1>1 DEF Asked
<1>3. \A to \in {"read", "compare", "replace", "event"}, b \in Contents :
         [at |-> to, note |-> proc[p].note, target |-> proc[p].target, before |-> b]
            \in Working
    BY <1>1 DEF Working
<1>4. proc \in [Promoters -> {Idle} \cup Asked \cup Working]
    BY DEF TypeOK
<1>. QED BY <1>2, <1>3, <1>4 DEF Ends, Goes

LEMMA TypeStep == TypeOK /\ [Next]_vars => TypeOK'
<1>. SUFFICES ASSUME TypeOK, [Next]_vars PROVE TypeOK'
    OBVIOUS
<1>. USE CurationAssumption
<1>1. ASSUME NEW p \in Promoters, NEW n \in Notes, NEW t \in Targets, Begin(p, n, t)
      PROVE  TypeOK'
    BY <1>1 DEF TypeOK, Begin, Asked
<1>2. ASSUME NEW p \in Promoters, Lock(p)
      PROVE  TypeOK'
  <2>1. Empty \in Contents
      BY DEF Empty, Contents
  <2>2. proc' \in [Promoters -> {Idle} \cup Asked \cup Working]
      BY <1>2, <2>1, StepsKeepShape DEF Lock
  <2>3. lock' \in [Targets -> Promoters \cup {None}]
      BY <1>2 DEF Lock, TypeOK
  <2>. QED BY <1>2, <2>2, <2>3 DEF Lock, TypeOK
<1>3. ASSUME NEW p \in Promoters, Read(p)
      PROVE  TypeOK'
  <2>1. proc[p].at # "idle" /\ files[proc[p].target] \in Contents
      BY <1>3, Shapes DEF Read, TypeOK
  <2>2. proc' \in [Promoters -> {Idle} \cup Asked \cup Working]
      BY <1>3, <2>1, StepsKeepShape DEF Read
  <2>. QED BY <1>3, <2>2 DEF Read, TypeOK
<1>4. ASSUME NEW p \in Promoters, Compare(p)
      PROVE  TypeOK'
  <2>1. proc[p].at # "idle" /\ proc[p].before \in Contents
      BY <1>4, Shapes DEF Compare, Working
  <2>2. proc' \in [Promoters -> {Idle} \cup Asked \cup Working]
      BY <1>4, <2>1, StepsKeepShape DEF Compare
  <2>3. lock' \in [Targets -> Promoters \cup {None}]
      BY <1>4 DEF Compare, Unlocks, TypeOK
  <2>. QED BY <1>4, <2>2, <2>3 DEF Compare, TypeOK
<1>5. ASSUME NEW p \in Promoters, Replace(p)
      PROVE  TypeOK'
  <2>1. /\ proc[p].at # "idle" /\ proc[p].before \in Contents
        /\ proc[p].note \in Notes /\ proc[p].target \in Targets
      BY <1>5, Shapes DEF Replace, Working
  <2>2. proc' \in [Promoters -> {Idle} \cup Asked \cup Working]
      BY <1>5, <2>1, StepsKeepShape DEF Replace
  <2>3. [proc[p].before EXCEPT !.marks = Append(@, proc[p].note)] \in Contents
      BY <2>1, AppendIsSequence DEF Contents
  <2>4. files' \in [Targets -> Contents]
      BY <1>5, <2>1, <2>3 DEF Replace, TypeOK
  <2>. QED BY <1>5, <2>2, <2>4 DEF Replace, TypeOK
<1>6. ASSUME NEW p \in Promoters, Event(p)
      PROVE  TypeOK'
  <2>1. /\ proc[p].at # "idle" /\ proc[p].note \in Notes /\ proc[p].target \in Targets
      BY <1>6, Shapes DEF Event
  <2>2. proc' \in [Promoters -> {Idle} \cup Asked \cup Working]
      BY <1>6, <2>1, StepsKeepShape DEF Event
  <2>3. lock' \in [Targets -> Promoters \cup {None}]
      BY <1>6 DEF Event, Unlocks, TypeOK
  <2>4. events[proc[p].note][proc[p].target] + 1 \in 0..MaxEvents
      BY <1>6, <2>1 DEF Event, TypeOK
  <2>5. events' \in [Notes -> [Targets -> 0..MaxEvents]]
      BY <1>6, <2>1, <2>4 DEF Event, TypeOK
  <2>. QED BY <1>6, <2>2, <2>3, <2>5 DEF Event, TypeOK
<1>7. ASSUME NEW p \in Promoters, Fail(p)
      PROVE  TypeOK'
  <2>1. proc' \in [Promoters -> {Idle} \cup Asked \cup Working]
      BY <1>7, StepsKeepShape DEF Fail
  <2>2. lock' \in [Targets -> Promoters \cup {None}]
      BY <1>7 DEF Fail, Unlocks, TypeOK
  <2>. QED BY <1>7, <2>1, <2>2 DEF Fail, TypeOK
<1>8. ASSUME NEW p \in Promoters, Crash(p)
      PROVE  TypeOK'
    BY <1>8 DEF Crash, TypeOK
<1>9. ASSUME NEW n \in Notes, Write(n)
      PROVE  TypeOK'
    BY <1>9 DEF Write, TypeOK
<1>10. ASSUME NEW t \in Targets, NEW l \in Lines, Edit(t, l)
       PROVE  TypeOK'
  <2>1. [files[t] EXCEPT !.lines = @ \cup {l}] \in Contents
      BY DEF TypeOK, Contents
  <2>2. files' \in [Targets -> Contents]
      BY <1>10, <2>1 DEF Edit, TypeOK
  <2>3. saved' \subseteq [target : Targets, line : Lines, late : BOOLEAN]
    <3>. DEFINE between == \E p \in Promoters :
                              proc[p].at = "replace" /\ proc[p].target = t
    <3>1. between \in BOOLEAN
        OBVIOUS
    <3>2. saved' = saved \cup {[target |-> t, line |-> l, late |-> between]}
        BY <1>10 DEF Edit
    <3>. HIDE DEF between
    <3>. QED BY <3>1, <3>2 DEF TypeOK
  <2>. QED BY <1>10, <2>2, <2>3 DEF Edit, TypeOK
<1>11. ASSUME NEW t \in Targets, NEW i \in DOMAIN files[t].marks, TakeOut(t, i)
       PROVE  TypeOK'
  <2>0. files[t] \in Contents
      BY DEF TypeOK
  <2>1. RemoveAt(files[t].marks, i) \in Seq(Notes)
      BY <2>0, RemoveIsSequence DEF Contents
  <2>2. [files[t] EXCEPT !.marks = RemoveAt(@, i)] \in Contents
      BY <2>0, <2>1 DEF Contents
  <2>3. files' \in [Targets -> Contents]
      BY <1>11, <2>2 DEF TakeOut, TypeOK
  <2>. QED BY <1>11, <2>3 DEF TakeOut, TypeOK
<1>12. CASE UNCHANGED vars
    BY <1>12 DEF vars, TypeOK
<1>. QED BY <1>1, <1>2, <1>3, <1>4, <1>5, <1>6, <1>7, <1>8, <1>9, <1>10, <1>11, <1>12
         DEF Next

\* Every reachable state of a promotion has the declared types: a process that
\* works on a target remembers what it read of it (promote).
THEOREM TypeCorrect == Spec => []TypeOK
<1>1. ASSUME Init
      PROVE  TypeOK
  <2>1. 0 \in 0..MaxEvents
      BY CurationAssumption
  <2>2. Empty \in Contents
      BY DEF Empty, Contents
  <2>. QED BY <1>1, <2>1, <2>2 DEF Init, TypeOK
<1>. QED BY <1>1, TypeStep, PTL DEF Spec

-----------------------------------------------------------------------------
(* An event behind every success.                                          *)

\* A promotion that reports success has its event, whatever crashed, failed or
\* ran beside it: success follows an event that was found, or one that was
\* written, and events are never taken back (promote).
THEOREM SuccessHasEvent == Spec => []SuccessIsRecorded
<1>1. Init => SuccessIsRecorded
    BY DEF Init, SuccessIsRecorded, Idle
<1>2. ASSUME TypeOK, SuccessIsRecorded, [Next]_vars
      PROVE  SuccessIsRecorded'
  <2>1. ASSUME NEW p \in Promoters, NEW n \in Notes, NEW t \in Targets, Begin(p, n, t)
        PROVE  SuccessIsRecorded'
      BY <1>2, <2>1 DEF Begin, SuccessIsRecorded, TypeOK
  <2>2. ASSUME NEW p \in Promoters, Lock(p) \/ Read(p) \/ Replace(p)
        PROVE  SuccessIsRecorded'
    <3>1. /\ \A q \in Promoters : proc'[q].at = "done" => proc'[q] = proc[q]
          /\ events' = events
      <4>1. CASE Lock(p)
          BY <1>2, <4>1 DEF Lock, Goes, TypeOK
      <4>2. CASE Read(p)
          BY <1>2, <4>2 DEF Read, Goes, TypeOK
      <4>3. CASE Replace(p)
          BY <1>2, <4>3 DEF Replace, Goes, TypeOK
      <4>. QED BY <2>2, <4>1, <4>2, <4>3
    <3>. QED BY <1>2, <3>1 DEF SuccessIsRecorded
  <2>3. ASSUME NEW p \in Promoters, Compare(p) \/ Fail(p)
        PROVE  SuccessIsRecorded'
    <3>1. /\ \A q \in Promoters : proc'[q].at = "done" => proc'[q] = proc[q]
          /\ events' = events
      <4>1. CASE Compare(p)
          BY <1>2, <4>1 DEF Compare, Goes, Ends, TypeOK
      <4>2. CASE Fail(p)
          BY <1>2, <4>2 DEF Fail, Ends, TypeOK
      <4>. QED BY <2>3, <4>1, <4>2
    <3>. QED BY <1>2, <3>1 DEF SuccessIsRecorded
  <2>4. ASSUME NEW p \in Promoters, Event(p)
        PROVE  SuccessIsRecorded'
    <3>1. proc[p].note \in Notes /\ proc[p].target \in Targets
        BY <1>2, <2>4, Shapes DEF Event
    <3>2. \A n \in Notes, t \in Targets : events'[n][t] >= events[n][t]
        BY <1>2, <2>4, <3>1, CurationAssumption DEF Event, TypeOK
    <3>3. events'[proc[p].note][proc[p].target] > 0
        BY <1>2, <2>4, <3>1, CurationAssumption DEF Event, TypeOK
    <3>4. ASSUME NEW q \in Promoters, proc'[q].at = "done"
          PROVE  events'[proc'[q].note][proc'[q].target] > 0
      <4>1. CASE q = p
          BY <1>2, <2>4, <3>3, <4>1 DEF Event, Ends, TypeOK
      <4>2. CASE q # p
        <5>1. proc'[q] = proc[q]
            BY <1>2, <2>4, <4>2 DEF Event, Ends, TypeOK
        <5>2. proc[q].note \in Notes /\ proc[q].target \in Targets
            BY <1>2, <3>4, <5>1, Shapes
        <5>3. /\ events[proc[q].note][proc[q].target] \in Nat
              /\ events'[proc[q].note][proc[q].target] \in Nat
            BY <1>2, <5>2, TypeStep DEF TypeOK
        <5>. QED BY <1>2, <3>2, <3>4, <5>1, <5>2, <5>3 DEF SuccessIsRecorded
      <4>. QED BY <4>1, <4>2
    <3>. QED BY <3>4 DEF SuccessIsRecorded
  <2>5. ASSUME NEW p \in Promoters, Crash(p)
        PROVE  SuccessIsRecorded'
      BY <1>2, <2>5 DEF Crash, Idle, SuccessIsRecorded, TypeOK
  <2>6. CASE UNCHANGED <<events, proc>>
      BY <1>2, <2>6 DEF SuccessIsRecorded
  <2>. QED BY <1>2, <2>1, <2>2, <2>3, <2>4, <2>5, <2>6
           DEF Next, Write, Edit, TakeOut, vars
<1>. QED BY <1>1, <1>2, TypeCorrect, PTL DEF Spec

-----------------------------------------------------------------------------
(* At most one entry for a note.                                           *)

\* No file has two entries for a note, and a promotion is about to add one only
\* to contents that have none.
OnceInv ==
    /\ \A t \in Targets : Distinct(files[t].marks)
    /\ \A p \in Promoters :
          proc[p].at \in {"compare", "replace"} =>
              ~Marked(proc[p].before, proc[p].note) /\ Distinct(proc[p].before.marks)

LEMMA OnceIsDistinct == AtMostOnce <=> \A t \in Targets : Distinct(files[t].marks)
    BY DEF AtMostOnce, Distinct

\* However often a note is promoted into a file, by whomever and after whatever
\* crash, the file has one entry for it: what a promotion writes is always
\* something it read without the entry, with the entry behind it (promote).
THEOREM PromotedAtMostOnce == Spec => []AtMostOnce
<1>1. Init => OnceInv
    BY DEF Init, OnceInv, Idle, Empty, Distinct
<1>2. ASSUME TypeOK, OnceInv, [Next]_vars
      PROVE  OnceInv'
  <2>1. ASSUME NEW p \in Promoters, NEW n \in Notes, NEW t \in Targets, Begin(p, n, t)
        PROVE  OnceInv'
      BY <1>2, <2>1 DEF Begin, OnceInv, TypeOK, Marked
  <2>2. ASSUME NEW p \in Promoters, Lock(p) \/ Event(p) \/ Fail(p)
        PROVE  OnceInv'
      BY <1>2, <2>2 DEF Lock, Event, Fail, Goes, Ends, OnceInv, TypeOK, Marked
  <2>3. ASSUME NEW p \in Promoters, Read(p)
        PROVE  OnceInv'
    <3>1. proc[p].target \in Targets
        BY <1>2, <2>3, Shapes DEF Read
    <3>. QED BY <1>2, <2>3, <3>1 DEF Read, Goes, OnceInv, TypeOK, Marked
  <2>4. ASSUME NEW p \in Promoters, Compare(p)
        PROVE  OnceInv'
      BY <1>2, <2>4 DEF Compare, Goes, Ends, OnceInv, TypeOK, Marked
  <2>5. ASSUME NEW p \in Promoters, Replace(p)
        PROVE  OnceInv'
    <3>1. /\ proc[p].before \in Contents
          /\ proc[p].note \in Notes /\ proc[p].target \in Targets
        BY <1>2, <2>5, Shapes DEF Replace, Working
    <3>2. Distinct(Append(proc[p].before.marks, proc[p].note))
        BY <1>2, <2>5, <3>1, AppendIsSequence DEF Replace, OnceInv, Contents, Marked
    <3>3. \A t \in Targets : Distinct(files'[t].marks)
        BY <1>2, <2>5, <3>1, <3>2 DEF Replace, OnceInv, TypeOK, Contents
    <3>4. \A q \in Promoters : proc'[q].at \in {"compare", "replace"} => proc'[q] = proc[q]
        BY <1>2, <2>5 DEF Replace, Goes, TypeOK
    <3>. QED BY <1>2, <3>3, <3>4 DEF OnceInv, Marked
  <2>6. ASSUME NEW p \in Promoters, Crash(p)
        PROVE  OnceInv'
      BY <1>2, <2>6 DEF Crash, Idle, OnceInv, TypeOK, Marked
  <2>7. ASSUME NEW t \in Targets, NEW l \in Lines, Edit(t, l)
        PROVE  OnceInv'
      BY <1>2, <2>7 DEF Edit, OnceInv, TypeOK, Contents, Marked
  <2>8. ASSUME NEW t \in Targets, NEW i \in DOMAIN files[t].marks, TakeOut(t, i)
        PROVE  OnceInv'
    <3>1. Distinct(RemoveAt(files[t].marks, i))
        BY <1>2, RemoveIsSequence DEF OnceInv, TypeOK, Contents
    <3>2. \A u \in Targets : Distinct(files'[u].marks)
        BY <1>2, <2>8, <3>1 DEF TakeOut, OnceInv, TypeOK, Contents
    <3>. QED BY <1>2, <2>8, <3>2 DEF TakeOut, OnceInv, Marked
  <2>9. CASE UNCHANGED <<files, proc>>
      BY <1>2, <2>9 DEF OnceInv, Marked
  <2>. QED BY <1>2, <2>1, <2>2, <2>3, <2>4, <2>5, <2>6, <2>7, <2>8, <2>9
           DEF Next, Write, vars
<1>3. OnceInv => AtMostOnce
    BY OnceIsDistinct DEF OnceInv
<1>. QED BY <1>1, <1>2, <1>3, TypeCorrect, PTL DEF Spec

-----------------------------------------------------------------------------
(* Nothing is lost.                                                        *)

\* A promoter that works on a target holds its lock.
LockInv ==
    \A p \in Promoters :
        proc[p].at \in {"read", "compare", "replace", "event"} => lock[proc[p].target] = p

\* What was saved before the comparison is in what a promotion will write.
FreshInv ==
    \A p \in Promoters :
        proc[p].at = "replace" =>
            \A s \in saved : s.target = proc[p].target =>
                                 s.late \/ s.line \in proc[p].before.lines

LostInv == LockInv /\ FreshInv /\ NothingIsLost

\* One promoter of a target at a time.
LEMMA LockStep == TypeOK /\ LockInv /\ [Next]_vars => LockInv'
<1>. SUFFICES ASSUME TypeOK, LockInv, [Next]_vars PROVE LockInv'
    OBVIOUS
<1>. DEFINE works(q) == proc[q].at \in {"read", "compare", "replace", "event"}
<1>1. ASSUME NEW p \in Promoters, NEW n \in Notes, NEW t \in Targets, Begin(p, n, t)
      PROVE  LockInv'
    BY <1>1 DEF Begin, LockInv, TypeOK
<1>2. ASSUME NEW p \in Promoters, Lock(p)
      PROVE  LockInv'
  <2>1. proc[p].target \in Targets
      BY <1>2, Shapes DEF Lock
  <2>2. /\ lock'[proc[p].target] = p /\ proc'[p].target = proc[p].target
        /\ \A q \in Promoters \ {p} : proc'[q] = proc[q]
        /\ \A t \in Targets : t # proc[p].target => lock'[t] = lock[t]
      BY <1>2, <2>1 DEF Lock, Goes, TypeOK
  <2>3. ASSUME NEW q \in Promoters, q # p, works(q)
        PROVE  lock'[proc[q].target] = q
    <3>1. proc[q].target \in Targets /\ lock[proc[q].target] = q
        BY <2>3, Shapes DEF LockInv
    <3>2. proc[q].target # proc[p].target
        BY <1>2, <3>1, CurationAssumption DEF Lock
    <3>. QED BY <2>2, <3>1, <3>2
  <2>. QED BY <2>2, <2>3 DEF LockInv
<1>3. ASSUME NEW p \in Promoters, works(p), UNCHANGED lock,
             \A q \in Promoters \ {p} : proc'[q] = proc[q],
             proc'[p].target = proc[p].target
      PROVE  LockInv'
    BY <1>3 DEF LockInv
<1>4. ASSUME NEW p \in Promoters, Read(p) \/ Replace(p)
      PROVE  LockInv'
  <2>1. /\ works(p) /\ UNCHANGED lock /\ proc'[p].target = proc[p].target
        /\ \A q \in Promoters \ {p} : proc'[q] = proc[q]
    <3>1. CASE Read(p)
        BY <3>1 DEF Read, Goes, TypeOK
    <3>2. CASE Replace(p)
        BY <3>2 DEF Replace, Goes, TypeOK
    <3>. QED BY <1>4, <3>1, <3>2
  <2>. QED BY <1>3, <2>1
<1>5. ASSUME NEW p \in Promoters, works(p), Unlocks(p), proc'[p].at \in {"done", "failed"},
             \A q \in Promoters \ {p} : proc'[q] = proc[q]
      PROVE  LockInv'
  <2>1. ASSUME NEW q \in Promoters, q # p, works(q)
        PROVE  lock'[proc[q].target] = q
    <3>1. /\ proc[q].target \in Targets /\ lock[proc[q].target] = q
          /\ proc[p].target \in Targets /\ lock[proc[p].target] = p
        BY <1>5, <2>1, Shapes DEF LockInv
    <3>. QED BY <1>5, <2>1, <3>1 DEF Unlocks, TypeOK
  <2>. QED BY <1>5, <2>1 DEF LockInv
<1>6. ASSUME NEW p \in Promoters, Compare(p) \/ Event(p) \/ Fail(p)
      PROVE  LockInv'
  <2>1. CASE Compare(p) /\ UNCHANGED lock
      BY <1>3, <2>1 DEF Compare, Goes, Ends, TypeOK
  <2>2. CASE Compare(p) /\ Unlocks(p) /\ Ends(p, "failed")
      BY <1>5, <2>2 DEF Compare, Ends, TypeOK
  <2>3. CASE Event(p)
      BY <1>5, <2>3 DEF Event, Ends, TypeOK
  <2>4. CASE Fail(p)
      BY <1>5, <2>4 DEF Fail, Ends, TypeOK
  <2>. QED BY <1>6, <2>1, <2>2, <2>3, <2>4 DEF Compare
<1>7. ASSUME NEW p \in Promoters, Crash(p)
      PROVE  LockInv'
  <2>1. ASSUME NEW q \in Promoters, q # p, works(q)
        PROVE  lock'[proc[q].target] = q
    <3>1. proc[q].target \in Targets /\ lock[proc[q].target] = q
        BY <2>1, Shapes DEF LockInv
    <3>. QED BY <1>7, <2>1, <3>1 DEF Crash
  <2>. QED BY <1>7, <2>1 DEF Crash, Idle, LockInv, TypeOK
<1>8. CASE UNCHANGED <<lock, proc>>
    BY <1>8 DEF LockInv
<1>. QED BY <1>1, <1>2, <1>4, <1>6, <1>7, <1>8 DEF Next, Write, Edit, TakeOut, vars

\* What is saved and not late is in the file, and in what is about to replace it.
LEMMA LostStep == TypeOK /\ LostInv /\ [Next]_vars => FreshInv' /\ NothingIsLost'
<1>. SUFFICES ASSUME TypeOK, LostInv, [Next]_vars PROVE FreshInv' /\ NothingIsLost'
    OBVIOUS
<1>. USE DEF LostInv
\* Steps after which nobody is about to replace who was not before.
<1>1. ASSUME \A q \in Promoters : proc'[q].at = "replace" => proc'[q] = proc[q],
             UNCHANGED <<files, saved>>
      PROVE  FreshInv' /\ NothingIsLost'
    BY <1>1 DEF FreshInv, NothingIsLost
<1>2. ASSUME NEW p \in Promoters, NEW n \in Notes, NEW t \in Targets, Begin(p, n, t)
      PROVE  FreshInv' /\ NothingIsLost'
    BY <1>1, <1>2 DEF Begin, TypeOK
<1>3. ASSUME NEW p \in Promoters, Lock(p) \/ Read(p) \/ Event(p) \/ Fail(p) \/ Crash(p)
      PROVE  FreshInv' /\ NothingIsLost'
  <2>1. CASE Lock(p)
      BY <1>1, <2>1 DEF Lock, Goes, TypeOK
  <2>2. CASE Read(p)
      BY <1>1, <2>2 DEF Read, Goes, TypeOK
  <2>3. CASE Event(p)
      BY <1>1, <2>3 DEF Event, Ends, TypeOK
  <2>4. CASE Fail(p)
      BY <1>1, <2>4 DEF Fail, Ends, TypeOK
  <2>5. CASE Crash(p)
      BY <1>1, <2>5 DEF Crash, Idle, TypeOK
  <2>. QED BY <1>3, <2>1, <2>2, <2>3, <2>4, <2>5
<1>4. ASSUME NEW p \in Promoters, Compare(p)
      PROVE  FreshInv' /\ NothingIsLost'
  <2>1. CASE files[proc[p].target] = proc[p].before
    <3>1. /\ proc'[p].target = proc[p].target /\ proc'[p].before = proc[p].before
          /\ \A q \in Promoters \ {p} : proc'[q] = proc[q]
          /\ UNCHANGED <<files, saved>>
        BY <1>4, <2>1 DEF Compare, Goes, TypeOK
    <3>. QED BY <2>1, <3>1 DEF FreshInv, NothingIsLost
  <2>2. CASE files[proc[p].target] # proc[p].before
      BY <1>1, <1>4, <2>2 DEF Compare, Ends, TypeOK
  <2>. QED BY <2>1, <2>2
<1>5. ASSUME NEW p \in Promoters, Replace(p)
      PROVE  FreshInv' /\ NothingIsLost'
  <2>1. /\ proc[p].before \in Contents
        /\ proc[p].note \in Notes /\ proc[p].target \in Targets
      BY <1>5, Shapes DEF Replace, Working
  <2>2. /\ files'[proc[p].target].lines = proc[p].before.lines
        /\ \A t \in Targets : t # proc[p].target => files'[t] = files[t]
        /\ saved' = saved
      BY <1>5, <2>1 DEF Replace, TypeOK, Contents
  <2>3. \A q \in Promoters : proc'[q].at = "replace" => q # p /\ proc'[q] = proc[q]
      BY <1>5 DEF Replace, Goes, TypeOK
  <2>4. FreshInv'
      BY <2>2, <2>3 DEF FreshInv
  <2>5. ASSUME NEW s \in saved, ~s.late
        PROVE  s.line \in files'[s.target].lines
    <3>1. CASE s.target = proc[p].target
        BY <1>5, <2>2, <2>5, <3>1 DEF Replace, FreshInv
    <3>2. CASE s.target # proc[p].target
        BY <2>2, <2>5, <3>2 DEF NothingIsLost, TypeOK
    <3>. QED BY <3>1, <3>2
  <2>6. ASSUME NEW q \in Promoters, proc'[q].at = "replace"
        PROVE  ToSet(files'[proc'[q].target].marks) \subseteq ToSet(proc'[q].before.marks)
    <3>1. /\ proc'[q] = proc[q] /\ q # p /\ proc[q].target \in Targets
        BY <2>3, <2>6, Shapes
    <3>2. proc[q].target # proc[p].target
        BY <1>5, <2>6, <3>1 DEF LockInv, Replace
    <3>. QED BY <2>2, <2>6, <3>1, <3>2 DEF NothingIsLost
  <2>. QED BY <2>2, <2>4, <2>5, <2>6 DEF NothingIsLost
<1>6. ASSUME NEW t \in Targets, NEW l \in Lines, Edit(t, l)
      PROVE  FreshInv' /\ NothingIsLost'
  <2>. DEFINE between == \E p \in Promoters :
                            proc[p].at = "replace" /\ proc[p].target = t
              new == [target |-> t, line |-> l, late |-> between]
  <2>1. /\ saved' = saved \cup {new}
        /\ new.target = t /\ new.line = l /\ new.late = between
      BY <1>6 DEF Edit
  <2>2. /\ proc' = proc
        /\ files'[t].lines = files[t].lines \cup {l}
        /\ files'[t].marks = files[t].marks
        /\ \A u \in Targets : u # t => files'[u] = files[u]
      BY <1>6 DEF Edit, TypeOK, Contents
  <2>. HIDE DEF new
  <2>3. FreshInv'
    <3>1. ASSUME NEW p \in Promoters, proc[p].at = "replace", new.target = proc[p].target
          PROVE  new.late
        BY <2>1, <3>1
    <3>. HIDE DEF between
    <3>. QED BY <2>1, <2>2, <3>1 DEF FreshInv
  <2>. HIDE DEF between
  <2>4. ASSUME NEW s \in saved', ~s.late
        PROVE  s.line \in files'[s.target].lines
    <3>1. CASE s = new
        BY <2>1, <2>2, <3>1
    <3>2. CASE s \in saved
        BY <2>2, <2>4, <3>2 DEF NothingIsLost, TypeOK
    <3>. QED BY <2>1, <3>1, <3>2
  <2>5. ASSUME NEW q \in Promoters, proc'[q].at = "replace"
        PROVE  ToSet(files'[proc'[q].target].marks) \subseteq ToSet(proc'[q].before.marks)
    <3>1. proc'[q] = proc[q] /\ proc[q].target \in Targets
        BY <2>2, <2>5, Shapes
    <3>2. files'[proc[q].target].marks = files[proc[q].target].marks
        BY <2>2, <3>1
    <3>. QED BY <2>5, <3>1, <3>2 DEF NothingIsLost
  <2>. QED BY <2>3, <2>4, <2>5 DEF NothingIsLost
<1>7. ASSUME NEW t \in Targets, NEW i \in DOMAIN files[t].marks, TakeOut(t, i)
      PROVE  FreshInv' /\ NothingIsLost'
  <2>1. /\ proc' = proc /\ saved' = saved
        /\ files'[t].lines = files[t].lines
        /\ files'[t].marks = RemoveAt(files[t].marks, i)
        /\ \A u \in Targets : u # t => files'[u] = files[u]
      BY <1>7 DEF TakeOut, TypeOK, Contents
  <2>2. ToSet(files'[t].marks) \subseteq ToSet(files[t].marks)
      BY <2>1, RemoveIsSequence DEF TypeOK, Contents
  <2>3. \A u \in Targets : /\ files'[u].lines = files[u].lines
                           /\ ToSet(files'[u].marks) \subseteq ToSet(files[u].marks)
      BY <2>1, <2>2
  <2>4. ASSUME NEW q \in Promoters, proc'[q].at = "replace"
        PROVE  ToSet(files'[proc'[q].target].marks) \subseteq ToSet(proc'[q].before.marks)
    <3>1. proc'[q] = proc[q] /\ proc[q].target \in Targets
        BY <2>1, <2>4, Shapes
    <3>. QED BY <2>3, <2>4, <3>1 DEF NothingIsLost
  <2>5. FreshInv'
      BY <2>1 DEF FreshInv
  <2>. QED BY <2>1, <2>3, <2>4, <2>5 DEF NothingIsLost, TypeOK
<1>8. CASE UNCHANGED <<files, proc, saved>>
    BY <1>8 DEF FreshInv, NothingIsLost
<1>. QED BY <1>2, <1>3, <1>4, <1>5, <1>6, <1>7, <1>8 DEF Next, Write, vars

\* A promotion loses no line that was saved before its comparison, and no entry
\* of another promotion: the lock keeps promoters of one target apart from the
\* first read to the event, and the comparison sees what took no lock (promote).
THEOREM NothingOfOthersIsLost == Spec => []NothingIsLost
<1>1. Init => LostInv
    BY DEF Init, LostInv, LockInv, FreshInv, NothingIsLost, Idle
<1>2. TypeOK /\ LostInv /\ [Next]_vars => LostInv'
    BY LockStep, LostStep DEF LostInv
<1>3. LostInv => NothingIsLost
    BY DEF LostInv
<1>. QED BY <1>1, <1>2, <1>3, TypeCorrect, PTL DEF Spec

-----------------------------------------------------------------------------
(* Where promotions land.                                                  *)

\* Whoever is past the validation of its target has a valid one, and only such
\* targets hold entries.
PlacedInv ==
    /\ \A p \in Promoters :
          proc[p].at \notin {"idle", "done", "failed"} => ValidTarget(proc[p].target)
    /\ \A t \in Targets : files[t].marks # <<>> => ValidTarget(t)

\* Files that the collector's bounds let it read.
WithinLimits == \A t \in Targets : t.depth <= MaxDepth /\ Size(files[t]) <= MaxSize

LEMMA PlacedStep == TypeOK /\ PlacedInv /\ [Next]_vars => PlacedInv'
<1>. SUFFICES ASSUME TypeOK, PlacedInv, [Next]_vars PROVE PlacedInv'
    OBVIOUS
<1>1. ASSUME NEW p \in Promoters, NEW n \in Notes, NEW t \in Targets, Begin(p, n, t)
      PROVE  PlacedInv'
    BY <1>1 DEF Begin, PlacedInv, TypeOK
\* Steps after which nobody works on another target and no file has an entry more.
<1>2. ASSUME \A q \in Promoters : proc'[q].at \notin {"idle", "done", "failed"} =>
                 /\ proc[q].at \notin {"idle", "done", "failed"}
                 /\ proc'[q].target = proc[q].target,
             \A t \in Targets : files[t].marks = <<>> => files'[t].marks = <<>>
      PROVE  PlacedInv'
    BY <1>2 DEF PlacedInv
<1>3. ASSUME NEW p \in Promoters, Lock(p) \/ Read(p) \/ Compare(p) \/ Event(p) \/ Fail(p)
      PROVE  PlacedInv'
  <2>1. CASE Lock(p)
      BY <1>2, <2>1 DEF Lock, Goes, TypeOK
  <2>2. CASE Read(p)
      BY <1>2, <2>2 DEF Read, Goes, TypeOK
  <2>3. CASE Compare(p)
      BY <1>2, <2>3 DEF Compare, Goes, Ends, TypeOK
  <2>4. CASE Event(p)
      BY <1>2, <2>4 DEF Event, Ends, TypeOK
  <2>5. CASE Fail(p)
      BY <1>2, <2>5 DEF Fail, Ends, TypeOK
  <2>. QED BY <1>3, <2>1, <2>2, <2>3, <2>4, <2>5
<1>4. ASSUME NEW p \in Promoters, Crash(p)
      PROVE  PlacedInv'
    BY <1>2, <1>4 DEF Crash, Idle, TypeOK
<1>5. ASSUME NEW p \in Promoters, Replace(p)
      PROVE  PlacedInv'
  <2>1. proc[p].target \in Targets /\ ValidTarget(proc[p].target)
      BY <1>5, Shapes DEF Replace, PlacedInv
  <2>2. \A t \in Targets : t # proc[p].target => files'[t] = files[t]
      BY <1>5 DEF Replace, TypeOK
  <2>3. \A t \in Targets : files'[t].marks # <<>> => ValidTarget(t)
      BY <2>1, <2>2 DEF PlacedInv
  <2>4. \A q \in Promoters : proc'[q].at \notin {"idle", "done", "failed"} =>
            /\ proc[q].at \notin {"idle", "done", "failed"}
            /\ proc'[q].target = proc[q].target
      BY <1>5 DEF Replace, Goes, TypeOK
  <2>. QED BY <2>3, <2>4 DEF PlacedInv
<1>6. ASSUME NEW t \in Targets, NEW l \in Lines, Edit(t, l)
      PROVE  PlacedInv'
  <2>1. proc' = proc /\ \A u \in Targets : files'[u].marks = files[u].marks
      BY <1>6 DEF Edit, TypeOK, Contents
  <2>. QED BY <2>1 DEF PlacedInv
<1>7. ASSUME NEW t \in Targets, NEW i \in DOMAIN files[t].marks, TakeOut(t, i)
      PROVE  PlacedInv'
  <2>1. files[t].marks # <<>>
      OBVIOUS
  <2>2. /\ proc' = proc
        /\ \A u \in Targets : u # t => files'[u] = files[u]
      BY <1>7 DEF TakeOut, TypeOK
  <2>. QED BY <2>1, <2>2 DEF PlacedInv
<1>8. CASE UNCHANGED <<files, proc>>
    BY <1>8 DEF PlacedInv
<1>. QED BY <1>1, <1>3, <1>4, <1>5, <1>6, <1>7, <1>8 DEF Next, Write, vars

\* What is promoted is read: no file that promotion writes lies where the
\* collector does not look, as long as files are within its bounds of depth and
\* size, which validate_target does not ask for.
THEOREM PromotedIsCollected == Spec /\ []WithinLimits => []PromotionsAreRead
<1>1. Init => PlacedInv
    BY DEF Init, PlacedInv, Idle, Empty
<1>2. PlacedInv /\ WithinLimits => PromotionsAreRead
    BY DEF PlacedInv, WithinLimits, PromotionsAreRead, ValidTarget, Collected
<1>. QED BY <1>1, <1>2, PlacedStep, TypeCorrect, PTL DEF Spec
-----------------------------------------------------------------------------
(* Beside captures and reconciliations.                                    *)

LEMMA ReconcilesIsQuiet ==
    ASSUME Reconciles
    PROVE  (\E n \in Notes : Write(n)) \/ UNCHANGED vars
<1> USE DEF Curated, vars
<1> PICK p \in Commands :
        \/ \E said \in Conversations, promote \in BOOLEAN :
               Reconciling!CaptureFacts(p, said, promote)
        \/ \E fact \in Facts : Reconciling!ReconcileFact(p, fact)
        \/ \E n \in Notes : Reconciling!Stage(p, n)
        \/ \E answer \in Reconciling!Answers : Reconciling!Decide(p, answer)
        \/ Reconciling!Apply(p) \/ Reconciling!Stops(p)
  BY DEF Reconciles, Reconciling!Next
<1>1. UNCHANGED Curated
  BY DEF Reconciles
<1>2. ASSUME NEW n \in Notes, Reconciling!Stage(p, n) PROVE Write(n)
  BY <1>1, <1>2 DEF Reconciling!Stage, Write
<1>3. ASSUME UNCHANGED raw PROVE UNCHANGED vars
  BY <1>1, <1>3
<1>4. ASSUME NEW said, NEW promote, Reconciling!CaptureFacts(p, said, promote)
      PROVE  UNCHANGED raw
  BY <1>4 DEF Reconciling!CaptureFacts
<1>5. ASSUME NEW fact, Reconciling!ReconcileFact(p, fact) PROVE UNCHANGED raw
  BY <1>5 DEF Reconciling!ReconcileFact
<1>6. ASSUME NEW answer, Reconciling!Decide(p, answer) PROVE UNCHANGED raw
  BY <1>6 DEF Reconciling!Decide
<1>7. ASSUME Reconciling!Apply(p) PROVE UNCHANGED raw
  BY <1>7 DEF Reconciling!Apply
<1>8. ASSUME Reconciling!Stops(p) PROVE UNCHANGED raw
  BY <1>8 DEF Reconciling!Stops
<1> HIDE DEF Curated, vars
<1> QED BY <1>2, <1>3, <1>4, <1>5, <1>6, <1>7, <1>8

\* To a promotion, a capture is somebody who writes notes: whatever holds of
\* promotions alone holds beside captures and reconciliations.
THEOREM PromotionsBesideCaptures == IntakeSpec => Spec
<1>1. IntakeInit => Init
  BY DEF IntakeInit
<1>2. [IntakeNext]_intake => [Next]_vars
  <2>1. CASE Promotes
    BY <2>1 DEF Promotes
  <2>2. CASE Reconciles
    BY <2>2, ReconcilesIsQuiet DEF Next
  <2>3. CASE UNCHANGED intake
    BY <2>3 DEF intake
  <2> QED BY <2>1, <2>2, <2>3 DEF IntakeNext
<1> QED BY <1>1, <1>2, PTL DEF IntakeSpec, Spec

-----------------------------------------------------------------------------
(* What a reconciliation replaces.                                         *)

\* What an agent may be shown as a record to replace.
Own(r) == r.scope # "project" /\ Reconciling!Allowed(r, Reconciling!Policy, TRUE)

LEMMA FoundIsOwn ==
    ASSUME NEW S, NEW q, NEW r \in Reconciling!Lexical(S, q, Reconciling!Policy, TRUE)
    PROVE  r.entry \in S /\ Reconciling!Allowed(r.entry, Reconciling!Policy, TRUE)
<1> DEFINE expired == Reconciling!TemporalIntent(q) = "oldest"
           allowed == {x \in S : Reconciling!Allowed(x, Reconciling!Policy, expired)}
           scored == {[entry |-> e, score |-> Reconciling!Score(e, q, Reconciling!Policy, TRUE)] :
                         e \in allowed}
           found == {s \in scored : s.score > 0}
<1>1. r \in Reconciling!Finish(q, found)
  BY Zenon DEF Reconciling!Lexical
<1>2. \A s \in scored : \E e \in allowed : \E n : s = [entry |-> e, score |-> n]
  BY Zenon
<1>3. r \in Reconciling!Ranked(q, found)
  <2> HIDE DEF found
  <2> QED BY <1>1 DEF Reconciling!Finish, Reconciling!Distinct
<1>4. PICK s \in found : r.entry = s.entry
  <2> HIDE DEF found
  <2> QED BY <1>3 DEF Reconciling!Ranked
<1>5. r.entry \in allowed
  <2> HIDE DEF scored, allowed
  <2> QED BY <1>2, <1>4
<1>6. Reconciling!Allowed(r.entry, Reconciling!Policy, expired)
  BY <1>5
<1>7. ASSUME NEW policy, NEW old \in BOOLEAN, NEW new \in BOOLEAN, new = TRUE,
             Reconciling!Allowed(r.entry, policy, old)
      PROVE  Reconciling!Allowed(r.entry, policy, new)
  BY <1>7 DEF Reconciling!Allowed, Reconciling!AllowsSearch
<1>8. expired \in BOOLEAN
  OBVIOUS
<1> HIDE DEF expired
<1>9. Reconciling!Allowed(r.entry, Reconciling!Policy, TRUE)
  BY <1>6, <1>7, <1>8, Zenon
<1> QED BY <1>5, <1>9

\* The model is shown its agent's own records.
LEMMA ShownIsOwn ==
    ASSUME NEW snapshot, NEW fact, NEW r \in Reconciling!Shown(snapshot, fact)
    PROVE  r \in snapshot /\ Own(r)
<1> DEFINE owned == {x \in snapshot : x.scope # "project"}
           q == Reconciling!Query(fact, PhraseOf(fact), {})
           hits == Reconciling!Lexical(owned, q, Reconciling!Policy, TRUE)
<1>1. PICK h \in hits : h.entry = r
  <2>1. r \in Reconciling!EntriesOf(Reconciling!Truncate(hits, Limit))
    BY Zenon DEF Reconciling!Shown
  <2> HIDE DEF hits
  <2> QED BY <2>1 DEF Reconciling!EntriesOf, Reconciling!Truncate
<1>2. r \in owned /\ Reconciling!Allowed(r, Reconciling!Policy, TRUE)
  <2> HIDE DEF owned, q
  <2> QED BY <1>1, FoundIsOwn, Zenon
<1> QED BY <1>2 DEF Own

\* An answer makes a target of nothing else.
LEMMA ParsedIsKnown ==
    ASSUME NEW answer, NEW ids
    PROVE  Reconciling!ParseOperation(answer, ids).targets \subseteq ids
BY DEF Reconciling!ParseOperation, Reconciling!Replace, Reconciling!Noop, Reconciling!Add

\* A command knows what is its own of the index that it read, and its decision
\* names nothing else.
JobOK(job) ==
    /\ job.at \in {"ask", "apply"} => \A r \in job.snapshot : Own(r) => r.id \in job.seen
    /\ job.at = "apply" => job.operation.targets \subseteq job.seen

JobsOK == DOMAIN jobs = Commands /\ \A p \in Commands : JobOK(jobs[p])

LEMMA SetsJob ==
    ASSUME JobsOK, NEW p \in Commands, NEW job, JobOK(job), Reconciling!Sets(p, job)
    PROVE  JobsOK'
<1>1. DOMAIN jobs' = Commands
  BY DEF JobsOK, Reconciling!Sets
<1>2. \A x \in Commands : jobs'[x] = IF x = p THEN job ELSE jobs[x]
  BY DEF JobsOK, Reconciling!Sets
<1>3. ASSUME NEW x \in Commands PROVE JobOK(jobs[x])'
  BY <1>2 DEF JobsOK, JobOK, Own
<1> QED BY <1>1, <1>3 DEF JobsOK

LEMMA EndsJob ==
    ASSUME JobsOK, NEW p \in Commands, Reconciling!Ends(p)
    PROVE  JobsOK'
<1>1. JobOK(Reconciling!Idle)
  BY DEF JobOK, Reconciling!Idle
<1> QED BY <1>1, SetsJob DEF Reconciling!Ends

LEMMA StagesJob ==
    ASSUME JobsOK, NEW p \in Commands, NEW left,
           Reconciling!Sets(p, [at |-> "stage", left |-> left])
    PROVE  JobsOK'
<1>1. JobOK([at |-> "stage", left |-> left])
  BY DEF JobOK
<1> QED BY <1>1, SetsJob

\* The index is that of the moment.
LEMMA BeginsJob ==
    ASSUME JobsOK, NEW p \in Commands, NEW left,
           Reconciling!Sets(p, Reconciling!Asks(left, Reconciling!RebuiltIndex,
                                                Reconciling!Knowable))
    PROVE  JobsOK'
<1> PICK job : job = Reconciling!Asks(left, Reconciling!RebuiltIndex, Reconciling!Knowable)
  OBVIOUS
<1>1. job.at = "ask" /\ job.snapshot = memory /\ job.seen = Reconciling!Knowable
  BY DEF Reconciling!Asks, Reconciling!RebuiltIndex
<1>2. \A r \in memory : Own(r) => r.id \in Reconciling!Knowable
  <2> PICK policy : policy = Reconciling!Policy
    OBVIOUS
  <2> SUFFICES ASSUME NEW r \in memory, r.scope # "project",
                      Reconciling!Allowed(r, policy, TRUE)
               PROVE  r.id \in Reconciling!Knowable
    BY Zenon DEF Own
  <2> QED BY Zenon DEF Reconciling!Knowable
<1>3. JobOK(job)
  BY <1>1, <1>2 DEF JobOK
<1> QED BY <1>3, SetsJob

LEMMA ContinuesJob ==
    ASSUME JobsOK, NEW p \in Commands, jobs[p].at = "apply", Reconciling!Continues(p)
    PROVE  JobsOK'
<1> PICK job : job = Reconciling!Asks(Tail(jobs[p].left), jobs[p].snapshot, jobs[p].seen)
  OBVIOUS
<1>1. /\ job.at = "ask" /\ job.snapshot = jobs[p].snapshot /\ job.seen = jobs[p].seen
  BY DEF Reconciling!Asks
<1>2. JobOK(job)
  BY <1>1 DEF JobOK, JobsOK
<1> QED BY <1>2, SetsJob, EndsJob DEF Reconciling!Continues

LEMMA DecidesJob ==
    ASSUME JobsOK, NEW p \in Commands, NEW answer, Reconciling!Decide(p, answer)
    PROVE  JobsOK'
<1> DEFINE before == jobs[p]
           seenByModel == Reconciling!Shown(before.snapshot, Head(before.left))
           ids == {r.id : r \in seenByModel}
<1> PICK operation, recognised, job :
        /\ operation = Reconciling!ParseOperation(answer, ids)
        /\ job = [at |-> "apply", left |-> before.left, snapshot |-> before.snapshot,
                  seen |-> before.seen, operation |-> operation, recognised |-> recognised]
        /\ Reconciling!Sets(p, job)
  BY DEF Reconciling!Decide
<1>1. before.at = "ask" /\ JobOK(before)
  BY DEF Reconciling!Decide, JobsOK
<1>2. ids \subseteq before.seen
  <2> SUFFICES ASSUME NEW r \in seenByModel PROVE r.id \in before.seen
    OBVIOUS
  <2>1. r \in before.snapshot /\ Own(r)
    BY ShownIsOwn
  <2> QED BY <1>1, <2>1 DEF JobOK
<1>3. operation.targets \subseteq before.seen
  <2> HIDE DEF ids
  <2> QED BY <1>2, ParsedIsKnown
<1>4. JobOK(job)
  BY <1>1, <1>3 DEF JobOK
<1> QED BY <1>4, SetsJob

\* Nothing else writes.
LEMMA WritesItsTargets ==
    ASSUME JobsOK, OnlyOwnIsReplaced, NEW p \in Commands, Reconciling!Apply(p)
    PROVE  OnlyOwnIsReplaced'
<1> PICK id : memory' = memory \/ memory' = memory \cup {Reconciling!Written(jobs[p], id)}
  BY DEF Reconciling!Apply
<1> PICK new : new = Reconciling!Written(jobs[p], id)
  OBVIOUS
<1>1. new.supersedes \subseteq new.seen
  BY DEF Reconciling!Apply, Reconciling!Written, JobsOK, JobOK
<1>2. memory' = memory \/ memory' = memory \cup {new}
  OBVIOUS
<1>3. \A r \in memory' \ InitMemory : r.supersedes \subseteq r.seen
  BY <1>1, <1>2 DEF OnlyOwnIsReplaced, Reconciling!OnlyOwnIsReplaced
<1> QED BY <1>3 DEF OnlyOwnIsReplaced, Reconciling!OnlyOwnIsReplaced

LEMMA NothingWritten ==
    ASSUME OnlyOwnIsReplaced, UNCHANGED memory
    PROVE  OnlyOwnIsReplaced'
BY DEF OnlyOwnIsReplaced, Reconciling!OnlyOwnIsReplaced

LEMMA ReconcilesStep ==
    ASSUME JobsOK, OnlyOwnIsReplaced, Reconciles
    PROVE  JobsOK' /\ OnlyOwnIsReplaced'
<1> PICK p \in Commands :
        \/ \E said \in Conversations, promote \in BOOLEAN :
               Reconciling!CaptureFacts(p, said, promote)
        \/ \E fact \in Facts : Reconciling!ReconcileFact(p, fact)
        \/ \E n \in Notes : Reconciling!Stage(p, n)
        \/ \E answer \in Reconciling!Answers : Reconciling!Decide(p, answer)
        \/ Reconciling!Apply(p) \/ Reconciling!Stops(p)
  BY DEF Reconciles, Reconciling!Next
<1>1. ASSUME NEW said, NEW promote, Reconciling!CaptureFacts(p, said, promote)
      PROVE  JobsOK' /\ UNCHANGED memory
  BY <1>1, EndsJob, StagesJob, BeginsJob DEF Reconciling!CaptureFacts
<1>2. ASSUME NEW fact, Reconciling!ReconcileFact(p, fact)
      PROVE  JobsOK' /\ UNCHANGED memory
  BY <1>2, EndsJob, BeginsJob DEF Reconciling!ReconcileFact
<1>3. ASSUME NEW n, Reconciling!Stage(p, n) PROVE JobsOK' /\ UNCHANGED memory
  BY <1>3, EndsJob, StagesJob DEF Reconciling!Stage
<1>4. ASSUME NEW answer, Reconciling!Decide(p, answer) PROVE JobsOK' /\ UNCHANGED memory
  <2>1. UNCHANGED memory
    BY <1>4 DEF Reconciling!Decide
  <2> QED BY <1>4, <2>1, DecidesJob
<1>5. ASSUME Reconciling!Apply(p) PROVE JobsOK' /\ OnlyOwnIsReplaced'
  <2>1. jobs[p].at = "apply" /\ Reconciling!Continues(p)
    BY <1>5 DEF Reconciling!Apply
  <2> QED BY <1>5, <2>1, ContinuesJob, WritesItsTargets
<1>6. ASSUME Reconciling!Stops(p) PROVE JobsOK' /\ UNCHANGED memory
  BY <1>6, EndsJob DEF Reconciling!Stops
<1> QED BY <1>1, <1>2, <1>3, <1>4, <1>5, <1>6, NothingWritten

\* Whatever the language model answers, and whatever runs beside it: a
\* reconciliation replaces no record of a project, none that its agent may not
\* read, and none that its index did not hold (decide_candidate,
\* parse_operation).
THEOREM OnlyOwnRecordsAreReplaced == IntakeSpec => []OnlyOwnIsReplaced
<1>1. IntakeInit => JobsOK /\ OnlyOwnIsReplaced
  BY DEF IntakeInit, Reconciling!Init, Reconciling!Idle, JobsOK, JobOK,
         OnlyOwnIsReplaced, Reconciling!OnlyOwnIsReplaced
<1>2. JobsOK /\ OnlyOwnIsReplaced /\ [IntakeNext]_intake => JobsOK' /\ OnlyOwnIsReplaced'
  <2> SUFFICES ASSUME JobsOK, OnlyOwnIsReplaced, [IntakeNext]_intake
               PROVE  JobsOK' /\ OnlyOwnIsReplaced'
    OBVIOUS
  <2>1. ASSUME UNCHANGED <<memory, jobs>> PROVE JobsOK' /\ OnlyOwnIsReplaced'
    BY <2>1, NothingWritten DEF JobsOK, JobOK, Own
  <2>2. CASE Promotes
    BY <2>1, <2>2 DEF Promotes
  <2>3. CASE Reconciles
    BY <2>3, ReconcilesStep
  <2>4. CASE UNCHANGED intake
    BY <2>1, <2>4 DEF intake
  <2> QED BY <2>2, <2>3, <2>4 DEF IntakeNext
<1> QED BY <1>1, <1>2, PTL DEF IntakeSpec

=============================================================================
