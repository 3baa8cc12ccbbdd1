------------------------------ MODULE Delivery ------------------------------
(***************************************************************************)
(* What `hm remember` promises about one memory, whatever the outbox and   *)
(* the flushers do to keep it: an accepted memory is held locally or       *)
(* delivered to a store, it is delivered to one store only, and the local  *)
(* copy is given up only after delivery.                                   *)
(***************************************************************************)
CONSTANTS Items, Roots

VARIABLES
    accepted,    \* items whose caller was told of success
    held,        \* items complete in the local outbox
    delivered    \* item -> the roots whose store holds it completely

vars == <<accepted, held, delivered>>

Init ==
    /\ accepted = {}
    /\ held = {}
    /\ delivered = [i \in Items |-> {}]

\* Accepted while the store is away.
Queue(i) ==
    /\ i \notin accepted
    /\ accepted' = accepted \cup {i}
    /\ held' = held \cup {i}
    /\ UNCHANGED delivered

\* Accepted by writing it straight to its store.
StoreDirectly(i, r) ==
    /\ i \notin accepted /\ delivered[i] = {}
    /\ accepted' = accepted \cup {i}
    /\ delivered' = [delivered EXCEPT ![i] = {r}]
    /\ UNCHANGED held

Deliver(i, r) ==
    /\ i \in held /\ delivered[i] = {}
    /\ delivered' = [delivered EXCEPT ![i] = {r}]
    /\ UNCHANGED <<accepted, held>>

Release(i) ==
    /\ i \in held /\ delivered[i] # {}
    /\ held' = held \ {i}
    /\ UNCHANGED <<accepted, delivered>>

Next == \E i \in Items :
    \/ Queue(i) \/ Release(i)
    \/ \E r \in Roots : StoreDirectly(i, r) \/ Deliver(i, r)

Spec == Init /\ [][Next]_vars

\* Nothing accepted is lost, and a memory has one home.
Promise ==
    /\ \A i \in accepted : i \in held \/ delivered[i] # {}
    /\ \A i \in Items : \A q, r \in delivered[i] : q = r

=============================================================================
