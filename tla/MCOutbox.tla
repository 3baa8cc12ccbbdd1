------------------------------ MODULE MCOutbox ------------------------------
(* Small instances of Outbox for TLC. *)
EXTENDS Outbox, TLC

CONSTANTS a1, a2, r1, r2

\* Each alias has its own store, and declares no expected_id.
TwoStores    == (a1 :> r1) @@ (a2 :> r2)
NoneDeclared == (a1 :> None) @@ (a2 :> None)

\* Caches from earlier sessions: nothing was seen yet; a1 was seen; or a1 was
\* seen while it led to the other store.
SomeSeen == {NoneDeclared, (a1 :> r1) @@ (a2 :> None), (a1 :> r2) @@ (a2 :> None)}

\* One alias and one store.
OneAlias       == a1 :> r1
OneUndeclared  == a1 :> None
OneSeen        == {a1 :> r1}
=============================================================================
