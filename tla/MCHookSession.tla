--------------------------- MODULE MCHookSession ---------------------------
(* Small instances of HookSession for TLC. *)
EXTENDS HookSession, TLC

CONSTANTS m1, m2, k1, k2

\* Two selections that share a memory; one of them has one that never fits.
Overlapping == (k1 :> {m1}) @@ (k2 :> {m1, m2})
NoSections  == [k \in {} |-> {}]
=============================================================================
