----------------------------- MODULE MCFullText -----------------------------
(* Two processes over one full-text index.                                 *)
EXTENDS FullText

CONSTANTS p1, p2

=============================================================================
