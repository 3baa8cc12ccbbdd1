---------------------------- MODULE MCClassifier ----------------------------
(***************************************************************************)
(* Instances of Classifier: at most two records, the older one without an  *)
(* event, and two backends.                                                *)
(***************************************************************************)
EXTENDS Classifier, TLC

CONSTANTS r1, r2, b1, b2

OlderFirst  == (r1 :> 1) @@ (r2 :> 2)
OneRecord   == (r2 :> 1)
TwoBackends == <<b1, b2>>

\* The workers are interchangeable.
WorkerSymmetry == Permutations(Workers)

=============================================================================
