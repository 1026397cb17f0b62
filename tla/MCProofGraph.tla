---------------------------- MODULE MCProofGraph ----------------------------
(* Model values and symmetry for ProofGraph. *)
EXTENDS ProofGraph, TLC

CONSTANTS a, b, c

MCNode == {a, b, c}
MCAssumption == {c}

\* One status of each class the code tells apart: open, bad, verified.
MCStatus == {"proposed", "rejected", "formally_verified"}

\* A kind that carries taint and enters the extraction set, and one that
\* carries taint only.  Cycles are closed with edges of both kinds.
MCKind == {"depends_on", "derived_from"}

\* a and b are interchangeable; c is the assumption.
MCSymmetry == Permutations({a, b})
============================================================================
