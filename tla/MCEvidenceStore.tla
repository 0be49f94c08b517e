-------------------------- MODULE MCEvidenceStore --------------------------
EXTENDS EvidenceStore, TLC
CONSTANTS c1, c2, p1, p2, p3, p4
\* p1 is a run and p2 and p3 are aggregates; p4 is an aggregate or from a file.
\* p3 is much better than the other aggregates.
MCNonInferior == {<<p2, p3>>, <<p2, p4>>}
Symmetry == Permutations({c1, c2})
=============================================================================
