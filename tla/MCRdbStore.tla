----------------------------- MODULE MCRdbStore -----------------------------
(* Small instances of the relational store.                                  *)
EXTENDS RdbStore, TLC

CONSTANTS s1, s2, s3, s4, t1, t2, r1, r2

MCSessions == {s1, s2, s3, s4}
MCThreads == {t1, t2}
MCResultSets == {r1, r2}
Symmetry == Permutations(MCThreads) \cup Permutations(MCResultSets)

=============================================================================
