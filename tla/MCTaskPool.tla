------------------------------ MODULE MCTaskPool ------------------------------
(* TaskPool on a small instance: worker identities as model values.         *)
EXTENDS TaskPool, TLC

CONSTANTS t1, t2, t3

MCThreads2 == {t1, t2}
MCThreads3 == {t1, t2, t3}
MCSymmetry2 == Permutations(MCThreads2)
MCSymmetry3 == Permutations(MCThreads3)
===============================================================================
