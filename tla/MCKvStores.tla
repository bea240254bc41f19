----------------------------- MODULE MCKvStores -----------------------------
(* Small instances of the two key-value stores, of which a product has one:  *)
(* subject says which one a behaviour is about.                              *)
EXTENDS DbmKvStore, LightKvStore

CONSTANTS k1, k2, v1, v2, t1, t2

VARIABLE subject

MCKeys == {k1, k2}
MCValues == {v1, v2}
MCTasks == {t1, t2}
Symmetry == Permutations(MCKeys) \cup Permutations(MCValues) \cup Permutations(MCTasks)

MCVars == <<dbmVars, lightVars, subject>>

MCInit ==
    /\ DbmInit /\ LightInit
    /\ subject \in {"dbm", "light"}
    /\ subject = "dbm" => build = "hal"
    /\ subject = "light" => disk.sum = "absent"

MCNext ==
    \/ subject = "dbm" /\ DbmNext /\ UNCHANGED <<lightVars, subject>>
    \/ subject = "light" /\ LightNext /\ UNCHANGED <<dbmVars, subject>>

MCSpec == MCInit /\ [][MCNext]_MCVars

=============================================================================
