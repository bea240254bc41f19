---------------------------- MODULE MCPredicates ----------------------------
(***************************************************************************)
(* One run for the things a request carries: a query, stated in the three  *)
(* classes of predicates, a row of values, or a batch of operations.       *)
(* The subject is chosen at the start, so the state spaces add up.         *)
(***************************************************************************)
EXTENDS PredicateClients, ShareValues, ShareBatch

VARIABLE subject

mcvars == <<subject, predVars, valueVars, batchVars>>

MCFields == {Plain(<<"a">>), OnlyQuotes}

MCRooms == {16, 30, 100}

MCInit ==
    /\ subject \in {"query", "values", "batch"}
    /\ PredInit
    /\ ValuesInit
    /\ BatchInit
    /\ subject # "query" => share.mode = "INVALID_MODE"
    /\ subject # "values" => firstRow = "empty"
    /\ subject # "batch" => builder.type = "INSERT" /\ room = 100

MCNext ==
    \/ subject = "query" /\ PredNext /\ UNCHANGED <<subject, valueVars, batchVars>>
    \/ subject = "values" /\ ValuesNext /\ UNCHANGED <<subject, predVars, batchVars>>
    \/ subject = "batch" /\ BatchNext /\ UNCHANGED <<subject, predVars, valueVars>>

MCSpec == MCInit /\ [][MCNext]_mcvars
=============================================================================
