----------------------------- MODULE MCClients -----------------------------
(***************************************************************************)
(* What an application holds of the stores, for TLC: the shared block, the *)
(* result sets, and the observers of the DataShare helper.  They do not    *)
(* interact; a behaviour is about one of them, chosen by Init.  The block  *)
(* holds four rows of one long each, or a few texts; a row group has two   *)
(* slots.                                                                  *)
(***************************************************************************)
EXTENDS DataShareResultSet, StepResultSet, DataShareObservers

Cell(type, size, value) == [type |-> type, size |-> size, value |-> value]

MCBlockCells == {Cell("long", 0, 1), Cell("text", 3, 2)}

Longs(n) == [i \in 1 .. n |-> <<Cell("long", 0, i)>>]
Texts(n) == [i \in 1 .. n |-> <<Cell("text", 8, i)>>]
Blobs(n) == [i \in 1 .. n |-> <<Cell("blob", 3, i)>>]
Kinds == << <<Cell("long", 0, 1)>>, <<Cell("null", 0, 0)>>, <<Cell("text", 1, 0)>>,
            <<Cell("text", 24, 4)>> >>
\* The fifth row does not fit behind the first four, nor the sixth behind it.
Large == Longs(4) \o [i \in 1 .. 2 |-> <<Cell("text", 40, 4 + i)>>]

MCTables == {<<>>, Longs(3), Longs(6), Texts(5), Blobs(3), Kinds, Large}
MCUnnamed == {Longs(3), Longs(6)}
MCLeftovers == {[type |-> "long", columns |-> 0], [type |-> "text", columns |-> 2]}
MCRewrites == {Longs(2), Longs(6)}

\* on() calls and callbacks are interchangeable.
Symmetry == Permutations(Ons) \cup Permutations(Callbacks)

mcVars == <<shareSetVars, blockVars, step, observerVars>>

MCInit ==
    /\ who \in {"block", "local", "ability", "share", "step", "observers"}
    /\ ShareSetInit
    /\ who \in {"block", "step", "observers"} => table = Longs(3)
    /\ BlockInit
    /\ StepInit
    /\ ObserversInit

MCNext ==
    \/ who = "block" /\ BlockNext /\ UNCHANGED <<shareSetVars, step, observerVars>>
    \/ ShareSetNext /\ UNCHANGED <<blockVars, step, observerVars>>
    \/ StepNext /\ UNCHANGED <<blockVars, shared, observerVars>>
    \/ who = "observers" /\ ObserversNext /\ UNCHANGED <<shareSetVars, blockVars, step>>

MCSpec == MCInit /\ [][MCNext]_mcVars
=============================================================================
