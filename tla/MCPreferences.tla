---------------------------- MODULE MCPreferences -----------------------------
(* Preferences on a small instance.                                         *)
EXTENDS Preferences, TLC

CONSTANTS c1, c2, k1, k2, v1, v2

MCClients1 == {c1}
MCClients2 == {c1, c2}
MCKeys1 == {k1}
MCKeys2 == {k1, k2}
MCValues1 == {v1}
MCValues2 == {v1, v2}
MCClientSymmetry == Permutations(MCClients2)
MCValueSymmetry == Permutations(MCValues2)
MCKeySymmetry == Permutations(MCKeys2)
===============================================================================
