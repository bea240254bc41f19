-------------------------- MODULE MCPreferencesPool ---------------------------
(* PreferencesPool on a small instance.                                     *)
EXTENDS PreferencesPool, TLC

CONSTANTS c1, k1, v1, t1, t2

MCClients1 == {c1}
MCKeys1 == {k1}
MCValues1 == {v1}
MCThreads2 == {t1, t2}
===============================================================================
