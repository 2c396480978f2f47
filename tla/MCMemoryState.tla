---------------------------- MODULE MCMemoryState ----------------------------
(***************************************************************************)
(* Three threads and three keys on two slots, with two values.              *)
(***************************************************************************)
EXTENDS MemoryState, TLC

CONSTANTS t1, t2, t3, k1, k2, k3, a, b, noKey, noValue, free

MCThreads == {t1, t2, t3}
MCKeys == {k1, k2, k3}
MCValues == {a, b}
Alike == Permutations(MCThreads) \cup Permutations(MCKeys) \cup Permutations(MCValues)
=============================================================================
