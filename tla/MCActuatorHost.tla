--------------------------- MODULE MCActuatorHost ---------------------------
(***************************************************************************)
(* Three threads race for the slots of a small host, each with any of two   *)
(* reasons; more ids than slots, so that some dispatches find none.         *)
(***************************************************************************)
EXTENDS ActuatorHost, TLC

CONSTANTS t1, t2, t3, done, late, noReason, free

MCThreads == {t1, t2, t3}
MCReasons == {done, late}
Alike == Permutations(MCThreads) \cup Permutations(MCReasons)
=============================================================================
