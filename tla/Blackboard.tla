------------------------------ MODULE Blackboard ------------------------------
(***************************************************************************)
(* What MemoryState promises its readers: a bounded map from keys to values *)
(* in which a key, once written, stays, and every write takes effect at one *)
(* moment.                                                                  *)
(***************************************************************************)
EXTENDS Naturals, FiniteSets

CONSTANTS
  Keys,
  Values,
  Absent,     \* what a key that was never written holds
  Capacity

VARIABLE contents

Present == {k \in Keys : contents[k] # Absent}

Init == contents = [k \in Keys |-> Absent]

Put(k, v) ==
  /\ k \in Present \/ Cardinality(Present) < Capacity
  /\ contents' = [contents EXCEPT ![k] = v]

Next == \E k \in Keys, v \in Values : Put(k, v)

Spec == Init /\ [][Next]_contents
=============================================================================
