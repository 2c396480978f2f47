------------------------------ MODULE ObjectHeap ------------------------------
(***************************************************************************)
(* What a garbage collector promises its clients: a handle is given out     *)
(* once, an object lives as long as the roots lead to it, a collection       *)
(* takes everything else, and takes nothing when an object it must keep      *)
(* refers to one that is gone.                                               *)
(***************************************************************************)
CONSTANTS
  Handles,    \* handles that can ever be given out
  Tokens      \* registrations of roots

VARIABLES
  objects,    \* handles of the live objects
  issued,     \* handles ever given out
  edges,      \* handles each live object refers to
  roots,      \* handle registered under each token in use
  answer      \* of the last call, if it was a collection

vars == <<objects, issued, edges, roots, answer>>

Answers == {"None", "Collected", "InvalidHandle"}

Without(f, S) == [x \in (DOMAIN f) \ S |-> f[x]]
With(f, x, y) == [z \in (DOMAIN f) \cup {x} |-> IF z = x THEN y ELSE f[z]]

Rooted == {roots[t] : t \in DOMAIN roots}

\* No reference leads out of S to a live object outside.
Closed(S) == \A o \in S : edges[o] \cap objects \subseteq S

Reachable == {o \in objects : \A S \in SUBSET objects : Rooted \subseteq S /\ Closed(S) => o \in S}

\* Every object to be kept refers to live objects only.
Sound == \A o \in Reachable : edges[o] \subseteq objects

Init ==
  /\ objects = {} /\ issued = {}
  /\ edges = [o \in {} |-> {}] /\ roots = [t \in {} |-> {}]
  /\ answer = "None"

\* What o refers to is up to its client, and nothing else changes.
Write(o) ==
  /\ DOMAIN edges' = objects'
  /\ \A x \in objects \ {o} : edges'[x] = edges[x]

Allocate(o) ==
  /\ o \notin issued
  /\ objects' = objects \cup {o}
  /\ issued' = issued \cup {o}
  /\ Write(o)
  /\ answer' = "None"
  /\ UNCHANGED roots

Edit(o) ==
  /\ o \in objects
  /\ UNCHANGED <<objects, issued, roots>>
  /\ Write(o)
  /\ answer' = "None"

Register(t, o) ==
  /\ t \notin DOMAIN roots
  /\ o \in objects
  /\ roots' = With(roots, t, o)
  /\ answer' = "None"
  /\ UNCHANGED <<objects, issued, edges>>

Unregister(t) ==
  /\ t \in DOMAIN roots
  /\ roots' = Without(roots, {t})
  /\ answer' = "None"
  /\ UNCHANGED <<objects, issued, edges>>

Collect ==
  /\ UNCHANGED <<issued, roots>>
  /\ \/ /\ answer' = "Collected"
        /\ Sound
        /\ objects' = Reachable
        /\ edges' = Without(edges, objects \ Reachable)
     \/ /\ answer' = "InvalidHandle"
        /\ ~Sound
        /\ UNCHANGED <<objects, edges>>

Next ==
  \/ \E o \in Handles : Allocate(o) \/ Edit(o)
  \/ \E t \in Tokens, o \in Handles : Register(t, o)
  \/ \E t \in Tokens : Unregister(t)
  \/ Collect

Spec == Init /\ [][Next]_vars
=============================================================================
