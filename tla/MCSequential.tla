----------------------------- MODULE MCSequential -----------------------------
(***************************************************************************)
(* The parts of the library that one caller uses at a time, one of them per *)
(* behaviour.                                                                *)
(*                                                                           *)
(* ring: three slots and four ids, one of them the filler itself, for every  *)
(*   head position, every wrap and a full queue with a fourth caller.        *)
(* heap: three slots, two generations and four objects, so that slots are    *)
(*   reused and retired; chains, cycles and edges to objects that are gone.  *)
(* agent: two inputs of seven kinds, on stores with room for one key and two *)
(*   events, and four trace entries, which steps and inputs use up together. *)
(***************************************************************************)
EXTENDS ReadyQueue, MarkSweepCollector, AgentContext

CONSTANTS a, b, c, filler

VARIABLE part

MCIds == {a, b, c, filler}

AgentInputs ==
  { [k |-> "Advance", elapsed |-> 1],
    [k |-> "MemoryWrite", key |-> "x", value |-> 1],
    [k |-> "MemoryWrite", key |-> "y", value |-> 2],
    [k |-> "EventDispatch", kind |-> "e"],
    [k |-> "ActuationComplete", id |-> 1],
    [k |-> "ActuationFail", id |-> 1],
    [k |-> "RngSeed", seed |-> 1] }

MCInit ==
  /\ part \in {"ring", "heap", "agent"}
  /\ Init /\ CollectorInit /\ AgentInit

MCNext ==
  /\ UNCHANGED part
  /\ \/ part = "ring" /\ Next /\ UNCHANGED <<collectorVars, agentVars>>
     \/ part = "heap" /\ CollectorNext /\ UNCHANGED <<vars, agentVars>>
     \/ part = "agent" /\ AgentNext /\ UNCHANGED <<vars, collectorVars>>

MCSpec == MCInit /\ [][MCNext]_<<part, vars, collectorVars, agentVars>>
===============================================================================
