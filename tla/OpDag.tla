------------------------------- MODULE OpDag -------------------------------
(***************************************************************************)
(* The operator graph of one token (src/simulator/runtime/dag.py).  A graph *)
(* is the function deps: an op's id |-> the ids it depends on.  Ids are the  *)
(* positions of the nodes in Dag.nodes, so "the first successor" of the code *)
(* is the successor with the least id.                                       *)
(***************************************************************************)
EXTENDS Integers, FiniteSets, FiniteSetsExt

Successors(deps, n) == {m \in DOMAIN deps : n \in deps[m]}

(***************************************************************************)
(* Dag.is_acyclic.  Kahn's worklist reaches every node exactly when no set  *)
(* of nodes is left in which each one still waits for another of the set:   *)
(* KahnAcyclic checks the worklist itself against this definition.          *)
(***************************************************************************)
IsAcyclic(deps) ==
  \A S \in SUBSET (DOMAIN deps) :
    S # {} => \E n \in S : deps[n] \cap S = {}

(***************************************************************************)
(* events._critical_path_us: the longest dependency path when op n lasts    *)
(* dur[n], on an acyclic graph.                                             *)
(***************************************************************************)
CriticalPath(deps, dur) ==
  LET finish[n \in DOMAIN deps] ==
        dur[n] + Max({0} \cup {finish[d] : d \in deps[n]})
  IN  Max({0} \cup {finish[n] : n \in DOMAIN deps})

=============================================================================
